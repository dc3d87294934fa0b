------------------------ MODULE BrowserReviewProofs ------------------------
(* What holds of every game and of every review a browser computed, whatever  *)
(* the FENs, the texts, the tabs, the engines and the number of restarts.     *)
(*                                                                            *)
(* The first half is about chess and about no game in particular: what moves  *)
(* there are, that an attack is a move seen from the other end, that taking   *)
(* back restores, that SAN names one move, and what a move keeps of a board.  *)
(* The second half is the inductive invariants: of the board of parse_pgn,    *)
(* and of the tabs, their requests, the runs and the review (ReviewInv).      *)
EXTENDS BrowserReview, TLAPS, WellFoundedInduction, SequenceTheorems, FiniteSetTheorems

-----------------------------------------------------------------------------
(* Squares, directions and the pieces along them.                           *)

\* A set of natural numbers has the least element that Min names.
LEMMA MinOfNats ==
    ASSUME NEW S, S \subseteq Nat, S # {}
    PROVE  Min(S) \in S /\ \A y \in S : Min(S) <= y
  <1>1. IsWellFoundedOn(OpToRel(<, Nat), Nat)
    BY NatLessThanWellFounded
  <1>2. PICK x \in S : \A y \in S : ~ (<<y, x>> \in OpToRel(<, Nat))
    BY <1>1, WFMin
  <1>3. \A y \in S : ~(y < x)
    BY <1>2 DEF OpToRel
  <1>4. x \in S /\ \A y \in S : x <= y
    BY <1>3
  <1> QED BY <1>4 DEF Min

\* The squares and their files and ranks.
LEMMA SquareFacts ==
    ASSUME NEW s \in Squares
    PROVE  /\ FileOf(s) \in 0..7 /\ RankOf(s) \in 0..7 /\ s = RankOf(s) * 8 + FileOf(s)
  BY DEF Squares, FileOf, RankOf
LEMMA SquareAtFacts ==
    ASSUME NEW f \in 0..7, NEW r \in 0..7
    PROVE  /\ SquareAt(f, r) \in Squares
           /\ FileOf(SquareAt(f, r)) = f /\ RankOf(SquareAt(f, r)) = r
  BY DEF Squares, FileOf, RankOf, SquareAt
LEMMA NoSquareIsNone == NoSquare \notin Squares
  BY DEF NoSquare, Squares

\* The directions, each with its opposite.
Rays == Straight \cup Diagonal
Steps == Rays \cup KnightOffsets
Back(d) == <<-d[1], -d[2]>>
Small == {-2, -1, 0, 1, 2}

LEMMA DirectionFacts ==
    ASSUME NEW d \in Steps
    PROVE  /\ d[1] \in Small /\ d[2] \in Small /\ ~(d[1] = 0 /\ d[2] = 0)
           /\ Back(d)[1] = -d[1] /\ Back(d)[2] = -d[2] 
           /\ d \in Straight => Back(d) \in Straight
           /\ d \in Diagonal => Back(d) \in Diagonal
           /\ d \in KnightOffsets => Back(d) \in KnightOffsets
  BY DEF Steps, Rays, Straight, Diagonal, KnightOffsets, Back, Small

LEMMA RaysDiffer == Straight \cap Diagonal = {}
  BY DEF Straight, Diagonal

LEMMA SmallTimes ==
    ASSUME NEW x \in Small, NEW k \in Nat, NEW j \in Nat
    PROVE  k * x \in Int /\ j * (-x) = -(j * x) /\ (k - j) * x = k * x - j * x /\ (k * x = 0 => k = 0 \/ x = 0)
           /\ 0 * x = 0
  BY DEF Small

LEMMA AlongFacts ==
    ASSUME NEW s \in Squares, NEW d \in Steps, NEW k \in Nat, Along(s, d, k) # NoSquare
    PROVE  /\ Along(s, d, k) \in Squares
           /\ FileOf(Along(s, d, k)) = FileOf(s) + k * d[1]
           /\ RankOf(Along(s, d, k)) = RankOf(s) + k * d[2]
           /\ k # 0 => Along(s, d, k) # s
  <1>1. /\ FileOf(s) + k * d[1] \in 0..7 /\ RankOf(s) + k * d[2] \in 0..7
        /\ Along(s, d, k) = SquareAt(FileOf(s) + k * d[1], RankOf(s) + k * d[2])
    BY DEF Along, OnBoard
  <1>2. /\ Along(s, d, k) \in Squares
        /\ FileOf(Along(s, d, k)) = FileOf(s) + k * d[1]
        /\ RankOf(Along(s, d, k)) = RankOf(s) + k * d[2]
    BY <1>1, SquareAtFacts
  <1>3. k # 0 => Along(s, d, k) # s
    <2>1. k # 0 => k * d[1] # 0 \/ k * d[2] # 0
      BY DirectionFacts, SmallTimes
    <2>2. k * d[1] \in Int /\ k * d[2] \in Int
      BY DirectionFacts, SmallTimes
    <2> QED BY <1>2, <2>1, <2>2, SquareFacts
  <1> QED BY <1>2, <1>3

\* From the end of a ray the way back shows the same squares.
LEMMA WayBack ==
    ASSUME NEW s \in Squares, NEW d \in Steps, NEW k \in Nat, Along(s, d, k) # NoSquare,
           NEW j \in 0..k
    PROVE  Along(Along(s, d, k), Back(d), j) = Along(s, d, k - j)
  <1> DEFINE a == Along(s, d, k)
  <1>1. /\ a \in Squares /\ FileOf(a) = FileOf(s) + k * d[1] /\ RankOf(a) = RankOf(s) + k * d[2]
    BY AlongFacts
  <1>2. /\ j * Back(d)[1] = -(j * d[1]) /\ (k - j) * d[1] = k * d[1] - j * d[1]
        /\ k * d[1] \in Int /\ j * d[1] \in Int
    <2>1. j \in Nat /\ d[1] \in Small /\ Back(d)[1] = -d[1]
      BY DirectionFacts
    <2> QED BY <2>1, SmallTimes
  <1>3. /\ j * Back(d)[2] = -(j * d[2]) /\ (k - j) * d[2] = k * d[2] - j * d[2]
        /\ k * d[2] \in Int /\ j * d[2] \in Int
    <2>1. j \in Nat /\ d[2] \in Small /\ Back(d)[2] = -d[2]
      BY DirectionFacts
    <2> QED BY <2>1, SmallTimes
  <1>4. FileOf(s) \in Int /\ RankOf(s) \in Int
    BY SquareFacts
  <1>5. FileOf(a) + j * Back(d)[1] = FileOf(s) + (k - j) * d[1]
    BY <1>1, <1>2, <1>4
  <1>6. RankOf(a) + j * Back(d)[2] = RankOf(s) + (k - j) * d[2]
    BY <1>1, <1>3, <1>4
  <1> QED BY <1>5, <1>6 DEF Along

LEMMA AlongZero ==
    ASSUME NEW s \in Squares, NEW d \in Steps
    PROVE  Along(s, d, 0) = s
  <1>1. 0 * d[1] = 0 /\ 0 * d[2] = 0
    BY DirectionFacts, SmallTimes
  <1>2. FileOf(s) + 0 * d[1] = FileOf(s) /\ RankOf(s) + 0 * d[2] = RankOf(s)
    BY <1>1, SquareFacts
  <1> QED BY <1>2, SquareFacts DEF Along, OnBoard, SquareAt

-----------------------------------------------------------------------------
(* Pieces on squares.                                                       *)

Placed(b) ==
    /\ DOMAIN b.squares \subseteq Squares
    /\ b.squares \in [DOMAIN b.squares -> Pieces]

LEMMA PlacedFacts ==
    ASSUME NEW b, Placed(b), NEW s, Occupied(b, s)
    PROVE  /\ s \in Squares /\ s # NoSquare /\ b.squares[s] \in Pieces
           /\ b.squares[s].color \in Colors /\ b.squares[s].type \in PieceTypes
           /\ b.squares[s] = Piece(b.squares[s].color, b.squares[s].type)
  <1>1. s \in Squares /\ b.squares[s] \in Pieces
    BY DEF Placed, Occupied
  <1> QED BY <1>1, NoSquareIsNone DEF Pieces, Piece

\* How far a ray is empty.
LEMMA StepsFacts ==
    ASSUME NEW b, NEW s, NEW d
    PROVE  /\ StepsToPiece(b, s, d) = 0 => \A k \in 1..7 : ~Occupied(b, Along(s, d, k))
           /\ StepsToPiece(b, s, d) # 0 =>
                /\ StepsToPiece(b, s, d) \in 1..7
                /\ Occupied(b, Along(s, d, StepsToPiece(b, s, d)))
                /\ \A k \in 1..7 : k < StepsToPiece(b, s, d) => ~Occupied(b, Along(s, d, k))
  <1> DEFINE hits == {k \in 1..7 : Occupied(b, Along(s, d, k))}
  <1>1. CASE hits = {}
    BY <1>1 DEF StepsToPiece
  <1>2. CASE hits # {}
    <2>1. StepsToPiece(b, s, d) = Min(hits)
      BY <1>2 DEF StepsToPiece
    <2>2. hits \subseteq Nat
      OBVIOUS
    <2>3. Min(hits) \in hits /\ \A y \in hits : Min(hits) <= y
      BY <1>2, <2>2, MinOfNats
    <2>4. Min(hits) \in 1..7 /\ Occupied(b, Along(s, d, Min(hits)))
      BY <2>3
    <2>5. \A k \in 1..7 : k < Min(hits) => ~Occupied(b, Along(s, d, k))
      BY <2>3
    <2> QED BY <2>1, <2>4, <2>5
  <1> QED BY <1>1, <1>2

\* The first piece on a ray is the one so many steps away.
LEMMA StepsAre ==
    ASSUME NEW b, NEW s, NEW d, NEW k \in 1..7, Occupied(b, Along(s, d, k)),
           \A j \in 1..7 : j < k => ~Occupied(b, Along(s, d, j))
    PROVE  StepsToPiece(b, s, d) = k
  <1>1. StepsToPiece(b, s, d) # 0
    BY StepsFacts
  <1>2. StepsToPiece(b, s, d) \in 1..7 /\ Occupied(b, Along(s, d, StepsToPiece(b, s, d)))
        /\ \A j \in 1..7 : j < StepsToPiece(b, s, d) => ~Occupied(b, Along(s, d, j))
    BY <1>1, StepsFacts
  <1>3. ~(k < StepsToPiece(b, s, d))
    BY <1>2
  <1>4. ~(StepsToPiece(b, s, d) < k)
    BY <1>2
  <1> QED BY <1>2, <1>3, <1>4

\* Two pieces see each other along a ray from both ends.
LEMMA SeenFromBothEnds ==
    ASSUME NEW b, Placed(b), NEW s, Occupied(b, s), NEW d \in Steps, NEW k \in 1..7,
           StepsToPiece(b, s, d) = k
    PROVE  /\ Along(s, d, k) \in Squares /\ Occupied(b, Along(s, d, k))
           /\ StepsToPiece(b, Along(s, d, k), Back(d)) = k
           /\ Along(Along(s, d, k), Back(d), k) = s
  <1>1. /\ Occupied(b, Along(s, d, k))
        /\ \A j \in 1..7 : j < k => ~Occupied(b, Along(s, d, j))
    BY StepsFacts
  <1>2. s \in Squares /\ Along(s, d, k) \in Squares /\ Along(s, d, k) # NoSquare
    BY <1>1, PlacedFacts
  <1>3. \A j \in 0..k : Along(Along(s, d, k), Back(d), j) = Along(s, d, k - j)
    BY <1>2, WayBack
  <1>4. Along(Along(s, d, k), Back(d), k) = s
    BY <1>2, <1>3, AlongZero
  <1>5. \A j \in 1..7 : j < k => ~Occupied(b, Along(Along(s, d, k), Back(d), j))
    <2> TAKE j \in 1..7
    <2> HAVE j < k
    <2>1. k - j \in 1..7 /\ k - j < k /\ j \in 0..k
      OBVIOUS
    <2> QED BY <1>1, <1>3, <2>1
  <1>6. StepsToPiece(b, Along(s, d, k), Back(d)) = k
    BY <1>4, <1>5, StepsAre
  <1> QED BY <1>1, <1>2, <1>4, <1>6

-----------------------------------------------------------------------------
(* The moves of each piece.                                                 *)

Forward(c) == IF c = "white" THEN 1 ELSE -1
FirstRank(c) == IF c = "white" THEN 1 ELSE 6
LastRank(c) == IF c = "white" THEN 7 ELSE 0
Ahead(s, c, k) == Along(s, <<0, Forward(c)>>, k)
Aside(s, c, df) == Along(s, <<df, Forward(c)>>, 1)

LEMMA PawnDirections ==
    ASSUME NEW c \in Colors
    PROVE  /\ <<0, Forward(c)>> \in Straight /\ <<0, Forward(c)>> \in Steps
           /\ \A df \in {-1, 1} : /\ <<df, Forward(c)>> \in Diagonal /\ <<df, Forward(c)>> \in Steps
                                  /\ Back(<<df, Forward(c)>>) = <<-df, -Forward(c)>>
           /\ Forward(c) \in {-1, 1} /\ Forward(Opposite(c)) = -Forward(c)
           /\ Opposite(c) \in Colors /\ Opposite(c) # c /\ Opposite(Opposite(c)) = c
           /\ PawnSource(c) = -Forward(c)
  BY DEF Colors, Forward, Straight, Diagonal, Rays, Steps, Back, Opposite, PawnSource

\* A pawn move is of one of four kinds, and a promotion on the last rank.
Marks(m, c, kind) ==
    IF RankOf(m.to) = LastRank(c)
    THEN m.promotion \in PromotionTypes /\ m.flags = kind \cup {"promotion"}
    ELSE m.promotion = NoType /\ m.flags = kind
PawnMove(b, m, c) ==
    /\ m = Move(m.from, m.to, m.promotion, m.flags)
    /\ m.to \in Squares /\ Ahead(m.from, c, 1) # NoSquare
    /\ \/ m.to = Ahead(m.from, c, 1) /\ ~Occupied(b, m.to) /\ Marks(m, c, {})
       \/ /\ m.to = Ahead(m.from, c, 2) /\ ~Occupied(b, m.to) /\ ~Occupied(b, Ahead(m.from, c, 1))
          /\ RankOf(m.from) = FirstRank(c) /\ m.promotion = NoType /\ m.flags = {"double"}
       \/ \E df \in {-1, 1} :
             /\ m.to = Aside(m.from, c, df)
             /\ \/ Enemy(b, m.to, c) /\ Marks(m, c, {"capture"})
                \/ /\ ~Enemy(b, m.to, c) /\ m.to = b.enPassant
                   /\ Marks(m, c, {"capture", "enPassant"})

LEMMA PawnAhead ==
    ASSUME NEW s \in Squares, NEW c \in Colors
    PROVE  /\ \A k \in {1, 2} : Ahead(s, c, k) # NoSquare => Ahead(s, c, k) \in Squares
           /\ \A df \in {-1, 1} : Aside(s, c, df) # NoSquare =>
                 Aside(s, c, df) \in Squares /\ Ahead(s, c, 1) # NoSquare
           /\ RankOf(s) = FirstRank(c) => Ahead(s, c, 1) # NoSquare /\ Ahead(s, c, 2) # NoSquare
  <1>1. \A k \in {1, 2} : Ahead(s, c, k) # NoSquare => Ahead(s, c, k) \in Squares
    BY PawnDirections, AlongFacts DEF Ahead
  <1>2. ASSUME NEW df \in {-1, 1}, Aside(s, c, df) # NoSquare
        PROVE  Aside(s, c, df) \in Squares /\ Ahead(s, c, 1) # NoSquare
    <2>1. Aside(s, c, df) \in Squares
      BY <1>2, PawnDirections, AlongFacts DEF Aside
    <2>2. RankOf(s) + 1 * Forward(c) \in 0..7
      BY <1>2 DEF Aside, Along, OnBoard
    <2>3. FileOf(s) + 1 * 0 \in 0..7
      BY SquareFacts
    <2>4. SquareAt(FileOf(s) + 1 * 0, RankOf(s) + 1 * Forward(c)) # NoSquare
      BY <2>2, <2>3, SquareAtFacts, NoSquareIsNone
    <2> QED BY <2>1, <2>2, <2>3, <2>4 DEF Ahead, Along, OnBoard
  <1>3. ASSUME RankOf(s) = FirstRank(c), NEW k \in {1, 2} PROVE Ahead(s, c, k) # NoSquare
    <2>1. RankOf(s) + k * Forward(c) \in 0..7
      BY <1>3 DEF FirstRank, Forward, Colors
    <2>2. FileOf(s) + k * 0 \in 0..7
      BY SquareFacts
    <2>3. SquareAt(FileOf(s) + k * 0, RankOf(s) + k * Forward(c)) # NoSquare
      BY <2>1, <2>2, SquareAtFacts, NoSquareIsNone
    <2> QED BY <2>1, <2>2, <2>3 DEF Ahead, Along, OnBoard
  <1> QED BY <1>1, <1>2, <1>3

LEMMA PawnMovesAre ==
    ASSUME NEW b, Placed(b), NEW from, Occupied(b, from), NEW c, c = b.squares[from].color, NEW m
    PROVE  m \in PawnMoves(b, from) <=> PawnMove(b, m, c) /\ m.from = from
  <1> DEFINE step == Forward(c)
             last == LastRank(c)
             one == Ahead(from, c, 1)
             two == Ahead(from, c, 2)
             Add(to, flags) == IF RankOf(to) = last
                        THEN {Move(from, to, t, flags \cup {"promotion"}) : t \in PromotionTypes}
                        ELSE {Move(from, to, NoType, flags)}
             pushes == IF Occupied(b, one) THEN {} ELSE Add(one, {})
             doubles == IF Occupied(b, one) \/ RankOf(from) # FirstRank(c) \/ Occupied(b, two)
                 THEN {} ELSE {Move(from, two, NoType, {"double"})}
             Take(to) == IF Enemy(b, to, c) THEN Add(to, {"capture"})
                  ELSE IF to = b.enPassant THEN Add(to, {"capture", "enPassant"}) ELSE {}
             targets == {Aside(from, c, df) : df \in {-1, 1}} \ {NoSquare}
  <1>1. PawnMoves(b, from) = IF one = NoSquare THEN {} ELSE pushes \cup doubles \cup UNION {Take(to) : to \in targets}
    BY DEF PawnMoves, Ahead, Aside, Forward, LastRank, FirstRank
  <1>2. c \in Colors /\ from \in Squares
    BY PlacedFacts
  <1>3. \A to, kind : m \in Add(to, kind) <=>
           m = Move(m.from, m.to, m.promotion, m.flags) /\ m.from = from /\ m.to = to /\ Marks(m, c, kind)
    BY DEF Marks, Move
  <1>4. m \in doubles <=> /\ m = Move(m.from, m.to, m.promotion, m.flags) /\ m.from = from 
                          /\ m.to = two /\ ~Occupied(b, two) /\ ~Occupied(b, one)
                          /\ RankOf(from) = FirstRank(c) /\ m.promotion = NoType /\ m.flags = {"double"}
    BY DEF Move
  <1>5. m \in pushes <=> m = Move(m.from, m.to, m.promotion, m.flags) /\ m.from = from 
                          /\ m.to = one /\ ~Occupied(b, one) /\ Marks(m, c, {})
    BY <1>3
  <1>6. m \in UNION {Take(to) : to \in targets} <=>
          \E df \in {-1, 1} : /\ Aside(from, c, df) # NoSquare
             /\ m = Move(m.from, m.to, m.promotion, m.flags) /\ m.from = from /\ m.to = Aside(from, c, df)
             /\ \/ Enemy(b, m.to, c) /\ Marks(m, c, {"capture"})
                \/ /\ ~Enemy(b, m.to, c) /\ m.to = b.enPassant
                   /\ Marks(m, c, {"capture", "enPassant"})
    <2>1. \A to : m \in Take(to) <=>
             /\ m = Move(m.from, m.to, m.promotion, m.flags) /\ m.from = from /\ m.to = to
             /\ \/ Enemy(b, to, c) /\ Marks(m, c, {"capture"})
                \/ /\ ~Enemy(b, to, c) /\ to = b.enPassant
                   /\ Marks(m, c, {"capture", "enPassant"})
      BY <1>3
    <2> HIDE DEF Take
    <2>2. m \in UNION {Take(to) : to \in targets} <=> \E to \in targets : m \in Take(to)
      OBVIOUS
    <2>3. \A to : to \in targets <=> \E df \in {-1, 1} : to = Aside(from, c, df) /\ to # NoSquare
      OBVIOUS
    <2> QED BY <2>1, <2>2, <2>3
  <1> HIDE DEF pushes, doubles, Take, targets, Add
  <1>7. /\ \A k \in {1, 2} : Ahead(from, c, k) # NoSquare => Ahead(from, c, k) \in Squares
        /\ \A df \in {-1, 1} : Aside(from, c, df) # NoSquare =>
                 Aside(from, c, df) \in Squares /\ Ahead(from, c, 1) # NoSquare
        /\ RankOf(from) = FirstRank(c) => Ahead(from, c, 1) # NoSquare /\ Ahead(from, c, 2) # NoSquare
    BY <1>2, PawnAhead
  <1>8. ASSUME m \in PawnMoves(b, from) PROVE PawnMove(b, m, c) /\ m.from = from
    <2>1. one # NoSquare /\ (m \in pushes \/ m \in doubles \/ m \in UNION {Take(to) : to \in targets})
      BY <1>1, <1>8
    <2>2. CASE m \in pushes
      BY <1>5, <1>7, <2>1, <2>2 DEF PawnMove
    <2>3. CASE m \in doubles
      BY <1>4, <1>7, <2>1, <2>3 DEF PawnMove
    <2>4. CASE m \in UNION {Take(to) : to \in targets}
      BY <1>6, <1>7, <2>1, <2>4 DEF PawnMove
    <2> QED BY <2>1, <2>2, <2>3, <2>4
  <1>9. ASSUME PawnMove(b, m, c), m.from = from PROVE m \in PawnMoves(b, from)
    <2>1. one # NoSquare /\ NoSquare \notin Squares
      BY <1>9, NoSquareIsNone DEF PawnMove
    <2>2. m \in pushes \/ m \in doubles \/ m \in UNION {Take(to) : to \in targets}
      BY <1>4, <1>5, <1>6, <1>9, <2>1 DEF PawnMove
    <2> QED BY <1>1, <2>1, <2>2
  <1> QED BY <1>8, <1>9

-----------------------------------------------------------------------------
(* Moves of the other pieces and castling.                                  *)

Plain(b, m) == m = AddMove(b, m.from, m.to)
Reach(b, s, d) == IF StepsToPiece(b, s, d) = 0 THEN 7 ELSE StepsToPiece(b, s, d)

LEMMA PlainFacts ==
    ASSUME NEW b, NEW m, Plain(b, m)
    PROVE  /\ m.promotion = NoType /\ m.flags = IF Occupied(b, m.to) THEN {"capture"} ELSE {}
           /\ m = Move(m.from, m.to, m.promotion, m.flags)
  BY DEF Plain, AddMove, Move

LEMMA StepMovesAre ==
    ASSUME NEW b, NEW from, NEW c, c = b.squares[from].color, NEW offsets, NEW m
    PROVE  m \in StepMoves(b, from, offsets) <=>
              /\ Plain(b, m) /\ m.from = from /\ Enterable(b, m.to, c)
              /\ \E d \in offsets : m.to = Along(from, d, 1)
  <1> DEFINE tos == {t \in {Along(from, d, 1) : d \in offsets} : Enterable(b, t, c)}
  <1>1. StepMoves(b, from, offsets) = {AddMove(b, from, to) : to \in tos}
    BY DEF StepMoves
  <1>2. \A to : AddMove(b, from, to).from = from /\ AddMove(b, from, to).to = to
    BY DEF AddMove, Move
  <1>3. \A to : to \in tos <=> Enterable(b, to, c) /\ \E d \in offsets : to = Along(from, d, 1)
    OBVIOUS
  <1> HIDE DEF tos
  <1>4. m \in StepMoves(b, from, offsets) <=> \E to \in tos : m = AddMove(b, from, to)
    BY <1>1
  <1> QED BY <1>2, <1>3, <1>4 DEF Plain

LEMMA SlidingMovesAre ==
    ASSUME NEW b, NEW from, NEW c, c = b.squares[from].color, NEW directions, NEW m
    PROVE  m \in SlidingMoves(b, from, directions) <=>
              /\ Plain(b, m) /\ m.from = from /\ Enterable(b, m.to, c)
              /\ \E d \in directions : \E k \in 1..Reach(b, from, d) : m.to = Along(from, d, k)
  <1> DEFINE Targets(d) == {Along(from, d, k) : k \in 1..Reach(b, from, d)}
             tos == {t \in UNION {Targets(d) : d \in directions} : Enterable(b, t, c)}
  <1>1. SlidingMoves(b, from, directions) = {AddMove(b, from, to) : to \in tos}
    BY DEF SlidingMoves, Reach
  <1>2. \A to : AddMove(b, from, to).from = from /\ AddMove(b, from, to).to = to
    BY DEF AddMove, Move
  <1>3. \A to : to \in UNION {Targets(d) : d \in directions} <=> \E d \in directions : to \in Targets(d)
    <2> HIDE DEF Targets
    <2> QED OBVIOUS
  <1>4. \A to : to \in tos <=> Enterable(b, to, c) /\ \E d \in directions : \E k \in 1..Reach(b, from, d) : to = Along(from, d, k)
    BY <1>3
  <1> HIDE DEF tos
  <1>5. m \in SlidingMoves(b, from, directions) <=> \E to \in tos : m = AddMove(b, from, to)
    BY <1>1
  <1> QED BY <1>2, <1>4, <1>5 DEF Plain

CastlingMove(b, m, c, k) ==
    /\ m = Move(k.king, k.to, NoType, {k.flag}) /\ k.color = c /\ k.right \in b.rights
    /\ ~InCheck(b, c)
    /\ \A s \in k.empty : ~Occupied(b, s)
    /\ Holds(b, k.rook, c, "R")
    /\ \A s \in k.safe : ~IsSquareAttacked(b, s, Opposite(c))

LEMMA CastlingMovesAre ==
    ASSUME NEW b, NEW from, NEW c, c = b.squares[from].color, NEW m
    PROVE  m \in CastlingMoves(b, from) <=>
              m.from = from /\ \E k \in Castlings : CastlingMove(b, m, c, k)
  <1> DEFINE Allowed(k) ==
               /\ k.color = c /\ k.king = from /\ k.right \in b.rights
               /\ ~InCheck(b, c)
               /\ \A s \in k.empty : ~Occupied(b, s)
               /\ Holds(b, k.rook, c, "R")
               /\ \A s \in k.safe : ~IsSquareAttacked(b, s, Opposite(c))
  <1>1. CastlingMoves(b, from) = {Move(from, k.to, NoType, {k.flag}) : k \in {x \in Castlings : Allowed(x)}}
    BY DEF CastlingMoves
  <1>2. \A k : Allowed(k) /\ m = Move(from, k.to, NoType, {k.flag}) <=> CastlingMove(b, m, c, k) /\ m.from = from
    BY DEF CastlingMove, Move
  <1> HIDE DEF Allowed
  <1>3. m \in CastlingMoves(b, from) <=>
           \E k \in Castlings : Allowed(k) /\ m = Move(from, k.to, NoType, {k.flag})
    BY <1>1
  <1> QED BY <1>2, <1>3

LEMMA CastlingFacts ==
    ASSUME NEW k \in Castlings
    PROVE  /\ k.king \in Squares /\ k.to \in Squares /\ k.rook \in Squares /\ k.rookTo \in Squares
           /\ k.to \in k.empty /\ k.rookTo \in k.empty /\ k.color \in Colors
           /\ k.king # k.to /\ k.king # k.rook /\ k.king # k.rookTo /\ k.to # k.rook /\ k.to # k.rookTo
           /\ k.rook # k.rookTo /\ k.flag \in {"kingCastle", "queenCastle"}
           /\ \A j \in Castlings : j.color = k.color /\ j.flag = k.flag => j = k
           /\ \A j \in Castlings : j.right = k.right => j = k
           /\ \A j \in Castlings : j.color = k.color => j.king = k.king
           /\ \A j \in Castlings : j.color # k.color => j.king # k.king
           /\ \A j \in Castlings : j # k => j.rook # k.rook
           /\ \A j, l \in Castlings : j.rook # l.king
  BY DEF Castlings, Squares, Colors

\* The moves of a position, piece by piece.
PieceMove(b, m, c) ==
    LET type == b.squares[m.from].type
        Slides(directions) ==
            /\ Plain(b, m) /\ Enterable(b, m.to, c)
            /\ \E d \in directions : \E k \in 1..Reach(b, m.from, d) : m.to = Along(m.from, d, k)
        Leaps(offsets) ==
            /\ Plain(b, m) /\ Enterable(b, m.to, c) /\ \E d \in offsets : m.to = Along(m.from, d, 1)
    IN  \/ type = "P" /\ PawnMove(b, m, c)
        \/ type = "N" /\ Leaps(KnightOffsets)
        \/ type = "B" /\ Slides(Diagonal)
        \/ type = "R" /\ Slides(Straight)
        \/ type = "Q" /\ Slides(Diagonal \cup Straight)
        \/ type = "K" /\ Leaps(Diagonal \cup Straight)
        \/ type = "K" /\ \E k \in Castlings : CastlingMove(b, m, c, k)

LEMMA PseudoMovesAre ==
    ASSUME NEW b, Placed(b), NEW m
    PROVE  m \in PseudoLegalMoves(b) <=>
              Occupied(b, m.from) /\ b.squares[m.from].color = b.side /\ PieceMove(b, m, b.side)
  <1> DEFINE froms == {s \in DOMAIN b.squares : b.squares[s].color = b.side}
  <1>1. m \in PseudoLegalMoves(b) <=> \E from \in froms : m \in PieceMoves(b, from)
    BY DEF PseudoLegalMoves
  <1>2. ASSUME NEW from \in froms
        PROVE  m \in PieceMoves(b, from) <=> m.from = from /\ PieceMove(b, m, b.side)
    <2> DEFINE c == b.side
               type == b.squares[from].type
    <2>1. Occupied(b, from) /\ b.squares[from].color = c /\ type \in PieceTypes
      BY PlacedFacts DEF Occupied
    <2>2. m \in PawnMoves(b, from) <=> m.from = from /\ PawnMove(b, m, c)
      BY <2>1, PawnMovesAre
    <2>3. \A offsets : m \in StepMoves(b, from, offsets) <=>
              /\ Plain(b, m) /\ m.from = from /\ Enterable(b, m.to, c)
              /\ \E d \in offsets : m.to = Along(m.from, d, 1)
      BY <2>1, StepMovesAre
    <2>4. \A directions : m \in SlidingMoves(b, from, directions) <=>
              /\ Plain(b, m) /\ m.from = from /\ Enterable(b, m.to, c)
              /\ \E d \in directions : \E k \in 1..Reach(b, m.from, d) : m.to = Along(m.from, d, k)
      BY <2>1, SlidingMovesAre
    <2>5. m \in CastlingMoves(b, from) <=>
              m.from = from /\ \E k \in Castlings : CastlingMove(b, m, c, k)
      BY <2>1, CastlingMovesAre
    <2>6. PieceMoves(b, from) = IF type = "P" THEN PawnMoves(b, from)
             ELSE IF type = "N" THEN StepMoves(b, from, KnightOffsets)
             ELSE IF type = "B" THEN SlidingMoves(b, from, Diagonal)
             ELSE IF type = "R" THEN SlidingMoves(b, from, Straight)
             ELSE IF type = "Q" THEN SlidingMoves(b, from, Diagonal \cup Straight)
             ELSE StepMoves(b, from, Diagonal \cup Straight) \cup CastlingMoves(b, from)
      BY DEF PieceMoves
    <2>7. CASE type = "P"
      BY <2>2, <2>6, <2>7 DEF PieceMove
    <2>8. CASE type = "N"
      BY <2>3, <2>6, <2>8 DEF PieceMove
    <2>9. CASE type = "B"
      BY <2>4, <2>6, <2>9 DEF PieceMove
    <2>10. CASE type = "R"
      BY <2>4, <2>6, <2>10 DEF PieceMove
    <2>11. CASE type = "Q"
      BY <2>4, <2>6, <2>11 DEF PieceMove
    <2>12. CASE type = "K"
      BY <2>3, <2>5, <2>6, <2>12 DEF PieceMove
    <2> QED BY <2>1, <2>7, <2>8, <2>9, <2>10, <2>11, <2>12 DEF PieceTypes
  <1>3. m.from \in froms <=> Occupied(b, m.from) /\ b.squares[m.from].color = b.side
    BY DEF Occupied
  <1> HIDE DEF froms
  <1> QED BY <1>1, <1>2, <1>3

-----------------------------------------------------------------------------
(* An attack is a move, seen from the other end.                            *)

\* One step and back.
LEMMA StepBack ==
    ASSUME NEW s \in Squares, NEW d \in Steps, Along(s, d, 1) # NoSquare
    PROVE  Along(s, d, 1) \in Squares /\ Along(Along(s, d, 1), Back(d), 1) = s
  <1>1. Along(Along(s, d, 1), Back(d), 1) = Along(s, d, 1 - 1)
    BY WayBack
  <1> QED BY <1>1, AlongZero, AlongFacts

\* A ray on which a slider reaches a piece ends at it.
LEMMA ReachEnds ==
    ASSUME NEW b, NEW s, NEW d, NEW k \in 1..Reach(b, s, d), Occupied(b, Along(s, d, k))
    PROVE  k \in 1..7 /\ StepsToPiece(b, s, d) = k
  <1>1. CASE StepsToPiece(b, s, d) = 0
    <2>1. k \in 1..7
      BY <1>1 DEF Reach
    <2> QED BY <1>1, <2>1, StepsFacts
  <1>2. CASE StepsToPiece(b, s, d) # 0
    <2>1. StepsToPiece(b, s, d) \in 1..7 /\ k \in 1..StepsToPiece(b, s, d)
      BY <1>2, StepsFacts DEF Reach
    <2>2. k \in 1..7 /\ ~(k < StepsToPiece(b, s, d))
      BY <1>2, <2>1, StepsFacts
    <2> QED BY <2>1, <2>2
  <1> QED BY <1>1, <1>2

\* Whatever attacks an enemy's square may take what stands there, ...
LEMMA AttackIsMove ==
    ASSUME NEW b, Placed(b), NEW c \in Colors, b.side = c, NEW s, Enemy(b, s, c),
           IsSquareAttacked(b, s, c)
    PROVE  \E m \in PseudoLegalMoves(b) : m.to = s
  <1>1. s \in Squares /\ Occupied(b, s) /\ s # NoSquare
    BY PlacedFacts DEF Enemy
  <1>2. Enterable(b, s, c)
    BY <1>1 DEF Enterable
  <1>3. \A m : Occupied(b, m.from) /\ b.squares[m.from].color = c /\ PieceMove(b, m, c)
                 => m \in PseudoLegalMoves(b)
    BY PseudoMovesAre
  <1>4. \A from : LET m == AddMove(b, from, s)
                  IN  m.from = from /\ m.to = s /\ Plain(b, m)
    BY DEF AddMove, Move, Plain
  <1>5. CASE \E df \in {-1, 1} : Holds(b, Along(s, <<df, PawnSource(c)>>, 1), c, "P")
    <2>1. PICK df \in {-1, 1} : Holds(b, Along(s, <<df, PawnSource(c)>>, 1), c, "P")
      BY <1>5
    <2> DEFINE d == <<df, PawnSource(c)>>
               from == Along(s, d, 1)
               m == IF RankOf(s) = LastRank(c)
                    THEN Move(from, s, "Q", {"capture"} \cup {"promotion"})
                    ELSE Move(from, s, NoType, {"capture"})
    <2>2. Occupied(b, from) /\ b.squares[from].color = c /\ b.squares[from].type = "P"
      BY <2>1 DEF Holds, Piece
    <2>3. from \in Squares /\ from # NoSquare
      BY <2>2, PlacedFacts
    <2>4. d \in Steps /\ Back(d) = <<-df, Forward(c)>> /\ -df \in {-1, 1}
      <3>10. -df \in {-1, 1} /\ -(-df) = df
        OBVIOUS
      <3>11. PawnSource(c) = -Forward(c)
        BY PawnDirections
      <3>0. -df \in {-1, 1} /\ -(-df) = df /\ PawnSource(c) = -Forward(c)
        BY <3>10, <3>11
      <3>1. d = Back(<<-df, Forward(c)>>) /\ -df \in {-1, 1}
        BY <3>0 DEF Back
      <3>2. <<-df, Forward(c)>> \in Diagonal /\ Forward(c) \in {-1, 1}
        BY <3>1, PawnDirections
      <3>3. d \in Diagonal
        BY <3>1, <3>2, DirectionFacts DEF Steps, Rays
      <3>4. Back(d) = <<-df, -(-Forward(c))>>
        BY PawnDirections DEF Back
      <3> QED BY <3>1, <3>2, <3>3, <3>4 DEF Steps, Rays
    <2>5. Aside(from, c, -df) = s
      BY <1>1, <2>3, <2>4, StepBack DEF Aside
    <2>6. Ahead(from, c, 1) # NoSquare
      BY <1>1, <2>3, <2>4, <2>5, PawnAhead
    <2>7. m.from = from /\ m.to = s /\ m = Move(m.from, m.to, m.promotion, m.flags)
          /\ Marks(m, c, {"capture"})
      BY DEF Move, Marks, PromotionTypes
    <2> HIDE DEF m, from, d
    <2>8. PawnMove(b, m, c)
      BY <1>1, <2>4, <2>5, <2>6, <2>7 DEF PawnMove
    <2>9. PieceMove(b, m, c)
      BY <2>2, <2>7, <2>8 DEF PieceMove
    <2> QED BY <1>3, <2>2, <2>7, <2>9
  <1>6. CASE \E d \in KnightOffsets : Holds(b, Along(s, d, 1), c, "N")
    <2>1. PICK d \in KnightOffsets : Holds(b, Along(s, d, 1), c, "N")
      BY <1>6
    <2> DEFINE from == Along(s, d, 1)
               m == AddMove(b, from, s)
    <2>2. Occupied(b, from) /\ b.squares[from].color = c /\ b.squares[from].type = "N"
      BY <2>1 DEF Holds, Piece
    <2>3. from # NoSquare
      BY <2>2, PlacedFacts
    <2>4. Along(from, Back(d), 1) = s /\ Back(d) \in KnightOffsets
      BY <1>1, <2>3, StepBack, DirectionFacts DEF Steps
    <2>5. m.from = from /\ m.to = s /\ Plain(b, m)
      BY <1>4
    <2> HIDE DEF m, from
    <2>6. PieceMove(b, m, c)
      BY <1>2, <2>2, <2>4, <2>5 DEF PieceMove
    <2> QED BY <1>3, <2>2, <2>5, <2>6
  <1>7. CASE \E d \in Straight \cup Diagonal :
               LET k == StepsToPiece(b, s, d)
                   hit == b.squares[Along(s, d, k)]
               IN  /\ k > 0 /\ hit.color = c
                   /\ \/ hit.type = "Q"
                      \/ d \in Diagonal /\ hit.type = "B"
                      \/ d \in Straight /\ hit.type = "R"
                      \/ k = 1 /\ hit.type = "K"
    <2>1. PICK d \in Straight \cup Diagonal :
               LET k == StepsToPiece(b, s, d)
                   hit == b.squares[Along(s, d, k)]
               IN  /\ k > 0 /\ hit.color = c
                   /\ \/ hit.type = "Q"
                      \/ d \in Diagonal /\ hit.type = "B"
                      \/ d \in Straight /\ hit.type = "R"
                      \/ k = 1 /\ hit.type = "K"
      BY <1>7
    <2> DEFINE k == StepsToPiece(b, s, d)
               from == Along(s, d, k)
               m == AddMove(b, from, s)
    <2>2. k \in 1..7 /\ d \in Steps
      BY <2>1, StepsFacts DEF Steps, Rays
    <2>3. /\ from \in Squares /\ Occupied(b, from)
          /\ StepsToPiece(b, from, Back(d)) = k /\ Along(from, Back(d), k) = s
      BY <1>1, <2>2, SeenFromBothEnds
    <2>4. (d \in Straight => Back(d) \in Straight) /\ (d \in Diagonal => Back(d) \in Diagonal)
          /\ Back(d) \in Diagonal \cup Straight
      BY <2>2, DirectionFacts
    <2>5. m.from = from /\ m.to = s /\ Plain(b, m)
      BY <1>4
    <2>6. k \in 1..Reach(b, from, Back(d))
      BY <2>2, <2>3 DEF Reach
    <2>7. b.squares[from].color = c
      BY <2>1
    <2>8. \/ b.squares[from].type = "Q"
          \/ d \in Diagonal /\ b.squares[from].type = "B"
          \/ d \in Straight /\ b.squares[from].type = "R"
          \/ k = 1 /\ b.squares[from].type = "K"
      BY <2>1
    <2> HIDE DEF m, from, k
    <2>9. CASE k = 1 /\ b.squares[from].type = "K"
      <3>1. PieceMove(b, m, c)
        BY <1>2, <2>3, <2>4, <2>5, <2>9 DEF PieceMove
      <3> QED BY <1>3, <2>3, <2>5, <2>7, <3>1
    <2>10. CASE ~(k = 1 /\ b.squares[from].type = "K")
      <3>1. PieceMove(b, m, c)
        BY <1>2, <2>3, <2>4, <2>5, <2>6, <2>8, <2>10 DEF PieceMove
      <3> QED BY <1>3, <2>3, <2>5, <2>7, <3>1
    <2> QED BY <2>9, <2>10
  <1> QED BY <1>5, <1>6, <1>7 DEF IsSquareAttacked

\* ... and whatever may take it attacks its square.
LEMMA MoveIsAttack ==
    ASSUME NEW b, Placed(b), NEW c \in Colors, b.side = c, NEW m \in PseudoLegalMoves(b),
           Enemy(b, m.to, c)
    PROVE  IsSquareAttacked(b, m.to, c)
  <1> DEFINE from == m.from
             s == m.to
             type == b.squares[from].type
  <1>1. Occupied(b, from) /\ b.squares[from].color = c /\ PieceMove(b, m, c)
    BY PseudoMovesAre
  <1>2. from \in Squares /\ s \in Squares /\ Occupied(b, s) /\ s # NoSquare /\ type \in PieceTypes
        /\ b.squares[from] = Piece(c, type)
    BY <1>1, PlacedFacts DEF Enemy
  <1>3. \A directions : \A d \in directions : \A k \in 1..Reach(b, from, d) :
           directions \subseteq Rays /\ s = Along(from, d, k) =>
              /\ Back(d) \in Rays /\ (d \in Straight => Back(d) \in Straight)
              /\ (d \in Diagonal => Back(d) \in Diagonal)
              /\ StepsToPiece(b, s, Back(d)) = k /\ k > 0 /\ Along(s, Back(d), k) = from
    <2> TAKE directions
    <2> TAKE d \in directions
    <2> TAKE k \in 1..Reach(b, from, d)
    <2> HAVE directions \subseteq Rays /\ s = Along(from, d, k)
    <2>1. k \in 1..7 /\ StepsToPiece(b, from, d) = k
      BY <1>2, ReachEnds
    <2>2. d \in Steps
      BY DEF Steps
    <2>3. StepsToPiece(b, s, Back(d)) = k /\ Along(s, Back(d), k) = from
      BY <1>1, <2>1, <2>2, SeenFromBothEnds
    <2>4. Back(d) \in Rays /\ (d \in Straight => Back(d) \in Straight) /\ (d \in Diagonal => Back(d) \in Diagonal)
      BY <2>2, DirectionFacts DEF Rays
    <2> QED BY <2>1, <2>3, <2>4
  <1>4. CASE type = "P"
    <2>1. PawnMove(b, m, c)
      BY <1>1, <1>4 DEF PieceMove
    <2>2. PICK df \in {-1, 1} : s = Aside(from, c, df)
      BY <1>2, <2>1 DEF PawnMove
    <2>3. <<df, Forward(c)>> \in Steps /\ Back(<<df, Forward(c)>>) = <<-df, PawnSource(c)>> /\ -df \in {-1, 1}
      BY PawnDirections
    <2>4. Along(s, <<-df, PawnSource(c)>>, 1) = from
      BY <1>2, <2>2, <2>3, StepBack DEF Aside
    <2>5. Holds(b, Along(s, <<-df, PawnSource(c)>>, 1), c, "P")
      BY <1>1, <1>2, <1>4, <2>4 DEF Holds
    <2> QED BY <2>3, <2>5 DEF IsSquareAttacked
  <1>5. CASE type = "N"
    <2>1. PICK d \in KnightOffsets : s = Along(from, d, 1)
      BY <1>1, <1>5 DEF PieceMove
    <2>2. Along(s, Back(d), 1) = from /\ Back(d) \in KnightOffsets
      BY <1>2, <2>1, StepBack, DirectionFacts DEF Steps
    <2>3. Holds(b, Along(s, Back(d), 1), c, "N")
      BY <1>1, <1>2, <1>5, <2>2 DEF Holds
    <2> QED BY <2>2, <2>3 DEF IsSquareAttacked
  <1>6. CASE type = "B"
    <2>10. PICK d \in Diagonal : \E k \in 1..Reach(b, from, d) : s = Along(from, d, k)
      BY <1>1, <1>6 DEF PieceMove
    <2>1. PICK k \in 1..Reach(b, from, d) : s = Along(from, d, k)
      BY <2>10
    <2>2. Back(d) \in Rays /\ Back(d) \in Diagonal
              /\ StepsToPiece(b, s, Back(d)) = k /\ k > 0 /\ Along(s, Back(d), k) = from
      BY <1>3, <2>1 DEF Rays
    <2> QED BY <1>1, <1>6, <2>2 DEF IsSquareAttacked, Rays
  <1>7. CASE type = "R"
    <2>10. PICK d \in Straight : \E k \in 1..Reach(b, from, d) : s = Along(from, d, k)
      BY <1>1, <1>7 DEF PieceMove
    <2>1. PICK k \in 1..Reach(b, from, d) : s = Along(from, d, k)
      BY <2>10
    <2>2. Back(d) \in Rays /\ Back(d) \in Straight
              /\ StepsToPiece(b, s, Back(d)) = k /\ k > 0 /\ Along(s, Back(d), k) = from
      BY <1>3, <2>1 DEF Rays
    <2> QED BY <1>1, <1>7, <2>2 DEF IsSquareAttacked, Rays
  <1>8. CASE type = "Q"
    <2>10. PICK d \in Diagonal \cup Straight : \E k \in 1..Reach(b, from, d) : s = Along(from, d, k)
      BY <1>1, <1>8 DEF PieceMove
    <2>1. PICK k \in 1..Reach(b, from, d) : s = Along(from, d, k)
      BY <2>10
    <2>2. Back(d) \in Rays
              /\ StepsToPiece(b, s, Back(d)) = k /\ k > 0 /\ Along(s, Back(d), k) = from
      BY <1>3, <2>1 DEF Rays
    <2> QED BY <1>1, <1>8, <2>2 DEF IsSquareAttacked, Rays
  <1>9. CASE type = "K"
    <2>1. (\E k \in Castlings : CastlingMove(b, m, c, k)) => FALSE
      BY <1>2, CastlingFacts DEF CastlingMove, Move
    <2>2. PICK d \in Diagonal \cup Straight : s = Along(from, d, 1)
      BY <1>1, <1>9, <2>1 DEF PieceMove
    <2>3. StepsToPiece(b, from, d) = 1
      BY <1>2, <2>2, StepsAre
    <2>4. 1 \in 1..Reach(b, from, d)
      BY <2>3 DEF Reach
    <2>5. Back(d) \in Rays
              /\ StepsToPiece(b, s, Back(d)) = 1 /\ Along(s, Back(d), 1) = from
      BY <1>3, <2>2, <2>4 DEF Rays
    <2> QED BY <1>1, <1>9, <2>5 DEF IsSquareAttacked, Rays
  <1> HIDE DEF type
  <1> QED BY <1>2, <1>4, <1>5, <1>6, <1>7, <1>8, <1>9 DEF PieceTypes

\* Moves are records of their four fields and lead to another square; a piece there,
\* if it is not on the en passant square, is an enemy's.
LEMMA MovesOnBoard ==
    ASSUME NEW b, Placed(b), NEW m \in PseudoLegalMoves(b)
    PROVE  /\ m = Move(m.from, m.to, m.promotion, m.flags)
           /\ m.from \in Squares /\ m.to \in Squares /\ m.from # m.to
           /\ Occupied(b, m.from) /\ b.squares[m.from].color = b.side /\ b.side \in Colors
           /\ Occupied(b, m.to) /\ ~Occupied(b, b.enPassant) => Enemy(b, m.to, b.side)
  <1> DEFINE c == b.side
             from == m.from
             Goal == /\ m = Move(m.from, m.to, m.promotion, m.flags)
                     /\ m.to \in Squares /\ from # m.to
                     /\ Occupied(b, m.to) /\ ~Occupied(b, b.enPassant) => Enemy(b, m.to, c)
  <1>1. Occupied(b, from) /\ b.squares[from].color = c /\ PieceMove(b, m, c)
    BY PseudoMovesAre
  <1>2. from \in Squares /\ c \in Colors
    BY <1>1, PlacedFacts
  <1>0. SUFFICES Goal
    BY <1>1, <1>2
  <1>3. ASSUME Plain(b, m), Enterable(b, m.to, c),
               \E d \in Steps : \E k \in 1..7 : m.to = Along(from, d, k)
        PROVE  Goal
    <2>1. PICK d \in Steps : \E k \in 1..7 : m.to = Along(from, d, k)
      BY <1>3
    <2>2. PICK k \in 1..7 : m.to = Along(from, d, k)
      BY <2>1
    <2>3. m.to # NoSquare
      BY <1>3 DEF Enterable
    <2>4. m.to \in Squares /\ m.to # from
      BY <1>2, <2>2, <2>3, AlongFacts
    <2> QED BY <1>3, <2>4, PlainFacts DEF Enterable
  <1>4. ASSUME NEW directions, directions \subseteq Rays,
               \E d \in directions : \E k \in 1..Reach(b, from, d) : m.to = Along(from, d, k)
        PROVE  \E d \in Steps : \E k \in 1..7 : m.to = Along(from, d, k)
    <2>1. \A d : Reach(b, from, d) \in 1..7
      BY StepsFacts DEF Reach
    <2>2. \A d : \A k \in 1..Reach(b, from, d) : k \in 1..7
      BY <2>1
    <2> QED BY <1>4, <2>2 DEF Steps
  <1>5. CASE PawnMove(b, m, c)
    <2>1. m = Move(m.from, m.to, m.promotion, m.flags) /\ m.to \in Squares /\ m.to # NoSquare
      BY <1>5, NoSquareIsNone DEF PawnMove
    <2>2. \E d \in Steps : \E k \in 1..7 : m.to = Along(from, d, k)
      BY <1>2, <1>5, PawnDirections DEF PawnMove, Ahead, Aside
    <2>3. m.from # m.to
      BY <1>2, <2>1, <2>2, AlongFacts
    <2>4. Occupied(b, m.to) /\ ~Occupied(b, b.enPassant) => Enemy(b, m.to, c)
      BY <1>5 DEF PawnMove
    <2> QED BY <1>2, <2>1, <2>3, <2>4
  <1>6. CASE \E k \in Castlings : CastlingMove(b, m, c, k)
    <2>1. PICK k \in Castlings : CastlingMove(b, m, c, k)
      BY <1>6
    <2>2. m = Move(k.king, k.to, NoType, {k.flag}) /\ ~Occupied(b, k.to)
      BY <2>1, CastlingFacts DEF CastlingMove
    <2>3. m.from = k.king /\ m.to = k.to /\ m = Move(m.from, m.to, m.promotion, m.flags)
      BY <2>2 DEF Move
    <2> QED BY <2>2, <2>3, CastlingFacts
  <1>7. CASE Plain(b, m) /\ Enterable(b, m.to, c) /\ \E d \in KnightOffsets \cup Rays : m.to = Along(from, d, 1)
    BY <1>3, <1>7 DEF Steps
  <1>8. CASE /\ Plain(b, m) /\ Enterable(b, m.to, c)
             /\ \E d \in Rays : \E k \in 1..Reach(b, from, d) : m.to = Along(from, d, k)
    BY <1>3, <1>4, <1>8
  <1>9. Straight \subseteq Rays /\ Diagonal \subseteq Rays /\ Diagonal \cup Straight = Rays
    BY DEF Rays
  <1> HIDE DEF Goal
  <1> QED BY <1>1, <1>5, <1>6, <1>7, <1>8, <1>9 DEF PieceMove

\* The king is where king_square looks for it.
LEMMA KingSquareIs ==
    ASSUME NEW b, Placed(b), NEW c
    PROVE  IF \E s \in DOMAIN b.squares : b.squares[s] = Piece(c, "K")
           THEN Occupied(b, KingSquare(b, c)) /\ b.squares[KingSquare(b, c)] = Piece(c, "K")
           ELSE KingSquare(b, c) = NoSquare
  <1> DEFINE kings == {s \in DOMAIN b.squares : b.squares[s] = Piece(c, "K")}
  <1>1. KingSquare(b, c) = IF kings = {} THEN NoSquare ELSE Min(kings)
    BY DEF KingSquare
  <1>2. kings \subseteq Nat
    BY DEF Placed, Squares
  <1>3. kings # {} => Min(kings) \in kings
    BY <1>2, MinOfNats
  <1> QED BY <1>1, <1>3 DEF Occupied

-----------------------------------------------------------------------------
(* The two notions of check.                                                *)

\* A board is a record of its eight fields: pieces on squares, a side to move, ...
BoardFields == {"squares", "side", "rights", "enPassant", "halfmove", "fullmove", "hash", "history"}
IsMap(q) == q = [x \in DOMAIN q |-> q[x]]
IsRecord(b) == DOMAIN b = BoardFields /\ IsMap(b)
IsBoard(b) ==
    /\ IsRecord(b)
    /\ Placed(b) /\ b.side \in Colors
    /\ \E S : b.history \in Seq(S) /\ b.history # <<>>

\* Attacks are a matter of the pieces alone.
LEMMA SameSquares ==
    ASSUME NEW a, NEW b, a.squares = b.squares
    PROVE  /\ \A s : Occupied(a, s) = Occupied(b, s)
           /\ \A s, c, t : Holds(a, s, c, t) = Holds(b, s, c, t)
           /\ \A c : KingSquare(a, c) = KingSquare(b, c)
           /\ \A s, c : IsSquareAttacked(a, s, c) = IsSquareAttacked(b, s, c)
           /\ \A c : InCheck(a, c) = InCheck(b, c)
  <1>1. \A s : Occupied(a, s) = Occupied(b, s)
    BY DEF Occupied
  <1>2. \A s, c, t : Holds(a, s, c, t) = Holds(b, s, c, t)
    BY DEF Holds, Occupied
  <1>3. \A c : KingSquare(a, c) = KingSquare(b, c)
    BY DEF KingSquare
  <1>4. \A s, d : StepsToPiece(a, s, d) = StepsToPiece(b, s, d)
    <2> TAKE s, d
    <2>1. {k \in 1..7 : Occupied(a, Along(s, d, k))} = {k \in 1..7 : Occupied(b, Along(s, d, k))}
      BY <1>1
    <2> QED BY <2>1 DEF StepsToPiece
  <1>5. \A s, c : IsSquareAttacked(a, s, c) = IsSquareAttacked(b, s, c)
    BY <1>2, <1>4 DEF IsSquareAttacked
  <1>6. \A c : InCheck(a, c) = InCheck(b, c)
    BY <1>3, <1>5 DEF InCheck
  <1> QED BY <1>1, <1>2, <1>3, <1>5, <1>6

LEMMA ColorFacts ==
    ASSUME NEW c \in Colors
    PROVE  /\ Opposite(c) \in Colors /\ Opposite(c) # c /\ Opposite(Opposite(c)) = c
           /\ \A e \in Colors : e # c <=> e = Opposite(c)
  BY DEF Colors, Opposite

\* The two notions of check agree on every board, also on those no game leads to.
LEMMA ChecksAgreeOnBoards ==
    ASSUME NEW b, IsBoard(b), NEW c \in Colors
    PROVE  InCheck(b, c) <=>
             \E m \in PseudoLegalMoves([b EXCEPT !.side = Opposite(c), !.enPassant = NoSquare]) :
               m.to = KingSquare(b, c)
  <1> DEFINE e == [b EXCEPT !.side = Opposite(c), !.enPassant = NoSquare]
             s == KingSquare(b, c)
  <1>1. e.squares = b.squares /\ e.side = Opposite(c)
    BY DEF IsBoard, IsRecord, BoardFields
  <1> HIDE DEF e
  <1>2. Placed(b) /\ Placed(e) /\ Opposite(c) \in Colors /\ Opposite(c) # c
    BY <1>1, ColorFacts DEF IsBoard, Placed
  <1>3. CASE s = NoSquare
    <2>1. \A m \in PseudoLegalMoves(e) : m.to \in Squares
      BY <1>2, MovesOnBoard
    <2> QED BY <1>3, <2>1, NoSquareIsNone DEF InCheck, e
  <1>4. CASE s # NoSquare
    <2>1. Occupied(b, s) /\ b.squares[s] = Piece(c, "K")
      BY <1>2, <1>4, KingSquareIs
    <2>2. Enemy(e, s, Opposite(c))
      BY <1>1, <1>2, <2>1 DEF Enemy, Occupied, Piece
    <2>3. IsSquareAttacked(e, s, Opposite(c)) <=> \E m \in PseudoLegalMoves(e) : m.to = s
      BY <1>1, <1>2, <2>2, AttackIsMove, MoveIsAttack
    <2>4. IsSquareAttacked(e, s, Opposite(c)) = IsSquareAttacked(b, s, Opposite(c))
      BY <1>1, SameSquares
    <2> QED BY <1>4, <2>3, <2>4 DEF InCheck, e
  <1> QED BY <1>3, <1>4

-----------------------------------------------------------------------------
(* Making and taking back.                                                  *)

LEMMA SameMaps ==
    ASSUME NEW p, IsMap(p), NEW q, IsMap(q), DOMAIN p = DOMAIN q, \A x \in DOMAIN q : p[x] = q[x]
    PROVE  p = q
  <1>1. [x \in DOMAIN p |-> p[x]] = [x \in DOMAIN q |-> q[x]]
    OBVIOUS
  <1> QED BY <1>1 DEF IsMap
LEMMA LiftFacts ==
    ASSUME NEW q, NEW s
    PROVE  /\ IsMap(Lift(q, s))
           /\ DOMAIN Lift(q, s) = DOMAIN q \ {s}
           /\ \A x \in DOMAIN q \ {s} : Lift(q, s)[x] = q[x]
  BY DEF Lift, Restrict, IsMap
LEMMA PutFacts ==
    ASSUME NEW q, NEW s, NEW piece
    PROVE  /\ DOMAIN Put(q, s, piece) = DOMAIN q \cup {s}
           /\ Put(q, s, piece)[s] = piece
           /\ \A x \in DOMAIN q : x # s => Put(q, s, piece)[x] = q[x]
           /\ IsMap(Put(q, s, piece))
  BY DEF Put, IsMap
LEMMA ShiftFacts ==
    ASSUME NEW q, NEW from, NEW to, from # to
    PROVE  /\ DOMAIN Shift(q, from, to) = (DOMAIN q \ {from}) \cup {to}
           /\ Shift(q, from, to)[to] = q[from]
           /\ \A x \in DOMAIN q : x # from /\ x # to => Shift(q, from, to)[x] = q[x]
           /\ IsMap(Shift(q, from, to))
  <1> DEFINE l == Lift(q, from)
  <1>1. /\ DOMAIN l = DOMAIN q \ {from} /\ \A x \in DOMAIN q \ {from} : l[x] = q[x]
    BY LiftFacts
  <1>2. Shift(q, from, to) = Put(l, to, q[from])
    BY DEF Shift
  <1> HIDE DEF l
  <1> QED BY <1>1, <1>2 DEF Put, IsMap

LEMMA CastledFacts ==
    ASSUME NEW q, NEW k
    PROVE  /\ Castled(q, {}) = q /\ Uncastled(q, {}) = q
           /\ Castled(q, {k}) = Shift(q, k.rook, k.rookTo)
           /\ Uncastled(q, {k}) = Shift(q, k.rookTo, k.rook)
  <1>1. (CHOOSE x \in {k} : TRUE) = k
    OBVIOUS
  <1> QED BY <1>1 DEF Castled, Uncastled

\* The squares after a move that is no castling, ...
LEMMA MovedBack ==
    ASSUME NEW q, IsMap(q), NEW f \in DOMAIN q, NEW t, f # t,
           NEW x, x # f, x # t => t \notin DOMAIN q, NEW piece
    PROVE  LET back == Lift(Put(Put(Lift(Lift(q, x), f), t, piece), f, q[f]), t)
           IN  q = IF x \in DOMAIN q THEN Put(back, x, q[x]) ELSE back
  <1> DEFINE q1 == Lift(q, x)
  <1>1. DOMAIN q1 = DOMAIN q \ {x} /\ \A y \in DOMAIN q1 : q1[y] = q[y]
    BY LiftFacts
  <1> HIDE DEF q1
  <1> DEFINE q2 == Lift(q1, f)
  <1>2. DOMAIN q2 = DOMAIN q1 \ {f} /\ \A y \in DOMAIN q2 : q2[y] = q1[y]
    BY LiftFacts
  <1> HIDE DEF q2
  <1> DEFINE q3 == Put(q2, t, piece)
  <1>3. DOMAIN q3 = DOMAIN q2 \cup {t} /\ \A y \in DOMAIN q2 : y # t => q3[y] = q2[y]
    BY DEF Put
  <1> HIDE DEF q3
  <1> DEFINE q4 == Put(q3, f, q[f])
  <1>4. DOMAIN q4 = DOMAIN q3 \cup {f} /\ q4[f] = q[f] /\ \A y \in DOMAIN q3 : y # f => q4[y] = q3[y]
    BY DEF Put
  <1> HIDE DEF q4
  <1> DEFINE q5 == Lift(q4, t)
  <1>5. DOMAIN q5 = DOMAIN q4 \ {t} /\ (\A y \in DOMAIN q5 : q5[y] = q4[y]) /\ IsMap(q5)
    BY LiftFacts
  <1> HIDE DEF q5
  <1> DEFINE q6 == IF x \in DOMAIN q THEN Put(q5, x, q[x]) ELSE q5
  <1>6. q6 = IF x \in DOMAIN q THEN Put(q5, x, q[x]) ELSE q5
    OBVIOUS
  <1> HIDE DEF q6
  <1>7. DOMAIN q5 = DOMAIN q \ {x, t} /\ \A y \in DOMAIN q5 : q5[y] = q[y]
    <2>1. DOMAIN q5 = DOMAIN q \ {x, t}
      BY <1>1, <1>2, <1>3, <1>4, <1>5
    <2>2. ASSUME NEW y \in DOMAIN q5 PROVE q5[y] = q[y]
      <3>1. y \in DOMAIN q /\ y # x /\ y # t
        BY <2>1
      <3>2. CASE y = f
        BY <1>4, <1>5, <3>2
      <3>3. CASE y # f
        BY <1>1, <1>2, <1>3, <1>4, <1>5, <3>1, <3>3
      <3> QED BY <3>2, <3>3
    <2> QED BY <2>1, <2>2
  <1>8. CASE x \in DOMAIN q
    <2>1. /\ DOMAIN q6 = DOMAIN q5 \cup {x} /\ q6[x] = q[x] /\ (\A y \in DOMAIN q5 : y # x => q6[y] = q5[y])
          /\ IsMap(q6)
      BY <1>6, <1>8 DEF Put, IsMap
    <2>2. DOMAIN q5 \cup {x} = DOMAIN q
      BY <1>7, <1>8
    <2>3. \A y \in DOMAIN q : q6[y] = q[y]
      BY <1>7, <2>1, <2>2
    <2>4. q6 = q
      BY <2>1, <2>2, <2>3, SameMaps
    <2> QED BY <2>4 DEF q6, q5, q4, q3, q2, q1
  <1>9. CASE x \notin DOMAIN q
    <2>1. q6 = q5 /\ DOMAIN q5 = DOMAIN q
      BY <1>6, <1>7, <1>9
    <2>2. q6 = q
      BY <1>5, <1>7, <2>1, SameMaps
    <2> QED BY <2>2 DEF q6, q5, q4, q3, q2, q1
  <1> QED BY <1>8, <1>9

\* ... and after one.
LEMMA CastledBack ==
    ASSUME NEW q, IsMap(q), NEW f \in DOMAIN q, NEW t, t \notin DOMAIN q,
           NEW r \in DOMAIN q, NEW s, s \notin DOMAIN q, r # f, s # t
    PROVE  Shift(Lift(Put(Shift(Put(Lift(Lift(q, t), f), t, q[f]), r, s), f, q[f]), t), s, r) = q
  <1>0. r # s
    OBVIOUS
  <1> DEFINE q1 == Lift(q, t)
  <1>1. DOMAIN q1 = DOMAIN q \ {t} /\ \A y \in DOMAIN q1 : q1[y] = q[y]
    BY LiftFacts
  <1> HIDE DEF q1
  <1> DEFINE q2 == Lift(q1, f)
  <1>2. DOMAIN q2 = DOMAIN q1 \ {f} /\ \A y \in DOMAIN q2 : q2[y] = q1[y]
    BY LiftFacts
  <1> HIDE DEF q2
  <1> DEFINE q3 == Put(q2, t, q[f])
  <1>3. DOMAIN q3 = DOMAIN q2 \cup {t} /\ \A y \in DOMAIN q2 : y # t => q3[y] = q2[y]
    BY DEF Put
  <1> HIDE DEF q3
  <1> DEFINE q4 == Shift(q3, r, s)
  <1>4. /\ DOMAIN q4 = (DOMAIN q3 \ {r}) \cup {s} /\ q4[s] = q3[r]
        /\ \A y \in DOMAIN q3 : y # r /\ y # s => q4[y] = q3[y]
    BY <1>0 DEF Shift, Put, Lift, Restrict, IsMap
  <1> HIDE DEF q4
  <1> DEFINE q5 == Put(q4, f, q[f])
  <1>5. DOMAIN q5 = DOMAIN q4 \cup {f} /\ q5[f] = q[f] /\ \A y \in DOMAIN q4 : y # f => q5[y] = q4[y]
    BY DEF Put
  <1> HIDE DEF q5
  <1> DEFINE q6 == Lift(q5, t)
  <1>6. DOMAIN q6 = DOMAIN q5 \ {t} /\ \A y \in DOMAIN q6 : q6[y] = q5[y]
    BY LiftFacts
  <1> HIDE DEF q6
  <1> DEFINE q7 == Shift(q6, s, r)
  <1>7. /\ DOMAIN q7 = (DOMAIN q6 \ {s}) \cup {r} /\ q7[r] = q6[s]
        /\ \A y \in DOMAIN q6 : y # s /\ y # r => q7[y] = q6[y]
        /\ IsMap(q7)
    BY <1>0 DEF Shift, Put, Lift, Restrict, IsMap
  <1> HIDE DEF q7
  <1>8. DOMAIN q7 = DOMAIN q
    BY <1>1, <1>2, <1>3, <1>4, <1>5, <1>6, <1>7
  <1>9. \A y \in DOMAIN q : q7[y] = q[y]
    <2> TAKE y \in DOMAIN q
    <2>1. CASE y = r
      <3>1. r \in DOMAIN q3 /\ r \in DOMAIN q2 /\ r # t
        BY <1>1, <1>2, <1>3
      <3>2. q3[r] = q[r]
        BY <1>1, <1>2, <1>3, <3>1
      <3>3. q6[s] = q4[s]
        BY <1>4, <1>5, <1>6
      <3> QED BY <1>4, <1>7, <2>1, <3>2, <3>3
    <2>2. CASE y = f
      BY <1>5, <1>6, <1>7, <2>2
    <2>3. CASE y # r /\ y # f
      <3>1. y # t /\ y # s
        OBVIOUS
      <3>2. q4[y] = q[y] /\ y \in DOMAIN q4
        BY <1>1, <1>2, <1>3, <1>4, <2>3, <3>1
      <3> QED BY <1>5, <1>6, <1>7, <2>3, <3>1, <3>2
    <2> QED BY <2>1, <2>2, <2>3
  <1>10. q7 = q
    BY <1>7, <1>8, <1>9, SameMaps
  <1> QED BY <1>10 DEF q7, q6, q5, q4, q3, q2, q1

-----------------------------------------------------------------------------
(* Taking back a move.                                                      *)

IsCastling(b, m, c, k) ==
    /\ CastlingMove(b, m, c, k) /\ b.squares[m.from].type = "K" /\ CastlingOf(m, c) = {k}
    /\ m.flags \cap {"promotion", "double", "enPassant", "capture"} = {}
    /\ m.from = k.king /\ m.to = k.to
IsOrdinary(b, m, c) ==
    /\ \A k \in Castlings : k.flag \notin m.flags
    /\ CastlingOf(m, c) = {}
    /\ "promotion" \in m.flags => b.squares[m.from].type = "P" /\ m.promotion \in PromotionTypes
    /\ "promotion" \notin m.flags => m.promotion = NoType
    /\ "enPassant" \in m.flags => /\ b.squares[m.from].type = "P" /\ m.to = b.enPassant
                                  /\ \E df \in {-1, 1} : m.to = Aside(m.from, c, df)
    /\ "double" \in m.flags => /\ b.squares[m.from].type = "P" /\ RankOf(m.from) = FirstRank(c)
                               /\ m.to = Ahead(m.from, c, 2)
                               /\ ~Occupied(b, m.to) /\ ~Occupied(b, Ahead(m.from, c, 1))

\* Every move is a castling or is not, and its flags tell what it does.
LEMMA MoveKinds ==
    ASSUME NEW b, Placed(b), NEW m \in PseudoLegalMoves(b)
    PROVE  \/ \E k \in Castlings : IsCastling(b, m, b.side, k)
           \/ IsOrdinary(b, m, b.side)
  <1> DEFINE c == b.side
             type == b.squares[m.from].type
  <1>1. Occupied(b, m.from) /\ b.squares[m.from].color = c /\ PieceMove(b, m, c) /\ c \in Colors
        /\ m.to \in Squares
    BY PseudoMovesAre, PlacedFacts, MovesOnBoard
  <1>2. \A k \in Castlings : k.flag \in {"kingCastle", "queenCastle"}
    BY CastlingFacts
  <1>3. CASE type = "K" /\ \E k \in Castlings : CastlingMove(b, m, c, k)
    <2>1. PICK k \in Castlings : CastlingMove(b, m, c, k)
      BY <1>3
    <2>2. m.from = k.king /\ m.to = k.to /\ m.flags = {k.flag} /\ k.color = c
      BY <2>1 DEF CastlingMove, Move
    <2>3. k.flag \in {"kingCastle", "queenCastle"}
      BY <1>2
    <2>4. m.flags \cap {"promotion", "double", "enPassant", "capture"} = {}
      BY <2>2, <2>3
    <2>5. CastlingOf(m, c) = {k}
      BY <2>2, CastlingFacts DEF CastlingOf
    <2> QED BY <1>3, <2>1, <2>2, <2>4, <2>5 DEF IsCastling
  <1>4. CASE Plain(b, m)
    <2>1. m.promotion = NoType /\ m.flags \subseteq {"capture"}
      BY <1>4, PlainFacts
    <2>2. CastlingOf(m, c) = {} /\ \A k \in Castlings : k.flag \notin m.flags
      BY <1>2, <2>1 DEF CastlingOf
    <2> QED BY <2>1, <2>2 DEF IsOrdinary
  <1>5. CASE type = "P" /\ PawnMove(b, m, c)
    <2>1. m.flags \subseteq {"capture", "enPassant", "promotion", "double"}
      BY <1>5 DEF PawnMove, Marks
    <2>2. CastlingOf(m, c) = {} /\ \A k \in Castlings : k.flag \notin m.flags
      BY <1>2, <2>1 DEF CastlingOf
    <2>3. ("promotion" \in m.flags => m.promotion \in PromotionTypes)
          /\ ("promotion" \notin m.flags => m.promotion = NoType)
      BY <1>5 DEF PawnMove, Marks
    <2>4. "enPassant" \in m.flags => m.to = b.enPassant /\ \E df \in {-1, 1} : m.to = Aside(m.from, c, df)
      BY <1>5 DEF PawnMove, Marks
    <2>5. "double" \in m.flags => /\ RankOf(m.from) = FirstRank(c)
                               /\ m.to = Ahead(m.from, c, 2)
                               /\ ~Occupied(b, m.to) /\ ~Occupied(b, Ahead(m.from, c, 1))
      BY <1>5 DEF PawnMove, Marks
    <2> QED BY <1>5, <2>2, <2>3, <2>4, <2>5 DEF IsOrdinary
  <1> QED BY <1>1, <1>3, <1>4, <1>5 DEF PieceMove

\* What is taken never stands where the move starts.
LEMMA CapturedElsewhere ==
    ASSUME NEW b, Placed(b), NEW m \in PseudoLegalMoves(b)
    PROVE  /\ CapturedSquare(b, m) # m.from
           /\ "enPassant" \notin m.flags => CapturedSquare(b, m) = m.to
  <1>1. m.from \in Squares /\ m.to \in Squares /\ m.from # m.to /\ b.side \in Colors
    BY MovesOnBoard
  <1>2. CASE "enPassant" \in m.flags
    <2>1. PICK df \in {-1, 1} : m.to = Aside(m.from, b.side, df)
      BY <1>2, MoveKinds DEF IsCastling, IsOrdinary
    <2>2. m.to # NoSquare
      BY <1>1, NoSquareIsNone
    <2>3. m.to = SquareAt(FileOf(m.from) + 1 * df, RankOf(m.from) + 1 * Forward(b.side))
      BY <2>1, <2>2 DEF Aside, Along
    <2>4. m.from = RankOf(m.from) * 8 + FileOf(m.from) /\ FileOf(m.from) \in Int /\ RankOf(m.from) \in Int
      BY <1>1, SquareFacts
    <2>5. m.to = m.from + 8 * Forward(b.side) + df
      BY <2>3, <2>4, <1>1 DEF SquareAt, Forward, Colors
    <2>6. m.from \in Int
      BY <1>1 DEF Squares
    <2> QED BY <1>1, <1>2, <2>5, <2>6 DEF CapturedSquare, Forward, Colors
  <1>3. CASE "enPassant" \notin m.flags
    BY <1>1, <1>3 DEF CapturedSquare
  <1> QED BY <1>2, <1>3

\* What MakeMove and UnmakeMove do to each field.
LEMMA MakeMoveFields ==
    ASSUME NEW b, IsBoard(b), NEW m
    PROVE  /\ IsRecord(MakeMove(b, m))
           /\ MakeMove(b, m).squares = SquaresAfter(b, m) /\ MakeMove(b, m).side = Opposite(b.side)
           /\ MakeMove(b, m).rights = b.rights \ LostRights(b, m)
           /\ MakeMove(b, m).enPassant = IF "double" \in m.flags THEN (m.from + m.to) \div 2 ELSE NoSquare
           /\ MakeMove(b, m).history = Append(b.history, MakeMove(b, m).hash)
  <1> DEFINE quiet == b.squares[m.from].type # "P" /\ ~Occupied(b, CapturedSquare(b, m))
             ep == IF "double" \in m.flags THEN (m.from + m.to) \div 2 ELSE NoSquare
             next == [b EXCEPT
               !.squares = SquaresAfter(b, m),
               !.rights = @ \ LostRights(b, m),
               !.enPassant = ep,
               !.halfmove = IF quiet THEN Uint16(@ + 1) ELSE 0,
               !.fullmove = IF b.side = "black" THEN Uint16(@ + 1) ELSE @,
               !.side = Opposite(@)]
  <1>1. MakeMove(b, m) = [next EXCEPT !.hash = ComputeHash(next), !.history = Append(@, ComputeHash(next))]
    BY DEF MakeMove
  <1>2. DOMAIN b = BoardFields
    BY DEF IsBoard, IsRecord
  <1> HIDE DEF quiet, ep
  <1>3. /\ DOMAIN next = BoardFields /\ next.squares = SquaresAfter(b, m) /\ next.side = Opposite(b.side)
        /\ next.rights = b.rights \ LostRights(b, m) /\ next.enPassant = ep /\ next.history = b.history
    BY <1>2 DEF BoardFields
  <1> HIDE DEF next
  <1> DEFINE n == [next EXCEPT !.hash = ComputeHash(next), !.history = Append(@, ComputeHash(next))]
  <1>4. /\ DOMAIN n = BoardFields /\ n.squares = SquaresAfter(b, m) /\ n.side = Opposite(b.side)
        /\ n.rights = b.rights \ LostRights(b, m) /\ n.enPassant = ep
        /\ n.history = Append(b.history, n.hash)
    BY <1>3 DEF BoardFields
  <1>5. IsMap(n)
    BY <1>3 DEF IsMap
  <1> HIDE DEF n
  <1>6. MakeMove(b, m) = n
    BY <1>1 DEF n
  <1> QED BY <1>4, <1>5, <1>6 DEF ep, IsRecord

LEMMA UnmakeMoveFields ==
    ASSUME NEW b, IsRecord(b), NEW m, NEW u
    PROVE  /\ IsRecord(UnmakeMove(b, m, u))
           /\ UnmakeMove(b, m, u).squares = SquaresBefore(b, m, u)
           /\ UnmakeMove(b, m, u).side = Opposite(b.side)
           /\ UnmakeMove(b, m, u).rights = u.rights /\ UnmakeMove(b, m, u).enPassant = u.enPassant
           /\ UnmakeMove(b, m, u).halfmove = u.halfmove /\ UnmakeMove(b, m, u).fullmove = u.fullmove
           /\ UnmakeMove(b, m, u).hash = u.hash
           /\ UnmakeMove(b, m, u).history =
                IF Len(b.history) > 1 THEN SubSeq(b.history, 1, Len(b.history) - 1) ELSE b.history
  <1> DEFINE h == IF Len(b.history) > 1 THEN SubSeq(b.history, 1, Len(b.history) - 1) ELSE b.history
             n == [b EXCEPT
               !.history = h,
               !.side = Opposite(@), !.squares = SquaresBefore(b, m, u),
               !.enPassant = u.enPassant, !.rights = u.rights, !.halfmove = u.halfmove,
               !.fullmove = u.fullmove, !.hash = u.hash]
  <1>1. UnmakeMove(b, m, u) = n
    BY DEF UnmakeMove
  <1> HIDE DEF h
  <1>2. /\ DOMAIN n = BoardFields
        /\ n.squares = SquaresBefore(b, m, u) /\ n.side = Opposite(b.side)
        /\ n.rights = u.rights /\ n.enPassant = u.enPassant
        /\ n.halfmove = u.halfmove /\ n.fullmove = u.fullmove /\ n.hash = u.hash
        /\ n.history = h
    BY DEF BoardFields, IsRecord
  <1>3. n = [f \in BoardFields |-> n[f]]
    BY DEF BoardFields, IsRecord
  <1> HIDE DEF n
  <1>4. IsMap(n)
    BY <1>2, <1>3 DEF IsMap
  <1> QED BY <1>1, <1>2, <1>4 DEF h, IsRecord

\* Taking back a move restores the board it was made on.
LEMMA UndoRestoresBoards ==
    ASSUME NEW b, IsBoard(b), PassedOverIsEmpty(b), NEW m \in PseudoLegalMoves(b)
    PROVE  UnmakeMove(MakeMove(b, m), m, UndoOf(b, m)) = b
  <1> DEFINE n == MakeMove(b, m)
             u == UndoOf(b, m)
             r == UnmakeMove(n, m, u)
             c == b.side
             f == m.from
             t == m.to
             x == CapturedSquare(b, m)
             q == b.squares
  <1>1. Placed(b) /\ c \in Colors /\ Opposite(Opposite(c)) = c /\ IsRecord(b)
    BY ColorFacts DEF IsBoard
  <1>2. /\ IsRecord(n) /\ n.squares = SquaresAfter(b, m) /\ n.side = Opposite(c)
        /\ n.history = Append(b.history, n.hash)
    BY MakeMoveFields
  <1>3. /\ u.captured = (IF x \in DOMAIN q THEN <<q[x]>> ELSE <<>>) /\ u.capturedSquare = x
        /\ u.enPassant = b.enPassant /\ u.rights = b.rights /\ u.halfmove = b.halfmove
        /\ u.fullmove = b.fullmove /\ u.hash = b.hash
    BY DEF UndoOf, Occupied
  <1>4. /\ f \in DOMAIN q /\ q[f].color = c /\ f \in Squares /\ t \in Squares /\ f # t
        /\ q[f] = Piece(c, q[f].type) /\ x # f /\ ("enPassant" \notin m.flags => x = t)
    BY <1>1, MovesOnBoard, PlacedFacts, CapturedElsewhere DEF Occupied
  <1>5. IsMap(q)
    BY <1>1 DEF Placed, IsMap
  <1> HIDE DEF n, u, x
  <1> DEFINE placed == IF "promotion" \in m.flags THEN Piece(c, m.promotion) ELSE q[f]
             before == IF "promotion" \in m.flags THEN Piece(n.squares[t].color, "P") ELSE n.squares[t]
             p == Put(Lift(Lift(q, x), f), t, placed)
  <1>6. n.squares = Castled(p, CastlingOf(m, c))
    BY <1>2, <1>4 DEF SquaresAfter, x
  <1>7. SquaresBefore(n, m, u) = Uncastled(Recaptured(Lift(Put(n.squares, f, before), t), m, u), CastlingOf(m, c))
    BY <1>1, <1>2 DEF SquaresBefore
  <1>8. SquaresBefore(n, m, u) = q
    <2>1. CASE \E k \in Castlings : IsCastling(b, m, c, k)
      <3>1. PICK k \in Castlings : IsCastling(b, m, c, k)
        BY <2>1
      <3>2. /\ "enPassant" \notin m.flags /\ "promotion" \notin m.flags /\ CastlingOf(m, c) = {k}
            /\ f = k.king /\ t = k.to /\ k.rook \in DOMAIN q
            /\ t \notin DOMAIN q /\ k.rookTo \notin DOMAIN q
            /\ k.rook # f /\ k.rookTo # t /\ k.rook # t /\ k.rookTo # f
        BY <3>1, CastlingFacts DEF IsCastling, CastlingMove, Holds, Occupied
      <3>3. x = t /\ placed = q[f]
        BY <1>4, <3>2
      <3>4. n.squares = Shift(p, k.rook, k.rookTo)
        BY <1>6, <3>2, CastledFacts
      <3>5. n.squares[t] = q[f]
        <4>1. t \in DOMAIN p /\ p[t] = q[f]
          BY <3>3 DEF Put
        <4>2. n.squares[t] = p[t]
          BY <3>2, <3>4, <4>1 DEF Shift, Put, Lift, Restrict
        <4> QED BY <4>1, <4>2
      <3>6. before = q[f]
        BY <3>2, <3>5
      <3>7. Recaptured(Lift(Put(n.squares, f, before), t), m, u) = Lift(Put(n.squares, f, q[f]), t)
        BY <1>3, <3>2, <3>3, <3>6 DEF Recaptured
      <3>8. SquaresBefore(n, m, u) = Shift(Lift(Put(n.squares, f, q[f]), t), k.rookTo, k.rook)
        BY <1>7, <3>2, <3>7, CastledFacts
      <3>9. p = Put(Lift(Lift(q, t), f), t, q[f])
        BY <3>3
      <3>10. SquaresBefore(n, m, u) =
                Shift(Lift(Put(Shift(Put(Lift(Lift(q, t), f), t, q[f]), k.rook, k.rookTo), f, q[f]), t), k.rookTo, k.rook)
        BY <3>4, <3>8, <3>9
      <3> QED BY <1>4, <1>5, <3>2, <3>10, CastledBack
    <2>2. CASE IsOrdinary(b, m, c)
      <3>1. CastlingOf(m, c) = {}
        BY <2>2 DEF IsOrdinary
      <3>2. n.squares = p
        BY <1>6, <3>1, CastledFacts
      <3>3. p[t] = placed
        BY DEF Put
      <3>4. before = q[f]
        <4>1. CASE "promotion" \in m.flags
          <5>1. q[f] = Piece(c, "P")
            BY <1>4, <2>2, <4>1 DEF IsOrdinary
          <5>2. n.squares[t].color = c
            BY <3>2, <3>3, <4>1 DEF Piece
          <5> QED BY <4>1, <5>1, <5>2
        <4>2. CASE "promotion" \notin m.flags
          BY <3>2, <3>3, <4>2
        <4> QED BY <4>1, <4>2
      <3>5. x # t => t \notin DOMAIN q
        BY <1>4, <2>2 DEF IsOrdinary, PassedOverIsEmpty, Occupied
      <3>6. SquaresBefore(n, m, u) = Recaptured(Lift(Put(p, f, q[f]), t), m, u)
        BY <1>7, <3>1, <3>2, <3>4, CastledFacts
      <3> HIDE DEF placed
      <3>7. q = IF x \in DOMAIN q THEN Put(Lift(Put(p, f, q[f]), t), x, q[x]) ELSE Lift(Put(p, f, q[f]), t)
        BY <1>4, <1>5, <3>5, MovedBack
      <3>8. u.captured = <<>> <=> x \notin DOMAIN q
        BY <1>3
      <3>9. Recaptured(Lift(Put(p, f, q[f]), t), m, u) =
              IF x \in DOMAIN q THEN Put(Lift(Put(p, f, q[f]), t), x, q[x]) ELSE Lift(Put(p, f, q[f]), t)
        <4> DEFINE back == Lift(Put(p, f, q[f]), t)
        <4> HIDE DEF back, p
        <4>1. Recaptured(back, m, u) = IF x \in DOMAIN q THEN Put(back, x, q[x]) ELSE back
          BY <1>3, <3>8 DEF Recaptured
        <4> QED BY <4>1 DEF back
      <3> QED BY <3>6, <3>7, <3>9
    <2> QED BY <1>1, <2>1, <2>2, MoveKinds
  <1> HIDE DEF placed, before, p
  <1>9. n.history = Append(b.history, n.hash) =>
          (IF Len(n.history) > 1 THEN SubSeq(n.history, 1, Len(n.history) - 1) ELSE n.history) = b.history
    <2>1. PICK S : b.history \in Seq(S) /\ b.history # <<>>
      BY DEF IsBoard
    <2> DEFINE T == S \cup {n.hash}
               h == Append(b.history, n.hash)
    <2>2. b.history \in Seq(T) /\ Len(b.history) \in Nat \ {0}
      BY <2>1
    <2>3. h \in Seq(T) /\ Len(h) = Len(b.history) + 1
      BY <2>2
    <2>4. SubSeq(h, 1, Len(b.history)) = b.history
      BY <2>2, <2>3
    <2>5. Len(h) > 1 /\ Len(h) - 1 = Len(b.history)
      BY <2>2, <2>3
    <2> HIDE DEF h
    <2> QED BY <2>4, <2>5 DEF h
  <1>10. /\ IsRecord(r) /\ r.squares = q /\ r.side = c
         /\ r.rights = b.rights /\ r.enPassant = b.enPassant /\ r.halfmove = b.halfmove
         /\ r.fullmove = b.fullmove /\ r.hash = b.hash /\ r.history = b.history
    <2>1. /\ IsRecord(r)
          /\ r.squares = SquaresBefore(n, m, u) /\ r.side = Opposite(n.side)
          /\ r.rights = u.rights /\ r.enPassant = u.enPassant
          /\ r.halfmove = u.halfmove /\ r.fullmove = u.fullmove /\ r.hash = u.hash
          /\ r.history = IF Len(n.history) > 1 THEN SubSeq(n.history, 1, Len(n.history) - 1) ELSE n.history
      <3>1. IsRecord(n)
        BY <1>2
      <3>2. IsRecord(r)
        BY <3>1, UnmakeMoveFields
      <3>3. r.squares = SquaresBefore(n, m, u)
        BY <3>1, UnmakeMoveFields
      <3>4. r.side = Opposite(n.side)
        BY <3>1, UnmakeMoveFields
      <3>5. r.rights = u.rights /\ r.enPassant = u.enPassant
        BY <3>1, UnmakeMoveFields
      <3>6. r.halfmove = u.halfmove /\ r.fullmove = u.fullmove /\ r.hash = u.hash
        BY <3>1, UnmakeMoveFields
      <3>7. r.history = IF Len(n.history) > 1 THEN SubSeq(n.history, 1, Len(n.history) - 1) ELSE n.history
        BY <3>1, UnmakeMoveFields
      <3> HIDE DEF r
      <3> QED BY <3>2, <3>3, <3>4, <3>5, <3>6, <3>7
    <2> HIDE DEF r
    <2> QED BY <1>1, <1>2, <1>3, <1>8, <1>9, <2>1
  <1> HIDE DEF r
  <1>11. \A y \in BoardFields : r[y] = b[y]
    BY <1>10 DEF BoardFields
  <1>12. r = b
    BY <1>1, <1>10, <1>11, SameMaps DEF IsRecord
  <1> QED BY <1>12 DEF r, n, u

-----------------------------------------------------------------------------
(* SAN.                                                                     *)

\* Moves that are no castlings, by the piece that moves.
LEMMA PieceKinds ==
    ASSUME NEW b, Placed(b), NEW m \in PseudoLegalMoves(b), \A k \in Castlings : k.flag \notin m.flags
    PROVE  IF b.squares[m.from].type = "P" THEN PawnMove(b, m, b.side) ELSE Plain(b, m)
  <1>1. PieceMove(b, m, b.side)
    BY PseudoMovesAre
  <1>2. ASSUME NEW k \in Castlings, CastlingMove(b, m, b.side, k) PROVE FALSE
    <2>1. m.flags = {k.flag}
      BY <1>2 DEF CastlingMove, Move
    <2> QED BY <2>1
  <1> QED BY <1>1, <1>2 DEF PieceMove

LEMMA CastlingsOnly ==
    ASSUME NEW b, Placed(b), NEW m \in PseudoLegalMoves(b), \E k \in Castlings : k.flag \in m.flags
    PROVE  \E k \in Castlings : IsCastling(b, m, b.side, k)
  BY MoveKinds DEF IsOrdinary

\* Two castlings with the same flag are one.
LEMMA SameCastling ==
    ASSUME NEW b, NEW c, NEW m, NEW x, NEW k \in Castlings, NEW j \in Castlings,
           IsCastling(b, m, c, k), IsCastling(b, x, c, j), m.flags = x.flags
    PROVE  m = x
  <1>1. m = Move(k.king, k.to, NoType, {k.flag}) /\ x = Move(j.king, j.to, NoType, {j.flag})
        /\ k.color = c /\ j.color = c
    BY DEF IsCastling, CastlingMove
  <1>2. k.flag = j.flag
    BY <1>1 DEF Move
  <1>3. k = j
    BY <1>1, <1>2, CastlingFacts
  <1> QED BY <1>1, <1>3

LEMMA ForwardFacts ==
    ASSUME NEW c \in Colors
    PROVE  /\ Forward(c) \in {-1, 1} /\ Forward(c) \in Int
           /\ <<0, Forward(c)>> \in Steps /\ \A df \in {-1, 1} : <<df, Forward(c)>> \in Steps
  BY DEF Colors, Forward, Steps, Rays, Straight, Diagonal

\* Where a pawn comes from, by where it goes.
LEMMA PawnOrigins ==
    ASSUME NEW c \in Colors, NEW s \in Squares, NEW t \in Squares
    PROVE  /\ \A k \in {1, 2} : t = Ahead(s, c, k) =>
                FileOf(t) = FileOf(s) /\ RankOf(t) = RankOf(s) + k * Forward(c)
           /\ \A df \in {-1, 1} : t = Aside(s, c, df) =>
                FileOf(t) = FileOf(s) + df /\ RankOf(t) = RankOf(s) + Forward(c)
  <1>1. t # NoSquare
    BY NoSquareIsNone
  <1>2. ASSUME NEW k \in {1, 2}, t = Ahead(s, c, k)
        PROVE  FileOf(t) = FileOf(s) /\ RankOf(t) = RankOf(s) + k * Forward(c)
    <2> DEFINE d == <<0, Forward(c)>>
    <2>0. k \in Nat /\ t = Along(s, d, k)
      BY <1>2 DEF Ahead
    <2>1. d \in Steps /\ d[1] = 0 /\ d[2] = Forward(c)
      BY ForwardFacts
    <2> HIDE DEF d
    <2>2. FileOf(t) = FileOf(s) + k * d[1] /\ RankOf(t) = RankOf(s) + k * d[2]
      BY <1>1, <2>0, <2>1, AlongFacts
    <2> QED BY <2>1, <2>2, SquareFacts DEF Forward
  <1>3. ASSUME NEW df \in {-1, 1}, t = Aside(s, c, df)
        PROVE  FileOf(t) = FileOf(s) + df /\ RankOf(t) = RankOf(s) + Forward(c)
    <2> DEFINE d == <<df, Forward(c)>>
    <2>1. d \in Steps /\ d[1] = df /\ d[2] = Forward(c) /\ t = Along(s, d, 1)
      BY <1>3, ForwardFacts DEF Aside
    <2> HIDE DEF d
    <2>2. FileOf(t) = FileOf(s) + 1 * d[1] /\ RankOf(t) = RankOf(s) + 1 * d[2]
      BY <1>1, <2>1, AlongFacts
    <2> QED BY <2>1, <2>2, SquareFacts DEF Forward
  <1> QED BY <1>2, <1>3

LEMMA SameSquare ==
    ASSUME NEW s \in Squares, NEW t \in Squares, FileOf(s) = FileOf(t), RankOf(s) = RankOf(t)
    PROVE  s = t
  BY SquareFacts

LEMMA SameOrigin ==
    ASSUME NEW c \in Colors, NEW s \in Squares, NEW r \in Squares, NEW t \in Squares
    PROVE  /\ t = Ahead(s, c, 1) /\ t = Ahead(r, c, 1) => s = r
           /\ t = Ahead(s, c, 2) /\ t = Ahead(r, c, 2) => s = r
           /\ /\ FileOf(s) = FileOf(r)
              /\ \E df \in {-1, 1} : t = Aside(s, c, df)
              /\ \E df \in {-1, 1} : t = Aside(r, c, df)
              => s = r
  <1>1. Forward(c) \in Int
    BY ForwardFacts
  <1>2. RankOf(s) \in Int /\ RankOf(r) \in Int /\ RankOf(t) \in Int
    BY SquareFacts
  <1>3. ASSUME NEW k \in {1, 2}, t = Ahead(s, c, k), t = Ahead(r, c, k) PROVE s = r
    <2>1. FileOf(t) = FileOf(s) /\ RankOf(t) = RankOf(s) + k * Forward(c)
      BY <1>3, PawnOrigins
    <2>2. FileOf(t) = FileOf(r) /\ RankOf(t) = RankOf(r) + k * Forward(c)
      BY <1>3, PawnOrigins
    <2>3. RankOf(s) = RankOf(r)
      BY <1>2, <2>1, <2>2 DEF Forward
    <2> QED BY <2>1, <2>2, <2>3, SameSquare
  <1>4. ASSUME FileOf(s) = FileOf(r), \E df \in {-1, 1} : t = Aside(s, c, df),
               \E df \in {-1, 1} : t = Aside(r, c, df)
        PROVE  s = r
    <2>0. PICK df \in {-1, 1} : t = Aside(s, c, df)
      BY <1>4
    <2>1. RankOf(t) = RankOf(s) + Forward(c)
      BY <2>0, PawnOrigins
    <2>3. PICK dr \in {-1, 1} : t = Aside(r, c, dr)
      BY <1>4
    <2>2. RankOf(t) = RankOf(r) + Forward(c)
      BY <2>3, PawnOrigins
    <2>4. RankOf(s) = RankOf(r)
      BY <1>2, <2>1, <2>2 DEF Forward
    <2> QED BY <1>4, <2>4, SameSquare
  <1> QED BY <1>3, <1>4

\* Two pawn moves to a square with the same origin, promotion and capture are one.
LEMMA SamePawnMove ==
    ASSUME NEW b, Placed(b), NEW c \in Colors, NEW m, NEW x, PawnMove(b, m, c), PawnMove(b, x, c),
           Occupied(b, m.from), Occupied(b, x.from),
           m.to = x.to, m.promotion = x.promotion,
           "capture" \in m.flags <=> "capture" \in x.flags,
           "capture" \in m.flags => FileOf(m.from) = FileOf(x.from)
    PROVE  m = x
  <1>1. m.from \in Squares /\ x.from \in Squares /\ m.to \in Squares
    BY PlacedFacts DEF PawnMove
  <1> DEFINE One(z) == z.to = Ahead(z.from, c, 1) /\ Marks(z, c, {})
             Two(z) == /\ z.to = Ahead(z.from, c, 2) /\ ~Occupied(b, Ahead(z.from, c, 1))
                       /\ z.promotion = NoType /\ z.flags = {"double"}
             Side(z) == \E df \in {-1, 1} :
                /\ z.to = Aside(z.from, c, df)
                /\ \/ Enemy(b, z.to, c) /\ Marks(z, c, {"capture"})
                   \/ ~Enemy(b, z.to, c) /\ Marks(z, c, {"capture", "enPassant"})
  <1>2. /\ One(m) \/ Two(m) \/ Side(m)
        /\ One(x) \/ Two(x) \/ Side(x)
    BY DEF PawnMove
  <1>3. \A z : /\ One(z) => "capture" \notin z.flags
               /\ Two(z) => "capture" \notin z.flags
               /\ Side(z) => "capture" \in z.flags
    BY DEF Marks
  <1>4. SUFFICES m.from = x.from /\ m.flags = x.flags
    BY DEF PawnMove
  <1>5. ASSUME NEW y, NEW z, One(y), Two(z), y.to = z.to, y.from \in Squares, z.from \in Squares, y.to \in Squares,
               Occupied(b, y.from)
        PROVE  FALSE
    <2>1. FileOf(y.to) = FileOf(y.from) /\ RankOf(y.to) = RankOf(y.from) + 1 * Forward(c)
      BY <1>5, PawnOrigins
    <2>2. FileOf(y.to) = FileOf(z.from) /\ RankOf(y.to) = RankOf(z.from) + 2 * Forward(c)
      BY <1>5, PawnOrigins
    <2>3. FileOf(y.from) = FileOf(z.from) + 1 * 0 /\ RankOf(y.from) = RankOf(z.from) + 1 * Forward(c)
      <3>1. Forward(c) \in Int
        BY ForwardFacts
      <3>2. /\ RankOf(y.from) \in Int /\ RankOf(z.from) \in Int /\ RankOf(y.to) \in Int
            /\ FileOf(y.from) \in Int /\ FileOf(z.from) \in Int
        BY <1>5, SquareFacts
      <3>3. y.to = z.to
        BY <1>5
      <3> HIDE DEF One, Two, Side
      <3> QED BY ONLY <2>1, <2>2, <3>1, <3>2, <3>3
    <2>4. Ahead(z.from, c, 1) = SquareAt(FileOf(y.from), RankOf(y.from))
      BY <1>5, <2>3, SquareFacts DEF Ahead, Along, OnBoard
    <2>5. Ahead(z.from, c, 1) = y.from
      BY <1>5, <2>4, SquareFacts DEF SquareAt
    <2> QED BY <1>5, <2>5
  <1>6. CASE One(m) /\ One(x)
    <2>0. m.to = Ahead(m.from, c, 1) /\ m.to = Ahead(x.from, c, 1)
      BY <1>6
    <2>1. m.from = x.from
      BY ONLY c \in Colors, <1>1, <2>0, SameOrigin
    <2>2. m.flags = x.flags
      BY <1>6 DEF Marks
    <2> QED BY <2>1, <2>2
  <1>7. CASE Two(m) /\ Two(x)
    <2>0. m.to = Ahead(m.from, c, 2) /\ m.to = Ahead(x.from, c, 2)
      BY <1>7
    <2>1. m.from = x.from
      BY ONLY c \in Colors, <1>1, <2>0, SameOrigin
    <2> QED BY <1>7, <2>1
  <1>8. CASE Side(m) /\ Side(x)
    <2>1. FileOf(m.from) = FileOf(x.from)
      BY <1>3, <1>8
    <2>0. /\ \E df \in {-1, 1} : m.to = Aside(m.from, c, df)
          /\ \E df \in {-1, 1} : m.to = Aside(x.from, c, df)
      BY <1>8
    <2>2. m.from = x.from
      BY ONLY c \in Colors, <1>1, <2>0, <2>1, SameOrigin
    <2>3. m.flags = x.flags
      BY <1>8 DEF Marks
    <2> QED BY <2>2, <2>3
  <1> HIDE DEF One, Two, Side
  <1> QED BY <1>1, <1>2, <1>3, <1>5, <1>6, <1>7, <1>8

\* A rival differs in what tells them apart.
LEMMA ToldApart ==
    ASSUME NEW m, NEW x, NEW r, NEW s, x.from \in r, Disambiguation(m, r) = Disambiguation(x, s)
    PROVE  m.from = x.from
  <1>1. r # {}
    OBVIOUS
  <1>2. CASE \A y \in r : FileOf(y) # FileOf(m.from)
    <2>1. Disambiguation(m, r) = <<"file", FileOf(m.from)>>
      BY <1>1, <1>2 DEF Disambiguation
    <2>2. FileOf(m.from) # FileOf(x.from)
      BY <1>2
    <2> QED BY <2>1, <2>2 DEF Disambiguation
  <1>3. CASE ~(\A y \in r : FileOf(y) # FileOf(m.from)) /\ \A y \in r : RankOf(y) # RankOf(m.from)
    <2>1. Disambiguation(m, r) = <<"rank", RankOf(m.from)>>
      BY <1>1, <1>3 DEF Disambiguation
    <2>2. RankOf(m.from) # RankOf(x.from)
      BY <1>3
    <2> QED BY <2>1, <2>2 DEF Disambiguation
  <1>4. CASE ~(\A y \in r : FileOf(y) # FileOf(m.from)) /\ ~(\A y \in r : RankOf(y) # RankOf(m.from))
    <2>1. Disambiguation(m, r) = <<"square", m.from>>
      BY <1>1, <1>4 DEF Disambiguation
    <2> QED BY <2>1 DEF Disambiguation
  <1> QED BY <1>2, <1>3, <1>4

\* On every board the SAN of a legal move names that move alone.
LEMMA SanNamesOne ==
    ASSUME NEW b, Placed(b), NEW m \in LegalMoves(b), NEW x \in LegalMoves(b),
           NormalSan(b, m, LegalMoves(b)) = NormalSan(b, x, LegalMoves(b))
    PROVE  m = x
  <1> DEFINE legal == LegalMoves(b)
             c == b.side
             Castles(z) == \E k \in Castlings : k.flag \in z.flags
             Long(z) == <<b.squares[z.from].type, Origin(b, z, legal), "capture" \in z.flags, z.to, z.promotion>>
  <1>1. m \in PseudoLegalMoves(b) /\ x \in PseudoLegalMoves(b)
    BY DEF LegalMoves
  <1>2. /\ Occupied(b, m.from) /\ b.squares[m.from].color = c /\ m = Move(m.from, m.to, m.promotion, m.flags)
        /\ Occupied(b, x.from) /\ b.squares[x.from].color = c /\ x = Move(x.from, x.to, x.promotion, x.flags)
        /\ c \in Colors
    BY <1>1, MovesOnBoard
  <1>3. \A z : NormalSan(b, z, legal) = IF Castles(z) THEN <<z.flags>> ELSE Long(z)
    BY DEF NormalSan
  <1> HIDE DEF Castles
  <1>4. Castles(m) <=> Castles(x)
    <2> HIDE DEF legal
    <2>1. \A z : Len(<<z.flags>>) = 1 /\ Len(Long(z)) = 5
      OBVIOUS
    <2>2. NormalSan(b, m, legal) = NormalSan(b, x, legal)
      BY DEF legal
    <2> HIDE DEF Long
    <2> QED BY <1>3, <2>1, <2>2
  <1>5. CASE Castles(m)
    <2>1. m.flags = x.flags
      <3>1. <<m.flags>> = <<x.flags>>
        BY <1>3, <1>4, <1>5
      <3> QED BY <3>1
    <2>2. PICK k \in Castlings : IsCastling(b, m, c, k)
      BY <1>1, <1>5, CastlingsOnly DEF Castles
    <2>3. PICK j \in Castlings : IsCastling(b, x, c, j)
      BY <1>1, <1>4, <1>5, CastlingsOnly DEF Castles
    <2> QED BY <2>1, <2>2, <2>3, SameCastling
  <1>6. CASE ~Castles(m)
    <2>1. Long(m) = Long(x)
      BY <1>3, <1>4, <1>6
    <2>2. /\ b.squares[m.from].type = b.squares[x.from].type /\ Origin(b, m, legal) = Origin(b, x, legal)
          /\ ("capture" \in m.flags) = ("capture" \in x.flags) /\ m.to = x.to /\ m.promotion = x.promotion
      BY <2>1
    <2> HIDE DEF legal
    <2>3. \A z \in {m, x} : IF b.squares[z.from].type = "P" THEN PawnMove(b, z, c) ELSE Plain(b, z)
      BY <1>1, <1>4, <1>6, PieceKinds DEF Castles
    <2>4. CASE b.squares[m.from].type = "P"
      <3>1. "capture" \in m.flags => FileOf(m.from) = FileOf(x.from)
        <4>1. ASSUME "capture" \in m.flags PROVE <<"file", FileOf(m.from)>> = <<"file", FileOf(x.from)>>
          BY <2>2, <2>4, <4>1 DEF Origin
        <4> QED BY <4>1
      <3> QED BY <1>2, <2>2, <2>3, <2>4, <3>1, SamePawnMove
    <2>5. CASE b.squares[m.from].type # "P"
      <3>1. m.from = x.from
        <4>1. SUFFICES ASSUME m.from # x.from PROVE FALSE
          OBVIOUS
        <4>2. b.squares[m.from] = b.squares[x.from]
          BY <1>2, <2>2, PlacedFacts
        <4>3. x.from \in Rivals(b, m, legal)
          BY <2>2, <4>1, <4>2 DEF Rivals, legal
        <4>4. Disambiguation(m, Rivals(b, m, legal)) = Disambiguation(x, Rivals(b, x, legal))
          BY <2>2, <2>5 DEF Origin
        <4> QED BY <4>1, <4>3, <4>4, ToldApart
      <3> QED BY <2>2, <2>3, <2>5, <3>1 DEF Plain
    <2> QED BY <2>4, <2>5
  <1> QED BY <1>5, <1>6

-----------------------------------------------------------------------------
(* The board after a move.                                                  *)

LEMMA AfterOrdinary ==
    ASSUME NEW b, Placed(b), NEW m \in PseudoLegalMoves(b), IsOrdinary(b, m, b.side)
    PROVE  /\ IsMap(SquaresAfter(b, m))
           /\ DOMAIN SquaresAfter(b, m) = (DOMAIN b.squares \ {CapturedSquare(b, m), m.from}) \cup {m.to}
           /\ SquaresAfter(b, m)[m.to] = IF "promotion" \in m.flags THEN Piece(b.side, m.promotion)
                                         ELSE b.squares[m.from]
           /\ \A y \in DOMAIN SquaresAfter(b, m) : y # m.to => SquaresAfter(b, m)[y] = b.squares[y]
  <1> DEFINE x == CapturedSquare(b, m)
             f == m.from
             t == m.to
             q == b.squares
             placed == IF "promotion" \in m.flags THEN Piece(b.side, m.promotion) ELSE q[f]
  <1>1. q[f].color = b.side /\ x # f /\ f # t
    BY MovesOnBoard, CapturedElsewhere
  <1>2. CastlingOf(m, b.side) = {}
    BY DEF IsOrdinary
  <1>3. SquaresAfter(b, m) = Put(Lift(Lift(q, x), f), t, placed)
    <2>1. SquaresAfter(b, m) = Castled(Put(Lift(Lift(q, x), f), t, placed), CastlingOf(m, b.side))
      BY <1>1 DEF SquaresAfter
    <2> HIDE DEF placed, x, f, t, q
    <2> QED BY <1>2, <2>1, CastledFacts
  <1> HIDE DEF placed, x
  <1>4. DOMAIN Lift(Lift(q, x), f) = DOMAIN q \ {x, f}
        /\ \A y \in DOMAIN q \ {x, f} : Lift(Lift(q, x), f)[y] = q[y]
    BY DEF Lift, Restrict
  <1> DEFINE l == Lift(Lift(q, x), f)
  <1> HIDE DEF l
  <1>5. SquaresAfter(b, m) = Put(l, t, placed) /\ DOMAIN l = DOMAIN q \ {x, f}
        /\ \A y \in DOMAIN q \ {x, f} : l[y] = q[y]
    BY <1>3, <1>4 DEF l
  <1>6. /\ IsMap(Put(l, t, placed)) /\ DOMAIN Put(l, t, placed) = (DOMAIN q \ {x, f}) \cup {t}
        /\ Put(l, t, placed)[t] = placed
        /\ \A y \in DOMAIN Put(l, t, placed) : y # t => Put(l, t, placed)[y] = q[y]
    BY <1>5 DEF Put, IsMap
  <1> QED BY <1>5, <1>6 DEF placed, x

LEMMA AfterCastling ==
    ASSUME NEW b, Placed(b), NEW m \in PseudoLegalMoves(b), NEW k \in Castlings,
           IsCastling(b, m, b.side, k)
    PROVE  /\ IsMap(SquaresAfter(b, m))
           /\ DOMAIN SquaresAfter(b, m) = (DOMAIN b.squares \ {k.king, k.rook}) \cup {k.to, k.rookTo}
           /\ SquaresAfter(b, m)[k.to] = b.squares[k.king]
           /\ SquaresAfter(b, m)[k.rookTo] = b.squares[k.rook]
           /\ \A y \in DOMAIN SquaresAfter(b, m) : y \notin {k.to, k.rookTo} => SquaresAfter(b, m)[y] = b.squares[y]
           /\ b.squares[k.king] = Piece(b.side, "K") /\ b.squares[k.rook] = Piece(b.side, "R")
           /\ k.king \in DOMAIN b.squares /\ k.rook \in DOMAIN b.squares
           /\ k.to \notin DOMAIN b.squares /\ k.rookTo \notin DOMAIN b.squares
           /\ k.color = b.side
  <1> DEFINE q == b.squares
             f == k.king
             t == k.to
             r == k.rook
             s == k.rookTo
  <1>1. /\ m.from = f /\ m.to = t /\ CapturedSquare(b, m) = t
        /\ "promotion" \notin m.flags /\ CastlingOf(m, b.side) = {k}
        /\ f # t /\ f # r /\ f # s /\ t # r /\ t # s /\ r # s
    BY CapturedElsewhere, CastlingFacts DEF IsCastling
  <1>2. /\ q[f].color = b.side /\ q[f] = Piece(b.side, "K") /\ f \in DOMAIN q
        /\ r \in DOMAIN q /\ q[r] = Piece(b.side, "R") /\ t \notin DOMAIN q /\ s \notin DOMAIN q
        /\ k.color = b.side
    BY <1>1, MovesOnBoard, PlacedFacts, CastlingFacts DEF IsCastling, CastlingMove, Holds, Occupied
  <1>3. SquaresAfter(b, m) = Castled(Put(Lift(Lift(q, t), f), t, q[f]), {k})
    BY <1>1, <1>2 DEF SquaresAfter
  <1> DEFINE p == Put(Lift(Lift(q, t), f), t, q[f])
  <1>4. /\ DOMAIN p = (DOMAIN q \ {f}) \cup {t} /\ p[t] = q[f]
        /\ \A y \in DOMAIN q : y # f => p[y] = q[y]
    BY <1>2 DEF Put, Lift, Restrict
  <1>5. SquaresAfter(b, m) = Castled(p, {k})
    BY <1>3
  <1> HIDE DEF p
  <1>6. SquaresAfter(b, m) = Shift(p, r, s)
    BY <1>5, CastledFacts
  <1>7. /\ IsMap(Shift(p, r, s)) /\ DOMAIN Shift(p, r, s) = (DOMAIN p \ {r}) \cup {s}
        /\ Shift(p, r, s)[s] = p[r]
        /\ \A y \in DOMAIN Shift(p, r, s) : y # s => Shift(p, r, s)[y] = p[y]
    BY <1>1 DEF Shift, Put, Lift, Restrict, IsMap
  <1> DEFINE a == Shift(p, r, s)
  <1> HIDE DEF a
  <1>8. IsMap(a) /\ DOMAIN a = (DOMAIN p \ {r}) \cup {s} /\ a[s] = p[r] /\ \A y \in DOMAIN a : y # s => a[y] = p[y]
    BY <1>7 DEF a
  <1>9. /\ IsMap(a) /\ DOMAIN a = (DOMAIN q \ {f, r}) \cup {t, s} /\ a[t] = q[f] /\ a[s] = q[r]
        /\ \A y \in DOMAIN a : y \notin {t, s} => a[y] = q[y]
    BY <1>1, <1>2, <1>4, <1>8
  <1> QED BY <1>2, <1>6, <1>9 DEF a

LEMMA PlacedAfter ==
    ASSUME NEW b, Placed(b), NEW m \in PseudoLegalMoves(b)
    PROVE  /\ DOMAIN SquaresAfter(b, m) \subseteq Squares
           /\ SquaresAfter(b, m) \in [DOMAIN SquaresAfter(b, m) -> Pieces]
  <1> DEFINE p == SquaresAfter(b, m)
             q == b.squares
  <1>1. /\ m.from \in DOMAIN q /\ m.to \in Squares /\ b.side \in Colors
        /\ DOMAIN q \subseteq Squares /\ \A y \in DOMAIN q : q[y] \in Pieces
    BY MovesOnBoard DEF Placed, Occupied
  <1>2. SUFFICES IsMap(p) /\ DOMAIN p \subseteq Squares /\ \A y \in DOMAIN p : p[y] \in Pieces
    <2> HIDE DEF p
    <2> QED BY DEF IsMap, p
  <1> HIDE DEF p
  <1>3. CASE IsOrdinary(b, m, b.side)
    <2>1. IsMap(p) /\ DOMAIN p = (DOMAIN q \ {CapturedSquare(b, m), m.from}) \cup {m.to}
      BY <1>3, AfterOrdinary DEF p
    <2>2. p[m.to] = IF "promotion" \in m.flags THEN Piece(b.side, m.promotion) ELSE q[m.from]
      BY <1>3, AfterOrdinary DEF p
    <2>3. \A y \in DOMAIN p : y # m.to => p[y] = q[y]
      BY <1>3, AfterOrdinary DEF p
    <2>4. "promotion" \in m.flags => Piece(b.side, m.promotion) \in Pieces
      BY <1>1, <1>3 DEF IsOrdinary, Piece, Pieces, PromotionTypes, PieceTypes
    <2> QED BY <1>1, <2>1, <2>2, <2>3, <2>4
  <1>4. CASE \E k \in Castlings : IsCastling(b, m, b.side, k)
    <2>1. PICK k \in Castlings : IsCastling(b, m, b.side, k)
      BY <1>4
    <2>2. /\ IsMap(p) /\ DOMAIN p = (DOMAIN q \ {k.king, k.rook}) \cup {k.to, k.rookTo}
          /\ p[k.to] = q[k.king] /\ p[k.rookTo] = q[k.rook]
          /\ \A y \in DOMAIN p : y \notin {k.to, k.rookTo} => p[y] = q[y]
          /\ k.king \in DOMAIN q /\ k.rook \in DOMAIN q
      BY <2>1, AfterCastling DEF p
    <2>3. k.to \in Squares /\ k.rookTo \in Squares
      BY CastlingFacts
    <2> QED BY <1>1, <2>2, <2>3
  <1> QED BY <1>3, <1>4, MoveKinds

\* A board stays a board.
LEMMA MadeBoard ==
    ASSUME NEW b, IsBoard(b), NEW m \in PseudoLegalMoves(b)
    PROVE  IsBoard(MakeMove(b, m))
  <1> DEFINE n == MakeMove(b, m)
  <1>1. /\ IsRecord(n) /\ n.squares = SquaresAfter(b, m) /\ n.side = Opposite(b.side)
        /\ n.history = Append(b.history, n.hash)
    BY MakeMoveFields
  <1> HIDE DEF n
  <1>2. Placed(n)
    BY <1>1, PlacedAfter DEF IsBoard, Placed
  <1>3. n.side \in Colors
    BY <1>1, ColorFacts DEF IsBoard
  <1>4. \E S : n.history \in Seq(S) /\ n.history # <<>>
    <2>1. PICK S : b.history \in Seq(S)
      BY DEF IsBoard
    <2>2. b.history \in Seq(S \cup {n.hash})
      BY <2>1
    <2>3. n.history \in Seq(S \cup {n.hash}) /\ n.history # <<>>
      BY <1>1, <2>2
    <2> QED BY <2>3
  <1> QED BY <1>1, <1>2, <1>3, <1>4 DEF IsBoard, n

-----------------------------------------------------------------------------
(* The square passed over.                                                  *)

\* The square a pawn passes over in a double step, and where it stops.
LEMMA DoubleStep ==
    ASSUME NEW c \in Colors, NEW f \in Squares, NEW t \in Squares, RankOf(f) = FirstRank(c),
           t = Ahead(f, c, 2)
    PROVE  /\ (f + t) \div 2 = Ahead(f, c, 1) /\ Ahead(f, c, 1) \in Squares
           /\ Ahead(f, c, 1) # f /\ Ahead(f, c, 1) # t
           /\ Ahead(f, c, 1) + (IF Opposite(c) = "white" THEN -8 ELSE 8) = t
  <1>1. f = RankOf(f) * 8 + FileOf(f) /\ FileOf(f) \in 0..7 /\ RankOf(f) \in 0..7
    BY SquareFacts
  <1>2. Ahead(f, c, 1) # NoSquare /\ Ahead(f, c, 2) # NoSquare /\ Ahead(f, c, 1) \in Squares
    BY <1>1, PawnAhead
  <1>3. Ahead(f, c, 1) = SquareAt(FileOf(f) + 1 * 0, RankOf(f) + 1 * Forward(c))
    BY <1>2 DEF Ahead, Along
  <1>4. t = SquareAt(FileOf(f) + 2 * 0, RankOf(f) + 2 * Forward(c))
    BY <1>2 DEF Ahead, Along
  <1> DEFINE r == RankOf(f)
             g == FileOf(f)
             a == Ahead(f, c, 1)
  <1> HIDE DEF r, g, a
  <1>5. f = r * 8 + g /\ g \in 0..7 /\ r \in 0..7
    BY <1>1 DEF r, g
  <1>6. CASE c = "white"
    <2>1. a = (r + 1) * 8 + g /\ t = (r + 2) * 8 + g
      BY <1>3, <1>4, <1>5, <1>6 DEF SquareAt, Forward, r, g, a
    <2>2. a = f + 8 /\ t = f + 16 /\ f \in Int /\ (f + t) \div 2 = f + 8
      BY <1>5, <2>1
    <2> QED BY <1>2, <1>6, <2>2 DEF Opposite, a
  <1>7. CASE c = "black"
    <2>1. a = (r - 1) * 8 + g /\ t = (r - 2) * 8 + g
      BY <1>3, <1>4, <1>5, <1>7 DEF SquareAt, Forward, r, g, a
    <2>2. a = f - 8 /\ t = f - 16 /\ f \in Int /\ (f + t) \div 2 = f - 8
      BY <1>5, <2>1
    <2> QED BY <1>2, <1>7, <2>2 DEF Opposite, a
  <1> QED BY <1>6, <1>7 DEF Colors

\* After a move nothing stands on the en passant square, and beside it the pawn that
\* passed over it.
LEMMA PassedOver ==
    ASSUME NEW b, IsBoard(b), NEW m \in PseudoLegalMoves(b)
    PROVE  PassedOverIsEmpty(MakeMove(b, m)) /\ PassedByPawn(MakeMove(b, m))
  <1> DEFINE n == MakeMove(b, m)
             q == b.squares
             p == SquaresAfter(b, m)
             c == b.side
  <1>1. /\ n.squares = p /\ n.side = Opposite(c)
        /\ n.enPassant = IF "double" \in m.flags THEN (m.from + m.to) \div 2 ELSE NoSquare
    BY MakeMoveFields
  <1>2. Placed(b) /\ c \in Colors
    BY DEF IsBoard
  <1>3. m.from \in Squares /\ m.to \in Squares /\ Occupied(b, m.from)
        /\ b.squares[m.from] = Piece(c, b.squares[m.from].type)
    BY <1>2, MovesOnBoard, PlacedFacts
  <1>4. CASE "double" \notin m.flags
    <2>1. n.enPassant = NoSquare
      BY <1>1, <1>4
    <2>2. NoSquare \notin DOMAIN p
      BY <1>2, PlacedAfter, NoSquareIsNone
    <2> QED BY <1>1, <2>1, <2>2 DEF PassedOverIsEmpty, PassedByPawn, Occupied
  <1>5. CASE "double" \in m.flags
    <2>1. IsOrdinary(b, m, c)
      BY <1>2, <1>5, MoveKinds DEF IsCastling
    <2>2. /\ b.squares[m.from].type = "P" /\ RankOf(m.from) = FirstRank(c) /\ m.to = Ahead(m.from, c, 2)
          /\ ~Occupied(b, Ahead(m.from, c, 1))
      BY <1>5, <2>1 DEF IsOrdinary
    <2>3. "promotion" \notin m.flags
      <3>1. PawnMove(b, m, c)
        BY <1>2, <2>1, <2>2, PieceKinds DEF IsOrdinary
      <3>2. \A kind : Marks(m, c, kind) => m.flags \subseteq kind \cup {"promotion"}
        BY DEF Marks
      <3>3. m.flags = {"double"}
        BY <1>5, <3>1, <3>2 DEF PawnMove
      <3> QED BY <3>3
    <2>4. /\ DOMAIN p = (DOMAIN q \ {CapturedSquare(b, m), m.from}) \cup {m.to}
          /\ p[m.to] = q[m.from]
      BY <1>2, <2>1, <2>3, AfterOrdinary
    <2>5. /\ n.enPassant = Ahead(m.from, c, 1) /\ Ahead(m.from, c, 1) # m.to
          /\ Ahead(m.from, c, 1) + (IF Opposite(c) = "white" THEN -8 ELSE 8) = m.to
      BY <1>1, <1>2, <1>3, <1>5, <2>2, DoubleStep
    <2> HIDE DEF n, p
    <2>6. PassedOverIsEmpty(n)
      BY <1>1, <2>2, <2>4, <2>5 DEF PassedOverIsEmpty, Occupied
    <2>7. Holds(n, m.to, c, "P")
      BY <1>1, <1>3, <2>2, <2>4 DEF Holds, Occupied
    <2>8. PassedByPawn(n)
      BY <1>1, <1>2, <2>5, <2>7, ColorFacts DEF PassedByPawn
    <2> QED BY <2>6, <2>8 DEF n
  <1> QED BY <1>4, <1>5

-----------------------------------------------------------------------------
(* Lawful positions: what every game keeps that starts with it.             *)

\* Nobody takes a king.
LEMMA KingsAreSafe ==
    ASSUME NEW b, IsBoard(b), Lawful(b), NEW m \in PseudoLegalMoves(b), NEW c \in Colors
    PROVE  ~Holds(b, m.to, c, "K")
  <1>1. SUFFICES ASSUME Holds(b, m.to, c, "K") PROVE FALSE
    OBVIOUS
  <1>2. Placed(b) /\ b.side \in Colors /\ Occupied(b, m.to) /\ b.squares[m.to] = Piece(c, "K")
    BY <1>1 DEF IsBoard, Holds
  <1>3. Enemy(b, m.to, b.side)
    BY <1>2, MovesOnBoard DEF Lawful, PassedOverIsEmpty
  <1>4. IsSquareAttacked(b, m.to, b.side)
    BY <1>2, <1>3, MoveIsAttack
  <1>5. c = Opposite(b.side) /\ Opposite(c) = b.side
    BY <1>2, <1>3, ColorFacts DEF Enemy, Piece
  <1>6. KingSquare(b, c) = m.to
    <2>1. m.to \in DOMAIN b.squares
      BY <1>2 DEF Occupied
    <2>2. Occupied(b, KingSquare(b, c)) /\ b.squares[KingSquare(b, c)] = Piece(c, "K")
      BY <1>2, <2>1, KingSquareIs
    <2> QED BY <1>2, <2>1, <2>2 DEF Lawful, KingsOnce, Occupied, Piece
  <1>7. m.to # NoSquare
    BY <1>2, PlacedFacts
  <1>8. InCheck(b, c)
    BY <1>4, <1>5, <1>6, <1>7 DEF InCheck
  <1> QED BY <1>5, <1>8 DEF Lawful

\* A right that a move leaves is one whose king and rook it does not touch.
LEMMA RightsUntouched ==
    ASSUME NEW b, IsBoard(b), Lawful(b), NEW m \in PseudoLegalMoves(b),
           NEW k \in Castlings, k.right \in b.rights \ LostRights(b, m)
    PROVE  /\ m.from \notin {k.king, k.rook} /\ m.to \notin {k.king, k.rook}
           /\ CapturedSquare(b, m) \notin {k.king, k.rook}
           /\ \A j \in Castlings : IsCastling(b, m, b.side, j) => j.color # k.color
  <1>1. Placed(b) /\ b.side \in Colors
    BY DEF IsBoard
  <1>2. Holds(b, k.king, k.color, "K") /\ Holds(b, k.rook, k.color, "R")
    BY DEF Lawful, RightsHeld
  <1>3. ~(k.color = b.side /\ b.squares[m.from].type = "K") /\ k.rook \notin {m.from, m.to}
    <2>1. ~ \E x \in Castlings : /\ (x.color = b.side /\ b.squares[m.from].type = "K") \/ x.rook \in {m.from, m.to}
                                /\ x.right = k.right
      BY DEF LostRights
    <2> QED BY <2>1
  <1>4. Occupied(b, m.from) /\ b.squares[m.from].color = b.side
    BY <1>1, MovesOnBoard
  <1>5. m.from # k.king
    BY <1>2, <1>3, <1>4 DEF Holds, Piece
  <1>6. m.to # k.king
    BY <1>2, KingsAreSafe, CastlingFacts
  <1>7. CapturedSquare(b, m) \notin {k.king, k.rook}
    <2>1. CASE "enPassant" \notin m.flags
      BY <1>1, <1>3, <1>6, <2>1, CapturedElsewhere
    <2>2. CASE "enPassant" \in m.flags
      <3>1. m.to = b.enPassant
        BY <1>1, <2>2, MoveKinds DEF IsCastling, IsOrdinary
      <3>2. m.to # NoSquare
        BY <1>1, MovesOnBoard, NoSquareIsNone
      <3>3. Holds(b, CapturedSquare(b, m), Opposite(b.side), "P")
        BY <2>2, <3>1, <3>2 DEF Lawful, PassedByPawn, CapturedSquare
      <3> QED BY <1>2, <3>3 DEF Holds, Piece
    <2> QED BY <2>1, <2>2
  <1>8. ASSUME NEW j \in Castlings, IsCastling(b, m, b.side, j) PROVE j.color # k.color
    BY <1>1, <1>3, <1>8, AfterCastling DEF IsCastling
  <1> QED BY <1>3, <1>5, <1>6, <1>7, <1>8

LEMMA CastlingsApart ==
    ASSUME NEW j \in Castlings, NEW k \in Castlings, j.color # k.color
    PROVE  {j.king, j.to, j.rook, j.rookTo} \cap {k.king, k.rook} = {}
  BY DEF Castlings

\* A legal move leads from a lawful position to one.
LEMMA MadeLawful ==
    ASSUME NEW b, IsBoard(b), Lawful(b), NEW m \in LegalMoves(b)
    PROVE  Lawful(MakeMove(b, m))
  <1> DEFINE n == MakeMove(b, m)
             q == b.squares
             p == SquaresAfter(b, m)
             c == b.side
  <1>1. m \in PseudoLegalMoves(b) /\ ~InCheck(n, c)
    BY DEF LegalMoves
  <1>2. n.squares = p /\ n.side = Opposite(c) /\ n.rights = b.rights \ LostRights(b, m)
    BY MakeMoveFields
  <1>3. Placed(b) /\ c \in Colors
    BY DEF IsBoard
  <1>4. PassedOverIsEmpty(n) /\ PassedByPawn(n)
    BY <1>1, PassedOver
  <1>5. ~InCheck(n, Opposite(n.side))
    BY <1>1, <1>2, <1>3, ColorFacts
  <1> HIDE DEF n, p
  <1>6. KingsOnce(n)
    <2> SUFFICES ASSUME NEW s \in DOMAIN p, NEW t \in DOMAIN p, p[s] = p[t], p[s].type = "K" PROVE s = t
      BY <1>2 DEF KingsOnce
    <2>1. CASE IsOrdinary(b, m, c)
      <3>1. /\ DOMAIN p = (DOMAIN q \ {CapturedSquare(b, m), m.from}) \cup {m.to}
            /\ p[m.to] = IF "promotion" \in m.flags THEN Piece(c, m.promotion) ELSE q[m.from]
            /\ \A y \in DOMAIN p : y # m.to => p[y] = q[y]
        BY <1>1, <1>3, <2>1, AfterOrdinary DEF p
      <3>2. "promotion" \in m.flags => Piece(c, m.promotion).type # "K"
        BY <2>1 DEF IsOrdinary, Piece, PromotionTypes
      <3>3. m.from \in DOMAIN q
        BY <1>1, <1>3, MovesOnBoard DEF Occupied
      <3>4. KingsOnce(b)
        BY DEF Lawful
      <3> QED BY <3>1, <3>2, <3>3, <3>4 DEF KingsOnce
    <2>2. CASE \E k \in Castlings : IsCastling(b, m, c, k)
      <3>1. PICK k \in Castlings : IsCastling(b, m, c, k)
        BY <2>2
      <3>2. /\ DOMAIN p = (DOMAIN q \ {k.king, k.rook}) \cup {k.to, k.rookTo}
            /\ p[k.to] = q[k.king] /\ p[k.rookTo] = q[k.rook]
            /\ \A y \in DOMAIN p : y \notin {k.to, k.rookTo} => p[y] = q[y]
            /\ k.king \in DOMAIN q /\ q[k.rook] = Piece(c, "R")
        BY <1>1, <1>3, <3>1, AfterCastling DEF p
      <3>3. q[k.rook].type # "K"
        BY <3>2 DEF Piece
      <3>4. KingsOnce(b)
        BY DEF Lawful
      <3> QED BY <3>2, <3>3, <3>4 DEF KingsOnce
    <2> QED BY <1>1, <1>3, <2>1, <2>2, MoveKinds
  <1>7. RightsHeld(n)
    <2> SUFFICES ASSUME NEW k \in Castlings, k.right \in b.rights \ LostRights(b, m)
                 PROVE  \A s \in {k.king, k.rook} : s \in DOMAIN p /\ p[s] = q[s]
      <3>1. \A k \in Castlings : k.right \in n.rights =>
               Holds(b, k.king, k.color, "K") /\ Holds(b, k.rook, k.color, "R")
        BY <1>2 DEF Lawful, RightsHeld
      <3> QED BY <1>2, <3>1 DEF RightsHeld, Holds, Occupied
    <2>1. k.king \in DOMAIN q /\ k.rook \in DOMAIN q
      BY DEF Lawful, RightsHeld, Holds, Occupied
    <2>2. /\ m.from \notin {k.king, k.rook} /\ m.to \notin {k.king, k.rook}
          /\ CapturedSquare(b, m) \notin {k.king, k.rook}
          /\ \A j \in Castlings : IsCastling(b, m, c, j) => j.color # k.color
      BY <1>1, RightsUntouched
    <2>3. CASE IsOrdinary(b, m, c)
      <3>1. /\ DOMAIN p = (DOMAIN q \ {CapturedSquare(b, m), m.from}) \cup {m.to}
            /\ \A y \in DOMAIN p : y # m.to => p[y] = q[y]
        BY <1>1, <1>3, <2>3, AfterOrdinary DEF p
      <3> QED BY <2>1, <2>2, <3>1
    <2>4. CASE \E j \in Castlings : IsCastling(b, m, c, j)
      <3>1. PICK j \in Castlings : IsCastling(b, m, c, j)
        BY <2>4
      <3>2. /\ DOMAIN p = (DOMAIN q \ {j.king, j.rook}) \cup {j.to, j.rookTo}
            /\ \A y \in DOMAIN p : y \notin {j.to, j.rookTo} => p[y] = q[y]
        BY <1>1, <1>3, <3>1, AfterCastling DEF p
      <3>3. {j.king, j.to, j.rook, j.rookTo} \cap {k.king, k.rook} = {}
        BY <2>2, <3>1, CastlingsApart
      <3> QED BY <2>1, <3>2, <3>3
    <2> QED BY <1>1, <1>3, <2>3, <2>4, MoveKinds
  <1> QED BY <1>4, <1>5, <1>6, <1>7 DEF Lawful, n

-----------------------------------------------------------------------------
(* parse_pgn: the board of every game.                                      *)

\* What a FEN that is not refused makes.
LEMMA FromFenFields ==
    ASSUME NEW fen, IsFen(fen), FromFen(fen) # NoBoard
    PROVE  IsBoard(FromFen(fen))
  <1> DEFINE b == [squares |-> fen.squares, side |-> fen.side, rights |-> fen.rights,
                   enPassant |-> fen.enPassant, halfmove |-> fen.halfmove, fullmove |-> fen.fullmove,
                   hash |-> <<>>, history |-> <<>>]
             h == ComputeHash(b)
             r == [b EXCEPT !.hash = h, !.history = <<h>>]
  <1>1. FromFen(fen) = r
    BY DEF FromFen
  <1> HIDE DEF h
  <1>2. IsRecord(r)
    BY DEF IsRecord, BoardFields, IsMap
  <1>3. r.squares = fen.squares /\ r.side = fen.side /\ r.history = <<h>>
    OBVIOUS
  <1> HIDE DEF r, b
  <1>4. Placed(r) /\ r.side \in Colors
    <2>1. /\ DOMAIN fen.squares \subseteq Squares /\ fen.squares \in [DOMAIN fen.squares -> Pieces]
          /\ fen.side \in Colors
      BY DEF IsFen
    <2> QED  BY <1>3, <2>1 DEF Placed
  <1>5. r.history \in Seq({h}) /\ r.history # <<>>
    BY <1>3
  <1>6. IsBoard(r)
    BY <1>2, <1>4, <1>5 DEF IsBoard
  <1> QED BY <1>1, <1>6

LEMMA NoBoardIsNone == \A b : IsBoard(b) => b # NoBoard
  <1> SUFFICES ASSUME NEW b, IsBoard(b), b = NoBoard PROVE FALSE
    OBVIOUS
  <1>1. DOMAIN NoBoard = {"squares"}
    BY DEF NoBoard
  <1>2. "side" \in DOMAIN b
    BY DEF IsBoard, IsRecord, BoardFields
  <1> QED BY <1>1, <1>2

\* What ReadMove does to the board and the plies.
LEMMA MoveRead ==
    ASSUME ReadMove, IsBoard(board)
    PROVE  \E m \in LegalMoves(board) :
             /\ m \in PseudoLegalMoves(board)
             /\ board' = MakeMove(board, m)
             /\ \E p : plies' = Append(plies, p) /\ p.move = m
  <1>1. PICK m \in LegalMoves(board) :
          /\ board' = MakeMove(board, m)
          /\ plies' = Append(plies, [before |-> ToFen(board), move |-> m,
                                     san |-> ToSan(board, m, LegalMoves(board)), after |-> ToFen(board')])
    BY DEF ReadMove, ParseSan
  <1>2. m \in PseudoLegalMoves(board)
    BY DEF LegalMoves
  <1> QED BY <1>1, <1>2

\* The other actions leave the board and the plies as they are, or close the game.
LEMMA BoardSteps ==
    ASSUME [Next]_vars
    PROVE  \/ board # NoBoard /\ ReadMove
           \/ board' = NoBoard /\ board # NoBoard
           \/ board' = board /\ plies' = plies
  BY DEF Next, vars, ReadMove, EndText, AskBegin, AskSubmit, AskFinalize, Send, GiveUp, ServeBegin, ServeSubmit,
         ReadGame, FinalizeRun, SaveReview, SaveNative, Restart

BoardIsOne == board # NoBoard => IsBoard(board)

LEMMA BoardInit == Init => BoardIsOne
  BY ScenariosAssumption, FromFenFields DEF Init, BoardIsOne
LEMMA BoardStep == BoardIsOne /\ [Next]_vars => BoardIsOne'
  <1> SUFFICES ASSUME BoardIsOne, [Next]_vars PROVE BoardIsOne'
    OBVIOUS
  <1>1. CASE board # NoBoard /\ ReadMove
    BY <1>1, MoveRead, MadeBoard DEF BoardIsOne
  <1> QED BY <1>1, BoardSteps DEF BoardIsOne

\* The two notions of check agree in every position of every game, from any FEN.
THEOREM ChecksAlwaysAgree == Spec => []ChecksAgree
  <1>1. BoardIsOne => ChecksAgree
    BY ChecksAgreeOnBoards DEF BoardIsOne, ChecksAgree, Colors
  <1> QED BY <1>1, BoardInit, BoardStep, PTL DEF Spec

\* SAN names one legal move in every position of every game, from any FEN.
THEOREM SanIsUnambiguous == Spec => []SanRoundTrip
  <1>1. BoardIsOne => SanRoundTrip
    <2> SUFFICES ASSUME BoardIsOne, board # NoBoard,
                        NEW m \in LegalMoves(board), NEW x \in LegalMoves(board),
                        NormalSan(board, m, LegalMoves(board)) = NormalSan(board, x, LegalMoves(board))
                 PROVE  m = x
      BY DEF SanRoundTrip
    <2>1. Placed(board)
      BY DEF BoardIsOne, IsBoard
    <2> QED BY <2>1, SanNamesOne
  <1> QED BY <1>1, BoardInit, BoardStep, PTL DEF Spec

\* Nothing stands on the en passant square of the board.
BoardEmptyThere == board # NoBoard => IsBoard(board) /\ PassedOverIsEmpty(board)

\* A move is taken back exactly, in every position of every game whose first position has
\* nothing on its en passant square.  from_fen does not ask for that, and without it the
\* capture that ends there loses what stood there.
THEOREM MovesAreUndone ==
    ASSUME \A s \in Scenarios : PassedOverIsEmpty(FromFen(s.fen))
    PROVE  Spec => []UndoRestores
  <1>1. Init => BoardEmptyThere
    BY ScenariosAssumption, FromFenFields DEF Init, BoardEmptyThere
  <1>2. BoardEmptyThere /\ [Next]_vars => BoardEmptyThere'
    <2> SUFFICES ASSUME BoardEmptyThere, [Next]_vars PROVE BoardEmptyThere'
      OBVIOUS
    <2>1. CASE board # NoBoard /\ ReadMove
      BY <2>1, MoveRead, MadeBoard, PassedOver DEF BoardEmptyThere
    <2> QED BY <2>1, BoardSteps DEF BoardEmptyThere
  <1>3. BoardEmptyThere => UndoRestores
    BY UndoRestoresBoards DEF BoardEmptyThere, UndoRestores
  <1> QED BY <1>1, <1>2, <1>3, PTL DEF Spec

\* A right that is left is one whose king and rook no ply has touched.
BoardLawful ==
    /\ \E S : plies \in Seq(S)
    /\ board # NoBoard =>
         /\ IsBoard(board) /\ Lawful(board)
         /\ \A k \in Castlings : k.right \in board.rights =>
              \A i \in DOMAIN plies : {plies[i].move.from, plies[i].move.to} \cap {k.king, k.rook} = {}

\* Castling rights are earned in every game that starts from a lawful position; from_fen
\* takes any rights whatever stands at home.
THEOREM RightsAlwaysEarned ==
    ASSUME \A s \in Scenarios : Lawful(FromFen(s.fen))
    PROVE  Spec => []RightsAreEarned
  <1>1. Init => BoardLawful
    <2> SUFFICES ASSUME Init PROVE BoardLawful
      OBVIOUS
    <2>1. plies \in Seq({}) /\ DOMAIN plies = {}
      BY DEF Init
    <2>2. board # NoBoard => IsBoard(board) /\ Lawful(board)
      BY ScenariosAssumption, FromFenFields DEF Init
    <2> QED BY <2>1, <2>2 DEF BoardLawful
  <1>2. BoardLawful /\ [Next]_vars => BoardLawful'
    <2> SUFFICES ASSUME BoardLawful, [Next]_vars PROVE BoardLawful'
      OBVIOUS
    <2>1. CASE board # NoBoard /\ ReadMove
      <3>1. IsBoard(board) /\ Lawful(board)
        BY <2>1 DEF BoardLawful
      <3>2. PICK m \in LegalMoves(board) :
              /\ m \in PseudoLegalMoves(board)
              /\ board' = MakeMove(board, m)
              /\ \E p : plies' = Append(plies, p) /\ p.move = m
        BY <2>1, <3>1, MoveRead
      <3>3. PICK p : plies' = Append(plies, p) /\ p.move = m
        BY <3>2
      <3>4. PICK S : plies \in Seq(S)
        BY DEF BoardLawful
      <3>5. /\ plies' \in Seq(S \cup {p})
            /\ \A i \in DOMAIN plies' : (i \in DOMAIN plies /\ plies'[i] = plies[i]) \/ plies'[i] = p
        <4>1. plies \in Seq(S \cup {p})
          BY <3>4
        <4> QED BY <3>3, <4>1
      <3>6. IsBoard(board') /\ Lawful(board') /\ board'.rights = board.rights \ LostRights(board, m)
        BY <3>1, <3>2, MadeBoard, MadeLawful, MakeMoveFields
      <3>7. ASSUME NEW k \in Castlings, k.right \in board'.rights, NEW i \in DOMAIN plies'
            PROVE  {plies'[i].move.from, plies'[i].move.to} \cap {k.king, k.rook} = {}
        <4>1. k.right \in board.rights \ LostRights(board, m)
          BY <3>6, <3>7
        <4>2. m.from \notin {k.king, k.rook} /\ m.to \notin {k.king, k.rook}
          BY <3>1, <3>2, <4>1, RightsUntouched
        <4>3. \A j \in DOMAIN plies : {plies[j].move.from, plies[j].move.to} \cap {k.king, k.rook} = {}
          BY <2>1, <4>1 DEF BoardLawful
        <4> QED BY <3>3, <3>5, <4>2, <4>3
      <3> QED BY <3>5, <3>6, <3>7 DEF BoardLawful
    <2>2. CASE board' = NoBoard /\ board # NoBoard
      <3>1. EndText \/ ReadMove
        BY <2>2 DEF Next, vars, EndText, AskBegin, AskSubmit, AskFinalize, Send, GiveUp, ServeBegin, ServeSubmit,
           ReadGame, FinalizeRun, SaveReview, SaveNative, Restart
      <3> QED BY <2>1, <2>2, <3>1 DEF BoardLawful, EndText
    <2> QED BY <2>1, <2>2, BoardSteps DEF BoardLawful
  <1>3. BoardLawful => RightsAreEarned
    BY DEF BoardLawful, RightsAreEarned, Lawful, RightsHeld
  <1> QED BY <1>1, <1>2, <1>3, PTL DEF Spec

-----------------------------------------------------------------------------
(* The review: what tabs ask, what the runs hold, what a review was made of. *)

Stages == {"begin", "observe", "finalize", "complete", "failed"}
SubmitBy(t, o) == [kind |-> "submit", tab |-> t, observation |-> o]
Observed == {r.observation : r \in {x \in sent : x.kind = "submit"}}

\* Nobody asks before the game is stored.
Opening ==
    /\ scenario \in Scenarios /\ restarts \in Nat /\ (\E S : plies \in Seq(S))
    /\ DOMAIN finalizing = Tabs
    /\ ~Stored => /\ sent = {} /\ analysis = NoReview /\ tabs = [t \in Tabs |-> NewTab]
                  /\ finalizing = [t \in Tabs |-> NoHandler] /\ runs = <<>> /\ restarts = 0

\* A tab submits one observation for each sequence number, and the next only when the last
\* was acknowledged.
TabsAre ==
    /\ tabs \in [Tabs -> [stage : Stages, asked : sent \cup {NoRequest}, acks : Seq(Observed)]]
    /\ \A t \in Tabs :
         /\ tabs[t].stage = "failed" => tabs[t].asked = NoRequest
         /\ tabs[t].asked # NoRequest => tabs[t].asked.tab = t
         /\ tabs[t].asked.kind = "submit" => tabs[t].asked.observation.sequence = Len(tabs[t].acks)
         /\ Len(tabs[t].acks) <= Expected
         /\ \A i \in DOMAIN tabs[t].acks :
              tabs[t].acks[i].sequence = i - 1 /\ SubmitBy(t, tabs[t].acks[i]) \in sent
RequestsAre ==
    /\ \A r \in sent : r.tab \in Tabs /\ r.kind \in {"begin", "submit", "finalize"}
    /\ \A r \in sent : r.kind = "submit" =>
         /\ r = SubmitBy(r.tab, r.observation) /\ r.observation.sequence \in Nat
         /\ r.observation.sequence <= Len(tabs[r.tab].acks)
         /\ r.observation.sequence = Len(tabs[r.tab].acks) =>
              tabs[r.tab].asked = r \/ tabs[r.tab].stage = "failed"
    /\ \A r, x \in sent :
         r.kind = "submit" /\ x.kind = "submit" /\ r.tab = x.tab
           /\ r.observation.sequence = x.observation.sequence => r = x

\* Observation i of a bundle is number i of one of the tabs of the run.
KnownFor(run, s) ==
    /\ s \in Seq(Observed) /\ Len(s) <= Expected
    /\ \A i \in DOMAIN s :
         /\ s[i].sequence = i - 1
         /\ \E t \in Tabs : RunOf(t) = run /\ SubmitBy(t, s[i]) \in sent
RunsAre ==
    \A run \in DOMAIN runs :
      /\ runs[run] \in [expected : {Expected}, observations : Seq(Observed), finalized : BOOLEAN]
      /\ KnownFor(run, runs[run].observations)

\* While nothing is forgotten a run holds what its tabs were told it holds.
Kept ==
    NothingForgotten =>
      \A t \in Tabs : \A i \in DOMAIN tabs[t].acks :
        /\ RunOf(t) \in DOMAIN runs /\ i \in DOMAIN runs[RunOf(t)].observations
        /\ runs[RunOf(t)].observations[i] = tabs[t].acks[i]

\* A bundle that was taken from a run is the whole run, and still is if nothing is forgotten.
Taken(run, s) ==
    /\ KnownFor(run, s) /\ Len(s) = Expected
    /\ NothingForgotten => run \in DOMAIN runs /\ runs[run].observations = s
HandlersAre == \A t \in Tabs : finalizing[t].at = "staged" => Taken(RunOf(t), finalizing[t].bundle)
\* A review shows of every position what one bundle of its run says of it.
Shows(review, run, s) ==
    review.run = run /\ \A i \in DOMAIN s : \A n \in Places(s[i]) : review.lines[n] = s[i].line
Reviewed ==
    analysis \notin {NoReview, NativeReview} =>
      \E run, s : Shows(analysis, run, s) /\ Assembles(s) /\ Taken(run, s)

ReviewInv == Opening /\ TabsAre /\ RequestsAre /\ RunsAre /\ Kept /\ HandlersAre /\ Reviewed

LEMMA ReviewInit == Init => ReviewInv
  <1> SUFFICES ASSUME Init PROVE ReviewInv
    OBVIOUS
  <1>1. scenario \in Scenarios /\ plies = <<>> /\ restarts = 0 /\ sent = {} /\ runs = <<>>
        /\ tabs = [t \in Tabs |-> NewTab] /\ finalizing = [t \in Tabs |-> NoHandler] /\ analysis = NoReview
    BY DEF Init, InitStaging
  <1>2. plies \in Seq({}) /\ Len(plies) = 0 /\ DOMAIN runs = {}
    BY <1>1
  <1>3. Opening
    BY <1>1, <1>2 DEF Opening
  <1>4. \A t \in Tabs : tabs[t] = [stage |-> "begin", asked |-> NoRequest, acks |-> <<>>]
    BY <1>1 DEF NewTab
  <1>5. TabsAre
    <2>1. [stage |-> "begin", asked |-> NoRequest, acks |-> <<>>]
            \in [stage : Stages, asked : sent \cup {NoRequest}, acks : Seq(Observed)]
      BY DEF Stages
    <2>2. tabs \in [Tabs -> [stage : Stages, asked : sent \cup {NoRequest}, acks : Seq(Observed)]]
      BY <1>1, <2>1 DEF NewTab
    <2> QED BY <1>2, <1>4, <2>2 DEF TabsAre, NoRequest, Expected
  <1>6. RequestsAre /\ RunsAre
    BY <1>1, <1>2 DEF RequestsAre, RunsAre
  <1>7. Kept
    BY <1>4 DEF Kept
  <1>8. HandlersAre /\ Reviewed
    BY <1>1 DEF HandlersAre, Reviewed, NoHandler
  <1> QED BY <1>3, <1>5, <1>6, <1>7, <1>8 DEF ReviewInv

-----------------------------------------------------------------------------
(* What a step leaves as it is.                                             *)

\* Before the game is stored only the game changes.
LEMMA BeforeStored ==
    ASSUME ReviewInv, [Next]_vars, ~Stored
    PROVE  ReviewInv'
  <1>1. sent = {} /\ analysis = NoReview /\ tabs = [t \in Tabs |-> NewTab]
        /\ finalizing = [t \in Tabs |-> NoHandler] /\ runs = <<>> /\ restarts = 0
    BY DEF ReviewInv, Opening
  <1>2. UNCHANGED <<scenario, analysis, tabs, sent, finalizing, restarts, durable, runs>>
    BY <1>1 DEF Next, vars, ReadMove, EndText, AskBegin, AskSubmit, AskFinalize, Idle, GiveUp, SaveNative, Restart, Stored
  <1>3. \E S : plies' \in Seq(S)
    <2>1. PICK S : plies \in Seq(S)
      BY DEF ReviewInv, Opening
    <2>2. plies' = plies \/ \E p : plies' = Append(plies, p)
      BY <1>1 DEF Next, vars, ReadMove, EndText, AskBegin, AskSubmit, AskFinalize, Idle, GiveUp, SaveNative, Restart, Stored
    <2>3. ASSUME NEW p, plies' = Append(plies, p) PROVE plies' \in Seq(S \cup {p})
      <3>1. plies \in Seq(S \cup {p})
        BY <2>1
      <3> QED BY <2>3, <3>1
    <2> QED BY <2>1, <2>2, <2>3
  <1>4. Expected' \in Nat
    BY <1>3 DEF Expected
  <1>5. Opening'
    BY <1>1, <1>2, <1>3 DEF ReviewInv, Opening
  <1>6. \A t \in Tabs : tabs'[t] = [stage |-> "begin", asked |-> NoRequest, acks |-> <<>>]
    BY <1>1, <1>2 DEF NewTab
  <1>7. TabsAre'
    <2>1. tabs' \in [Tabs -> [stage : Stages, asked : sent' \cup {NoRequest}, acks : Seq(Observed')]]
      BY <1>2 DEF ReviewInv, TabsAre, Observed
    <2> QED BY <1>4, <1>6, <2>1 DEF TabsAre, NoRequest
  <1>8. RequestsAre' /\ RunsAre'
    BY <1>1, <1>2 DEF RequestsAre, RunsAre
  <1>9. Kept'
    BY <1>6 DEF Kept
  <1>10. HandlersAre' /\ Reviewed'
    BY <1>1, <1>2 DEF HandlersAre, Reviewed, NoHandler
  <1> QED BY <1>5, <1>7, <1>8, <1>9, <1>10 DEF ReviewInv

Unmoved == UNCHANGED <<scenario, board, plies, verdicts, durable>>
\* A run only gains observations, and none once it has all it expects.
RunsGrow ==
    \A run \in DOMAIN runs :
      /\ run \in DOMAIN runs'
      /\ \A i \in DOMAIN runs[run].observations :
           /\ i \in DOMAIN runs'[run].observations
           /\ runs'[run].observations[i] = runs[run].observations[i]
      /\ Len(runs[run].observations) = Expected => runs'[run].observations = runs[run].observations

LEMMA ExpectedIsNat == Opening => Expected \in Nat
  BY DEF Opening, Expected

\* Registering, submitting and finalizing, as they change the runs.
LEMMA RegisteredGrows ==
    ASSUME RunsAre, NEW run, runs' = Registered(run, Expected), Expected \in Nat, UNCHANGED <<plies, sent, scenario>>
    PROVE  RunsGrow /\ RunsAre'
  <1>1. /\ DOMAIN runs' = DOMAIN runs \cup {run}
        /\ \A x \in DOMAIN runs : runs'[x] = runs[x]
        /\ run \notin DOMAIN runs => runs'[run] = NewRun(Expected)
    BY DEF Registered
  <1>2. RunsGrow
    BY <1>1 DEF RunsGrow
  <1>3. Expected' = Expected /\ Observed' = Observed /\ \A x, s : KnownFor(x, s) => KnownFor(x, s)'
    BY DEF Expected, Observed, KnownFor, RunOf
  <1> DEFINE R(o) == [expected : {Expected}, observations : Seq(o), finalized : BOOLEAN]
  <1>4. NewRun(Expected) \in R(Observed) /\ NewRun(Expected).observations = <<>>
    BY DEF NewRun
  <1>5. KnownFor(run, <<>>)
    BY DEF KnownFor
  <1>6. ASSUME NEW x \in DOMAIN runs'
        PROVE  runs'[x] \in R(Observed) /\ KnownFor(x, runs'[x].observations)
    <2>1. CASE x \in DOMAIN runs
      BY <1>1, <2>1 DEF RunsAre
    <2>2. CASE x \notin DOMAIN runs
      BY <1>1, <1>4, <1>5, <1>6, <2>2
    <2> QED BY <2>1, <2>2
  <1>7. ASSUME NEW x \in DOMAIN runs'
        PROVE  KnownFor(x, runs[x].observations)' /\ (runs'[x] \in R(Observed'))
    <2> DEFINE s == runs'[x].observations
    <2>1. KnownFor(x, s) /\ runs'[x] \in R(Observed)
      BY <1>6, <1>7
    <2> HIDE DEF R
    <2> QED BY <1>3, <2>1 DEF KnownFor, RunOf
  <1> QED BY <1>2, <1>3, <1>7 DEF RunsAre

LEMMA FinalizedGrows ==
    ASSUME RunsAre, NEW run \in DOMAIN runs, runs' = Finalized(run), UNCHANGED <<plies, sent, scenario>>
    PROVE  /\ RunsGrow /\ RunsAre' /\ DOMAIN runs' = DOMAIN runs
           /\ \A x \in DOMAIN runs : runs'[x].observations = runs[x].observations
  <1> DEFINE R(o) == [expected : {Expected}, observations : Seq(o), finalized : BOOLEAN]
  <1>1. \A x \in DOMAIN runs : runs[x] \in R(Observed) /\ KnownFor(x, runs[x].observations)
    BY DEF RunsAre
  <1>2. /\ DOMAIN runs' = DOMAIN runs
        /\ \A x \in DOMAIN runs : /\ runs'[x].observations = runs[x].observations
                                  /\ runs'[x] \in R(Observed)
    BY <1>1 DEF Finalized
  <1>3. Expected' = Expected /\ Observed' = Observed
    BY DEF Expected, Observed
  <1>4. RunsGrow
    BY <1>2 DEF RunsGrow
  <1>5. \A x \in DOMAIN runs : KnownFor(x, runs[x].observations)'
    BY <1>1, <1>2, <1>3 DEF KnownFor, RunOf
  <1> QED BY <1>2, <1>3, <1>4, <1>5 DEF RunsAre

\* What is taken: the next observation of a run that is not full, from one of its tabs.
LEMMA SubmittedGrows ==
    ASSUME RunsAre, Expected \in Nat, UNCHANGED <<plies, sent, scenario>>,
           NEW t \in Tabs, NEW o, SubmitBy(t, o) \in sent, o.sequence \in Nat,
           runs' = Submitted(RunOf(t), o)
    PROVE  /\ RunsGrow /\ RunsAre'
           /\ Receipt(RunOf(t), o) \in {"accepted", "duplicate"} =>
                /\ RunOf(t) \in DOMAIN runs' /\ o.sequence + 1 \in DOMAIN runs'[RunOf(t)].observations
                /\ runs'[RunOf(t)].observations[o.sequence + 1] = o
  <1> DEFINE run == RunOf(t)
             s == runs[run].observations
             R(x) == [expected : {Expected}, observations : Seq(x), finalized : BOOLEAN]
  <1>1. Expected' = Expected /\ Observed' = Observed /\ (\A x, y : KnownFor(x, y) => KnownFor(x, y)')
    BY DEF Expected, Observed, KnownFor, RunOf
  <1>2. o \in Observed
    BY DEF Observed, SubmitBy
  <1>3. CASE Receipt(run, o) = "accepted"
    <2>1. run \in DOMAIN runs /\ runs[run] \in R(Observed) /\ KnownFor(run, s)
      <3>1. run \in DOMAIN runs
        BY <1>3 DEF Receipt
      <3> QED BY <3>1 DEF RunsAre
    <2>2. s \in Seq(Observed) /\ Len(s) \in Nat /\ o.sequence = Len(s) /\ Len(s) < Expected
      <3>1. s \in Seq(Observed) /\ runs[run].expected = Expected
        BY <2>1
      <3>2. Len(s) \in Nat
        BY <3>1
      <3>3. ~(o.sequence < Len(s))
        BY <1>3, <2>1 DEF Receipt, Replay
      <3>4. ~(Len(s) >= runs[run].expected) /\ o.sequence = Len(s)
        BY <1>3, <2>1, <3>3 DEF Receipt
      <3> QED BY <3>1, <3>2, <3>4
    <2>3. /\ DOMAIN runs' = DOMAIN runs
          /\ runs'[run] = [runs[run] EXCEPT !.observations = Append(s, o)]
          /\ \A x \in DOMAIN runs : x # run => runs'[x] = runs[x]
      BY <1>3, <2>1 DEF Submitted
    <2> DEFINE a == Append(s, o)
    <2>4. a \in Seq(Observed) /\ Len(a) = Len(s) + 1 /\ a[Len(s) + 1] = o
          /\ DOMAIN a = 1..(Len(s) + 1) /\ \A i \in DOMAIN s : i \in DOMAIN a /\ a[i] = s[i]
      BY <1>2, <2>2
    <2>5. runs'[run].observations = a /\ runs'[run] \in R(Observed)
      BY <2>1, <2>3, <2>4
    <2> HIDE DEF a
    <2>6. KnownFor(run, a)
      <3>1. \A i \in DOMAIN a : i \in DOMAIN s \/ i = Len(s) + 1
        BY <2>2, <2>4
      <3>2. ASSUME NEW i \in DOMAIN a
            PROVE  a[i].sequence = i - 1 /\ \E z \in Tabs : RunOf(z) = run /\ SubmitBy(z, a[i]) \in sent
        <4>1. CASE i \in DOMAIN s
          BY <2>1, <2>4, <4>1 DEF KnownFor
        <4>2. CASE i = Len(s) + 1
          BY <2>2, <2>4, <4>2
        <4> QED BY <3>1, <3>2, <4>1, <4>2
      <3> QED BY <2>2, <2>4, <3>2 DEF KnownFor
    <2> HIDE DEF R, run, s
    <2>7. RunsGrow
      <3>1. Len(s) # Expected
        BY <2>2
      <3>2. \A i \in DOMAIN s : i \in DOMAIN a /\ a[i] = s[i]
        BY <2>4
      <3>3. \A x \in DOMAIN runs : x \in DOMAIN runs' /\ (x # run => runs'[x] = runs[x])
        BY <2>3
      <3> QED BY <2>5, <3>1, <3>2, <3>3 DEF RunsGrow, s
    <2>8. ASSUME NEW x \in DOMAIN runs'
          PROVE  runs'[x] \in R(Observed) /\ KnownFor(x, runs'[x].observations)
      BY <2>3, <2>5, <2>6, <2>8 DEF RunsAre, R
    <2>9. RunsAre'
      BY <1>1, <2>8 DEF RunsAre, R
    <2>10. o.sequence + 1 \in DOMAIN a /\ a[o.sequence + 1] = o
      BY <2>2, <2>4
    <2> QED BY <2>1, <2>3, <2>5, <2>7, <2>9, <2>10 DEF run
  <1>4. CASE Receipt(run, o) # "accepted"
    <2>1. runs' = runs
      BY <1>4 DEF Submitted
    <2>2. RunsGrow
      BY <2>1 DEF RunsGrow
    <2>3. RunsAre'
      BY <1>1, <2>1 DEF RunsAre
    <2>4. ASSUME Receipt(run, o) = "duplicate"
          PROVE  run \in DOMAIN runs /\ o.sequence + 1 \in DOMAIN s /\ s[o.sequence + 1] = o
      <3>1. run \in DOMAIN runs
        BY <2>4 DEF Receipt
      <3>2. s \in Seq(Observed)
        BY <3>1 DEF RunsAre
      <3>3. o.sequence < Len(s) /\ Replay(s[o.sequence + 1], o) = "duplicate"
        BY <2>4, <3>1 DEF Receipt
      <3>4. s[o.sequence + 1] = o
        BY <3>3 DEF Replay
      <3> QED BY <3>1, <3>2, <3>3, <3>4
    <2> QED BY <1>4, <2>1, <2>2, <2>3, <2>4
  <1> QED BY <1>3, <1>4

TabRecords == [stage : Stages, asked : sent \cup {NoRequest}, acks : Seq(Observed)]

\* A tab that waits for nothing asks: its earlier submits were all acknowledged.
LEMMA AskStep ==
    ASSUME TabsAre, RequestsAre, NEW t \in Tabs,
           tabs[t].stage # "failed", tabs[t].asked = NoRequest,
           NEW q, Send(t, q), q.tab = t, q.kind \in {"begin", "submit", "finalize"},
           q.kind = "submit" => /\ q = SubmitBy(t, q.observation)
                                /\ q.observation.sequence = Len(tabs[t].acks)
    PROVE  TabsAre' /\ RequestsAre' /\ \A u \in Tabs : tabs'[u].acks = tabs[u].acks
  <1>1. sent' = sent \cup {q} /\ plies' = plies
    BY DEF Send
  <1>2. Observed \subseteq Observed' /\ Expected' = Expected
    BY <1>1 DEF Observed, Expected
  <1>3. tabs \in [Tabs -> TabRecords]
    BY DEF TabsAre, TabRecords
  <1>4. /\ DOMAIN tabs' = Tabs /\ \A u \in Tabs : u # t => tabs'[u] = tabs[u]
        /\ tabs' \in [Tabs -> [stage : Stages, asked : sent' \cup {NoRequest}, acks : Seq(Observed')]]
        /\ tabs'[t].stage = tabs[t].stage /\ tabs'[t].asked = q /\ tabs'[t].acks = tabs[t].acks
    <2> DEFINE n == [stage |-> tabs[t].stage, asked |-> q, acks |-> tabs[t].acks]
    <2>1. tabs' = [tabs EXCEPT ![t] = n]
      <3>1. tabs' = [tabs EXCEPT ![t].asked = q]
        BY DEF Send
      <3>2. tabs[t] \in TabRecords
        BY <1>3
      <3>3. [tabs[t] EXCEPT !.asked = q] = n
        BY <3>2 DEF TabRecords
      <3> HIDE DEF n
      <3> QED BY <3>1, <3>3
    <2>2. \A u \in Tabs : tabs[u] \in [stage : Stages, asked : sent' \cup {NoRequest}, acks : Seq(Observed')]
      <3>1. Seq(Observed) \subseteq Seq(Observed')
        BY <1>2
      <3> QED BY <1>1, <1>3, <3>1 DEF TabRecords
    <2>3. n \in [stage : Stages, asked : sent' \cup {NoRequest}, acks : Seq(Observed')]
      BY <1>1, <2>2
    <2>4. n.stage = tabs[t].stage /\ n.asked = q /\ n.acks = tabs[t].acks
      OBVIOUS
    <2> HIDE DEF n
    <2> QED BY <1>3, <2>1, <2>2, <2>3, <2>4
  <1>5. \A u \in Tabs : tabs'[u].acks = tabs[u].acks /\ (u # t => tabs'[u] = tabs[u])
    BY <1>4
  <1>6. TabsAre'
    <2> SUFFICES ASSUME NEW u \in Tabs
                 PROVE  /\ tabs'[u].stage = "failed" => tabs'[u].asked = NoRequest
                        /\ tabs'[u].asked # NoRequest => tabs'[u].asked.tab = u
                        /\ tabs'[u].asked.kind = "submit" =>
                             tabs'[u].asked.observation.sequence = Len(tabs'[u].acks)
                        /\ Len(tabs'[u].acks) <= Expected'
                        /\ \A i \in DOMAIN tabs'[u].acks :
                             tabs'[u].acks[i].sequence = i - 1 /\ SubmitBy(u, tabs'[u].acks[i]) \in sent'
      BY <1>4 DEF TabsAre
    <2>1. /\ Len(tabs'[u].acks) <= Expected'
          /\ \A i \in DOMAIN tabs'[u].acks :
               tabs'[u].acks[i].sequence = i - 1 /\ SubmitBy(u, tabs'[u].acks[i]) \in sent'
      BY <1>1, <1>2, <1>5 DEF TabsAre
    <2>2. CASE u = t
      BY <1>4, <2>1, <2>2
    <2>3. CASE u # t
      BY <1>5, <2>1, <2>3 DEF TabsAre
    <2> QED BY <2>2, <2>3
  <1>7. Len(tabs[t].acks) \in Nat
    BY <1>3 DEF TabRecords
  <1>8. ASSUME NEW x \in sent, x.kind = "submit", x.tab = t
        PROVE  x.observation.sequence # Len(tabs[t].acks)
    <2>1. x # NoRequest
      BY <1>8 DEF NoRequest
    <2> QED BY <1>8, <2>1 DEF RequestsAre
  <1>9. RequestsAre'
    <2>1. ASSUME NEW r \in sent' PROVE r.tab \in Tabs /\ r.kind \in {"begin", "submit", "finalize"}
      BY <1>1, <2>1 DEF RequestsAre
    <2>2. ASSUME NEW r \in sent', r.kind = "submit"
          PROVE  /\ r = SubmitBy(r.tab, r.observation) /\ r.observation.sequence \in Nat
                 /\ r.observation.sequence <= Len(tabs'[r.tab].acks)
                 /\ r.observation.sequence = Len(tabs'[r.tab].acks) =>
                      tabs'[r.tab].asked = r \/ tabs'[r.tab].stage = "failed"
      <3>1. CASE r = q
        BY <1>4, <1>5, <1>7, <2>2, <3>1
      <3>2. CASE r \in sent
        <4>1. r.tab \in Tabs
          BY <3>2 DEF RequestsAre
        <4>2. /\ r = SubmitBy(r.tab, r.observation) /\ r.observation.sequence \in Nat
              /\ r.observation.sequence <= Len(tabs'[r.tab].acks)
          BY <1>5, <2>2, <3>2, <4>1 DEF RequestsAre
        <4>3. r.observation.sequence = Len(tabs'[r.tab].acks) => r.tab # t
          BY <1>5, <1>8, <2>2, <3>2, <4>1
        <4> QED BY <1>5, <2>2, <3>2, <4>1, <4>2, <4>3 DEF RequestsAre
      <3> QED BY <1>1, <3>1, <3>2
    <2>3. ASSUME NEW r \in sent', NEW x \in sent', r.kind = "submit", x.kind = "submit", r.tab = x.tab,
                 r.observation.sequence = x.observation.sequence
          PROVE  r = x
      BY <1>1, <1>8, <2>3 DEF RequestsAre
    <2> QED BY <2>1, <2>2, <2>3 DEF RequestsAre
  <1> QED BY <1>5, <1>6, <1>9

\* What an answer makes of the tab that waits for it.
LEMMA AnswerIs ==
    ASSUME TabsAre, NEW r \in sent, r.tab \in Tabs, NEW ok, Answer(r, ok)
    PROVE  \/ tabs' = tabs
           \/ \E n : /\ tabs' = [tabs EXCEPT ![r.tab] = n] /\ tabs[r.tab].asked = r
                     /\ n = [stage |-> n.stage, asked |-> NoRequest, acks |-> n.acks]
                     /\ n.stage \in Stages
                     /\ \/ n.acks = tabs[r.tab].acks /\ (ok /\ r.kind = "submit" => FALSE)
                        \/ ok /\ r.kind = "submit" /\ n.acks = Append(tabs[r.tab].acks, r.observation)
  <1> DEFINE tab == tabs[r.tab]
             n == IF ok THEN Progress(tab, r) ELSE [tab EXCEPT !.stage = "failed", !.asked = NoRequest]
  <1>1. CASE tab.asked # r
    BY <1>1 DEF Answer
  <1>2. CASE tab.asked = r
    <2>1. tabs' = [tabs EXCEPT ![r.tab] = n]
      BY <1>2 DEF Answer
    <2>2. tab \in TabRecords
      BY DEF TabsAre, TabRecords
    <2>3. n = [stage |-> n.stage, asked |-> NoRequest, acks |-> n.acks] /\ n.stage \in Stages
      BY <2>2 DEF TabRecords, Progress, Stages
    <2>4. \/ n.acks = tab.acks /\ (ok /\ r.kind = "submit" => FALSE)
          \/ ok /\ r.kind = "submit" /\ n.acks = Append(tab.acks, r.observation)
      BY <2>2 DEF TabRecords, Progress
    <2> HIDE DEF n
    <2> QED BY <1>2, <2>1, <2>3, <2>4
  <1> QED BY <1>1, <1>2

\* One tab gets a new record, waits for nothing, and has at most one acknowledgement more.
LEMMA TabStep ==
    ASSUME TabsAre, RequestsAre, Expected \in Nat, UNCHANGED <<plies, sent>>,
           NEW t \in Tabs, NEW n, tabs' = [tabs EXCEPT ![t] = n],
           n = [stage |-> n.stage, asked |-> NoRequest, acks |-> n.acks], n.stage \in Stages,
           \/ n.acks = tabs[t].acks /\ (tabs[t].asked.kind = "submit" => n.stage = "failed")
                /\ (tabs[t].stage = "failed" => n.stage = "failed")
           \/ /\ tabs[t].asked \in sent /\ tabs[t].asked.kind = "submit"
              /\ n.acks = Append(tabs[t].acks, tabs[t].asked.observation)
              /\ tabs[t].asked.observation.sequence < Expected
    PROVE  TabsAre' /\ RequestsAre'
  <1>1. Observed' = Observed /\ Expected' = Expected /\ sent' = sent
    BY DEF Observed, Expected
  <1>2. tabs \in [Tabs -> TabRecords]
    BY DEF TabsAre, TabRecords
  <1>3. tabs[t].acks \in Seq(Observed) /\ Len(tabs[t].acks) \in Nat
    BY <1>2 DEF TabRecords
  <1>4. /\ DOMAIN tabs' = Tabs /\ tabs'[t] = n /\ \A u \in Tabs : u # t => tabs'[u] = tabs[u]
    BY <1>2
  <1> DEFINE q == tabs[t].asked
  <1>5. CASE n.acks = tabs[t].acks /\ (q.kind = "submit" => n.stage = "failed")
               /\ (tabs[t].stage = "failed" => n.stage = "failed")
    <2>1. n \in TabRecords
      BY <1>3, <1>5 DEF TabRecords
    <2>2. tabs' \in [Tabs -> TabRecords]
      BY <1>2, <1>4, <2>1
    <2>3. TabsAre'
      <3>1. tabs' \in [Tabs -> [stage : Stages, asked : sent' \cup {NoRequest}, acks : Seq(Observed')]]
        BY <1>1, <2>2 DEF TabRecords
      <3>2. ASSUME NEW u \in Tabs
            PROVE  /\ tabs'[u].stage = "failed" => tabs'[u].asked = NoRequest
                   /\ tabs'[u].asked # NoRequest => tabs'[u].asked.tab = u
                   /\ tabs'[u].asked.kind = "submit" =>
                        tabs'[u].asked.observation.sequence = Len(tabs'[u].acks)
                   /\ Len(tabs'[u].acks) <= Expected'
                   /\ \A i \in DOMAIN tabs'[u].acks :
                        tabs'[u].acks[i].sequence = i - 1 /\ SubmitBy(u, tabs'[u].acks[i]) \in sent'
        <4>1. CASE u # t
          BY <1>1, <1>4, <4>1 DEF TabsAre
        <4>2. CASE u = t
          <5>1. n.asked = NoRequest /\ NoRequest.kind # "submit"
            BY DEF NoRequest
          <5> QED BY <1>1, <1>4, <1>5, <4>2, <5>1 DEF TabsAre
        <4> QED BY <4>1, <4>2
      <3> QED BY <3>1, <3>2 DEF TabsAre
    <2>4. RequestsAre'
      <3>1. ASSUME NEW r \in sent, r.kind = "submit"
            PROVE  /\ r.observation.sequence <= Len(tabs'[r.tab].acks)
                   /\ r.observation.sequence = Len(tabs'[r.tab].acks) =>
                        tabs'[r.tab].asked = r \/ tabs'[r.tab].stage = "failed"
        <4>1. r.tab \in Tabs
          BY DEF RequestsAre
        <4>2. CASE r.tab # t
          BY <1>4, <3>1, <4>1, <4>2 DEF RequestsAre
        <4>3. CASE r.tab = t
          <5>1. r.observation.sequence <= Len(n.acks)
            BY <1>5, <3>1, <4>3 DEF RequestsAre
          <5>2. r.observation.sequence = Len(n.acks) => q = r \/ tabs[t].stage = "failed"
            BY <1>5, <3>1, <4>3 DEF RequestsAre
          <5> QED BY <1>4, <1>5, <3>1, <4>3, <5>1, <5>2
        <4> QED BY <4>2, <4>3
      <3> QED BY <1>1, <3>1 DEF RequestsAre
    <2> QED BY <2>3, <2>4
  <1>6. CASE /\ q \in sent /\ q.kind = "submit"
             /\ n.acks = Append(tabs[t].acks, q.observation)
             /\ q.observation.sequence < Expected
    <2> DEFINE s == tabs[t].acks
               o == q.observation
    <2>1. o \in Observed /\ o.sequence = Len(s) /\ q = SubmitBy(q.tab, o) /\ q.tab = t
      <3>1. q # NoRequest
        BY <1>6 DEF NoRequest
      <3> QED BY <1>6, <3>1 DEF Observed, TabsAre, RequestsAre
    <2>2. /\ n.acks \in Seq(Observed) /\ Len(n.acks) = Len(s) + 1 /\ n.acks[Len(s) + 1] = o
          /\ \A i \in DOMAIN n.acks : i = Len(s) + 1 \/ (i \in DOMAIN s /\ n.acks[i] = s[i])
      BY <1>3, <1>6, <2>1
    <2>3. n \in TabRecords
      BY <2>2 DEF TabRecords
    <2>4. tabs' \in [Tabs -> TabRecords]
      BY <1>2, <1>4, <2>3
    <2>5. TabsAre'
      <3>1. tabs' \in [Tabs -> [stage : Stages, asked : sent' \cup {NoRequest}, acks : Seq(Observed')]]
        BY <1>1, <2>4 DEF TabRecords
      <3>2. ASSUME NEW u \in Tabs
            PROVE  /\ tabs'[u].stage = "failed" => tabs'[u].asked = NoRequest
                   /\ tabs'[u].asked # NoRequest => tabs'[u].asked.tab = u
                   /\ tabs'[u].asked.kind = "submit" =>
                        tabs'[u].asked.observation.sequence = Len(tabs'[u].acks)
                   /\ Len(tabs'[u].acks) <= Expected'
                   /\ \A i \in DOMAIN tabs'[u].acks :
                        tabs'[u].acks[i].sequence = i - 1 /\ SubmitBy(u, tabs'[u].acks[i]) \in sent'
        <4>1. CASE u # t
          BY <1>1, <1>4, <4>1 DEF TabsAre
        <4>2. CASE u = t
          <5>1. n.asked = NoRequest /\ NoRequest.kind # "submit"
            BY DEF NoRequest
          <5>2. Len(n.acks) <= Expected
            BY <1>3, <1>6, <2>1, <2>2
          <5>3. ASSUME NEW i \in DOMAIN n.acks
                PROVE  n.acks[i].sequence = i - 1 /\ SubmitBy(t, n.acks[i]) \in sent
            <6>1. CASE i = Len(s) + 1
              BY <1>3, <1>6, <2>1, <2>2, <6>1
            <6>2. CASE i \in DOMAIN s /\ n.acks[i] = s[i]
              BY <6>2 DEF TabsAre
            <6> QED BY <2>2, <5>3, <6>1, <6>2
          <5> QED BY <1>1, <1>4, <4>2, <5>1, <5>2, <5>3
        <4> QED BY <4>1, <4>2
      <3> QED BY <3>1, <3>2 DEF TabsAre
    <2>6. RequestsAre'
      <3>1. ASSUME NEW r \in sent, r.kind = "submit"
            PROVE  /\ r.observation.sequence <= Len(tabs'[r.tab].acks)
                   /\ r.observation.sequence = Len(tabs'[r.tab].acks) =>
                        tabs'[r.tab].asked = r \/ tabs'[r.tab].stage = "failed"
        <4>1. r.tab \in Tabs
          BY DEF RequestsAre
        <4>2. CASE r.tab # t
          BY <1>4, <3>1, <4>1, <4>2 DEF RequestsAre
        <4>3. CASE r.tab = t
          <5>1. r.observation.sequence <= Len(s) /\ r.observation.sequence \in Nat
            BY <3>1, <4>3 DEF RequestsAre
          <5> QED BY <1>3, <1>4, <2>2, <4>3, <5>1
        <4> QED BY <4>2, <4>3
      <3> QED BY <1>1, <3>1 DEF RequestsAre
    <2> QED BY <2>5, <2>6
  <1> QED BY <1>5, <1>6

LEMMA AnswerStep ==
    ASSUME TabsAre, RequestsAre, Expected \in Nat, UNCHANGED <<plies, sent>>,
           NEW r \in sent, NEW ok, Answer(r, ok),
           ok /\ r.kind = "submit" => r.observation.sequence < Expected
    PROVE  /\ TabsAre' /\ RequestsAre'
           /\ \A u \in Tabs :
                \/ tabs'[u].acks = tabs[u].acks
                \/ /\ ok /\ r.kind = "submit" /\ u = r.tab
                   /\ r.observation.sequence = Len(tabs[u].acks)
                   /\ tabs'[u].acks = Append(tabs[u].acks, r.observation)
  <1>1. r.tab \in Tabs
    BY DEF RequestsAre
  <1>2. CASE tabs' = tabs
    <2>1. Observed' = Observed /\ Expected' = Expected /\ sent' = sent
      BY DEF Observed, Expected
    <2> QED BY <1>2, <2>1 DEF TabsAre, RequestsAre
  <1>3. ASSUME NEW n, tabs' = [tabs EXCEPT ![r.tab] = n], tabs[r.tab].asked = r,
               n = [stage |-> n.stage, asked |-> NoRequest, acks |-> n.acks], n.stage \in Stages,
               \/ n.acks = tabs[r.tab].acks /\ (ok /\ r.kind = "submit" => FALSE)
               \/ ok /\ r.kind = "submit" /\ n.acks = Append(tabs[r.tab].acks, r.observation),
               r.kind = "submit" => ok \/ n.stage = "failed"
        PROVE  /\ TabsAre' /\ RequestsAre'
               /\ \A u \in Tabs :
                    \/ tabs'[u].acks = tabs[u].acks
                    \/ /\ ok /\ r.kind = "submit" /\ u = r.tab
                       /\ r.observation.sequence = Len(tabs[u].acks)
                       /\ tabs'[u].acks = Append(tabs[u].acks, r.observation)
    <2>1. r # NoRequest
      BY DEF RequestsAre, NoRequest
    <2>2. tabs[r.tab].stage # "failed"
      BY <1>1, <1>3, <2>1 DEF TabsAre
    <2>3. TabsAre' /\ RequestsAre'
      <3>1. \/ n.acks = tabs[r.tab].acks /\ (tabs[r.tab].asked.kind = "submit" => n.stage = "failed")
                 /\ (tabs[r.tab].stage = "failed" => n.stage = "failed")
            \/ /\ tabs[r.tab].asked \in sent /\ tabs[r.tab].asked.kind = "submit"
               /\ n.acks = Append(tabs[r.tab].acks, tabs[r.tab].asked.observation)
               /\ tabs[r.tab].asked.observation.sequence < Expected
        BY <1>3, <2>2
      <3> QED BY <1>1, <1>3, <3>1, TabStep
    <2>4. \A u \in Tabs : tabs'[u] = IF u = r.tab THEN n ELSE tabs[u]
      BY <1>3 DEF TabsAre
    <2>5. r.kind = "submit" => r.observation.sequence = Len(tabs[r.tab].acks)
      BY <1>1, <1>3 DEF TabsAre
    <2> QED BY <1>3, <2>3, <2>4, <2>5
  <1>4. CASE tabs' # tabs
    <2> DEFINE n == IF ok THEN Progress(tabs[r.tab], r)
                    ELSE [tabs[r.tab] EXCEPT !.stage = "failed", !.asked = NoRequest]
    <2>1. PICK m : /\ tabs' = [tabs EXCEPT ![r.tab] = m] /\ tabs[r.tab].asked = r
                   /\ m = [stage |-> m.stage, asked |-> NoRequest, acks |-> m.acks]
                   /\ m.stage \in Stages
                   /\ \/ m.acks = tabs[r.tab].acks /\ (ok /\ r.kind = "submit" => FALSE)
                      \/ ok /\ r.kind = "submit" /\ m.acks = Append(tabs[r.tab].acks, r.observation)
      BY <1>1, <1>4, AnswerIs
    <2>2. r.kind = "submit" => ok \/ m.stage = "failed"
      <3>1. tabs[r.tab] \in TabRecords /\ DOMAIN tabs = Tabs
        BY <1>1 DEF TabsAre, TabRecords
      <3>2. ~ok => tabs' = [tabs EXCEPT ![r.tab] = [tabs[r.tab] EXCEPT !.stage = "failed", !.asked = NoRequest]]
        BY <2>1 DEF Answer
      <3>3. tabs'[r.tab] = m
        BY <1>1, <2>1, <3>1
      <3>4. ~ok => tabs'[r.tab].stage = "failed"
        BY <1>1, <3>1, <3>2 DEF TabRecords
      <3> QED BY <3>3, <3>4
    <2> QED BY <1>3, <2>1, <2>2
  <1> QED BY <1>2, <1>4

\* A stored game stays as it is, what was sent stays sent.
LEMMA StoredStays ==
    ASSUME Stored, [Next]_vars
    PROVE  /\ UNCHANGED <<scenario, board, plies, verdicts, durable>> /\ Stored' /\ sent \subseteq sent'
           /\ restarts' = restarts \/ Restart
  BY DEF Stored, Next, vars, ReadMove, EndText, AskBegin, AskSubmit, AskFinalize, Send, GiveUp, ServeBegin, ServeSubmit,
         ReadGame, FinalizeRun, SaveReview, SaveNative, Restart

LEMMA KnownStays ==
    ASSUME UNCHANGED <<scenario, plies>>, sent \subseteq sent', NEW run, NEW s, KnownFor(run, s)
    PROVE  KnownFor(run, s)'
  <1>1. Observed \subseteq Observed' /\ Expected' = Expected
    BY DEF Observed, Expected
  <1>2. s \in Seq(Observed')
    BY <1>1 DEF KnownFor
  <1> QED BY <1>1, <1>2 DEF KnownFor, RunOf

\* What ServeSubmit takes is an observation of a request that was sent.
LEMMA SubmitFacts ==
    ASSUME RequestsAre, NEW r \in sent, r.kind = "submit"
    PROVE  r.tab \in Tabs /\ SubmitBy(r.tab, r.observation) \in sent /\ r.observation.sequence \in Nat
  BY DEF RequestsAre

LEMMA RunsStep ==
    ASSUME Opening, RequestsAre, RunsAre, Stored, [Next]_vars
    PROVE  /\ RunsAre'
           /\ NothingForgotten' => NothingForgotten /\ RunsGrow
  <1>1. /\ UNCHANGED <<scenario, plies, durable>> /\ sent \subseteq sent'
        /\ restarts' = restarts \/ Restart
    BY StoredStays
  <1>2. Expected \in Nat /\ Expected' = Expected /\ Observed \subseteq Observed'
    BY <1>1, ExpectedIsNat DEF Expected, Observed
  <1>3. NothingForgotten' => NothingForgotten /\ (Restart => durable)
    <2>1. Restart => restarts' = restarts + 1 /\ restarts \in Nat
      BY DEF Restart, Opening
    <2>2. Restart => restarts' # 0
      BY <2>1
    <2> QED BY <1>1, <2>2 DEF NothingForgotten
  <1>4. CASE runs' = runs
    <2>1. RunsGrow
      BY <1>4 DEF RunsGrow
    <2>2. ASSUME NEW run \in DOMAIN runs
          PROVE  /\ runs[run] \in [expected : {Expected'}, observations : Seq(Observed'), finalized : BOOLEAN]
                 /\ KnownFor(run, runs[run].observations)'
      <3> DEFINE s == runs[run].observations
      <3>1. KnownFor(run, s) /\ runs[run] \in [expected : {Expected}, observations : Seq(Observed), finalized : BOOLEAN]
        BY DEF RunsAre
      <3>2. Seq(Observed) \subseteq Seq(Observed')
        BY <1>2
      <3>3. runs[run] \in [expected : {Expected'}, observations : Seq(Observed'), finalized : BOOLEAN]
        BY <1>2, <3>1, <3>2
      <3>4. s' = s
        BY <1>4
      <3>5. KnownFor(run, s)'
        BY <1>1, <1>2, <1>4, <3>1, <3>3 DEF KnownFor, RunOf
      <3> QED BY <3>3, <3>5
    <2>3. RunsAre'
      BY <1>4, <2>2 DEF RunsAre
    <2> QED BY <1>3, <2>1, <2>3
  <1>5. ASSUME NEW r \in sent, ServeBegin(r) PROVE RunsAre' /\ RunsGrow
    <2>1. sent' = sent /\ (runs' = runs \/ runs' = Registered(RunOf(r.tab), Expected))
      BY <1>5 DEF ServeBegin
    <2>2. CASE runs' = Registered(RunOf(r.tab), Expected)
      BY <1>1, <1>2, <2>1, <2>2, RegisteredGrows
    <2>3. CASE runs' = runs
      BY <1>4, <2>3 DEF RunsGrow
    <2> QED BY <2>1, <2>2, <2>3
  <1>6. ASSUME NEW r \in sent, ServeSubmit(r) PROVE RunsAre' /\ RunsGrow
    <2>1. /\ sent' = sent /\ r.kind = "submit"
          /\ runs' = runs \/ runs' = Submitted(RunOf(r.tab), r.observation)
      BY <1>6 DEF ServeSubmit
    <2>2. CASE runs' = Submitted(RunOf(r.tab), r.observation)
      <3>1. r.tab \in Tabs /\ SubmitBy(r.tab, r.observation) \in sent /\ r.observation.sequence \in Nat
        BY <2>1, SubmitFacts
      <3>2. UNCHANGED <<plies, sent, scenario>>
        BY <1>1, <2>1
      <3> QED BY <1>2, <2>2, <3>1, <3>2, SubmittedGrows
    <2>3. CASE runs' = runs
      BY <1>4, <2>3 DEF RunsGrow
    <2> QED BY <2>1, <2>2, <2>3
  <1>7. ASSUME NEW r \in sent, FinalizeRun(r) PROVE RunsAre' /\ RunsGrow
    <2>1. /\ sent' = sent
          /\ runs' = runs \/ (RunOf(r.tab) \in DOMAIN runs /\ runs' = Finalized(RunOf(r.tab)))
      BY <1>7 DEF FinalizeRun, FinalizeRefused
    <2>2. CASE RunOf(r.tab) \in DOMAIN runs /\ runs' = Finalized(RunOf(r.tab))
      BY <1>1, <2>1, <2>2, FinalizedGrows
    <2>3. CASE runs' = runs
      BY <1>4, <2>3 DEF RunsGrow
    <2> QED BY <2>1, <2>2, <2>3
  <1>8. CASE Restart
    <2>1. runs' = runs \/ runs' = <<>>
      BY <1>8 DEF Restart, Reopened
    <2>2. NothingForgotten' => NothingForgotten /\ runs' = runs
      BY <1>3, <1>8 DEF Restart, Reopened
    <2>3. ASSUME runs' = <<>> PROVE RunsAre'
      <3>1. DOMAIN runs' = {}
        BY <2>3
      <3> QED BY <3>1 DEF RunsAre
    <2>4. RunsAre'
      BY <1>4, <2>1, <2>3
    <2>5. NothingForgotten' => RunsGrow
      BY <2>2 DEF RunsGrow
    <2> QED BY <2>2, <2>4, <2>5
  <1> QED BY <1>3, <1>4, <1>5, <1>6, <1>7, <1>8
          DEF Next, vars, ReadMove, EndText, AskBegin, AskSubmit, AskFinalize, Send, GiveUp, ReadGame, SaveReview,
              SaveNative, Stored

\* What a tab is acknowledged is in its run.
LEMMA ServedSubmit ==
    ASSUME Opening, RequestsAre, RunsAre, Stored, NEW r \in sent, ServeSubmit(r)
    PROVE  \E ok : /\ Answer(r, ok) /\ UNCHANGED <<plies, sent>> /\ r.kind = "submit"
                   /\ ok => /\ RunOf(r.tab) \in DOMAIN runs'
                            /\ r.observation.sequence + 1 \in DOMAIN runs'[RunOf(r.tab)].observations
                            /\ runs'[RunOf(r.tab)].observations[r.observation.sequence + 1] = r.observation
                            /\ r.observation.sequence < Expected
  <1> DEFINE o == r.observation
             valid == Places(o) # {} /\ ValidObservation(o)
             ok == valid /\ Receipt(RunOf(r.tab), o) \in {"accepted", "duplicate"}
             run == RunOf(r.tab)
  <1>1. /\ Answer(r, ok) /\ UNCHANGED <<plies, sent, scenario>> /\ r.kind = "submit"
        /\ valid => runs' = Submitted(RunOf(r.tab), o)
    BY DEF ServeSubmit
  <1>2. r.tab \in Tabs /\ SubmitBy(r.tab, o) \in sent /\ o.sequence \in Nat /\ Expected \in Nat
    BY <1>1, SubmitFacts, ExpectedIsNat
  <1> HIDE DEF valid
  <1>3. ASSUME ok
        PROVE  /\ run \in DOMAIN runs' /\ o.sequence + 1 \in DOMAIN runs'[run].observations
               /\ runs'[run].observations[o.sequence + 1] = o /\ RunsAre'
    BY <1>1, <1>2, <1>3, SubmittedGrows
  <1>4. ASSUME ok PROVE o.sequence < Expected
    <2> DEFINE s == runs'[run].observations
    <2>1. run \in DOMAIN runs' /\ o.sequence + 1 \in DOMAIN s /\ RunsAre'
      BY <1>3, <1>4
    <2>2. s \in Seq(Observed') /\ Len(s) <= Expected'
      <3>1. (\A x \in DOMAIN runs : /\ runs[x].observations \in Seq(Observed)
                                    /\ Len(runs[x].observations) <= Expected)'
        BY <2>1 DEF RunsAre, KnownFor
      <3> QED BY <2>1, <3>1
    <2>3. Expected' = Expected
      BY <1>1 DEF Expected
    <2> HIDE DEF s
    <2> QED BY <1>2, <2>1, <2>2, <2>3
  <1> HIDE DEF ok, run
  <1> QED BY <1>1, <1>3, <1>4 DEF run

AcksGrow ==
    \A t \in Tabs :
      \/ tabs'[t].acks = tabs[t].acks
      \/ \E o : LET n == Len(tabs[t].acks) + 1 IN
           /\ tabs'[t].acks = Append(tabs[t].acks, o)
           /\ RunOf(t) \in DOMAIN runs' /\ n \in DOMAIN runs'[RunOf(t)].observations
           /\ runs'[RunOf(t)].observations[n] = o

LEMMA TabsStep ==
    ASSUME Opening, TabsAre, RequestsAre, RunsAre, Stored, [Next]_vars
    PROVE  TabsAre' /\ RequestsAre' /\ AcksGrow
  <1>1. Expected \in Nat /\ UNCHANGED plies
    BY ExpectedIsNat, StoredStays
  <1> DEFINE Goal == TabsAre' /\ RequestsAre' /\ AcksGrow
  <1> SUFFICES Goal
    OBVIOUS
  <1>2. ASSUME NEW r \in sent, NEW ok, Answer(r, ok), UNCHANGED sent, r.kind # "submit" PROVE Goal
    <2>1. TabsAre' /\ RequestsAre' /\ \A u \in Tabs : tabs'[u].acks = tabs[u].acks
      BY <1>1, <1>2, AnswerStep
    <2> QED BY <2>1 DEF AcksGrow
  <1>3. ASSUME UNCHANGED <<tabs, sent>> PROVE Goal
    <2>1. Observed' = Observed /\ Expected' = Expected
      BY <1>1, <1>3 DEF Observed, Expected
    <2> QED BY <1>3, <2>1 DEF TabsAre, RequestsAre, AcksGrow
  <1>4. ASSUME NEW t \in Tabs, AskBegin(t) PROVE Goal
    <2> DEFINE q == [kind |-> "begin", tab |-> t]
    <2>1. q.kind = "begin" /\ q.tab = t /\ Send(t, q) /\ tabs[t].stage = "begin" /\ tabs[t].asked = NoRequest
      BY <1>4 DEF AskBegin, Idle
    <2> HIDE DEF q
    <2> QED BY <2>1, AskStep DEF AcksGrow
  <1>5. ASSUME NEW t \in Tabs, AskFinalize(t) PROVE Goal
    <2> DEFINE q == [kind |-> "finalize", tab |-> t]
    <2>1. q.kind = "finalize" /\ q.tab = t /\ Send(t, q) /\ tabs[t].stage = "finalize" /\ tabs[t].asked = NoRequest
      BY <1>5 DEF AskFinalize, Idle
    <2> HIDE DEF q
    <2> QED BY <2>1, AskStep DEF AcksGrow
  <1>6. ASSUME NEW t \in Tabs, AskSubmit(t) PROVE Goal
    <2>1. PICK o : Send(t, SubmitBy(t, o)) /\ o.sequence = Len(tabs[t].acks)
      <3>1. PICK p, line : Send(t, [kind |-> "submit", tab |-> t,
                observation |-> [sequence |-> Len(tabs[t].acks), ply |-> Position(p).ply, fen |-> Position(p).fen,
                                 line |-> line]])
        BY <1>6 DEF AskSubmit
      <3> DEFINE o == [sequence |-> Len(tabs[t].acks), ply |-> Position(p).ply, fen |-> Position(p).fen,
                       line |-> line]
      <3>2. o.sequence = Len(tabs[t].acks)
        OBVIOUS
      <3>3. Send(t, SubmitBy(t, o))
        BY <3>1 DEF SubmitBy
      <3> HIDE DEF o
      <3> QED BY <3>2, <3>3
    <2> DEFINE q == SubmitBy(t, o)
    <2>2. q.kind = "submit" /\ q.tab = t /\ q.observation = o /\ q = SubmitBy(t, q.observation)
      BY DEF SubmitBy
    <2>3. tabs[t].stage = "observe" /\ tabs[t].asked = NoRequest
      BY <1>6 DEF AskSubmit, Idle
    <2> HIDE DEF q
    <2>4. Send(t, q)
      BY <2>1 DEF q
    <2> QED BY <2>1, <2>2, <2>3, <2>4, AskStep DEF AcksGrow
  <1>7. ASSUME NEW t \in Tabs, GiveUp(t) PROVE Goal
    <2> DEFINE n == [stage |-> "failed", asked |-> NoRequest, acks |-> tabs[t].acks]
    <2>1. tabs[t] \in TabRecords /\ DOMAIN tabs = Tabs
      BY DEF TabsAre, TabRecords
    <2>2. tabs' = [tabs EXCEPT ![t] = n]
      <3>1. [[tabs[t] EXCEPT !.stage = "failed"] EXCEPT !.asked = NoRequest] = n
        <4>1. [tabs[t] EXCEPT !.stage = "failed"]
                = [stage |-> "failed", asked |-> tabs[t].asked, acks |-> tabs[t].acks]
          BY <2>1 DEF TabRecords
        <4>2. [[stage |-> "failed", asked |-> tabs[t].asked, acks |-> tabs[t].acks] EXCEPT !.asked = NoRequest] = n
          OBVIOUS
        <4> HIDE DEF n
        <4> QED BY <4>1, <4>2
      <3> DEFINE m == [tabs EXCEPT ![t].stage = "failed"]
      <3>2. tabs' = [m EXCEPT ![t].asked = NoRequest]
        BY <1>7 DEF GiveUp
      <3>3. m = [tabs EXCEPT ![t] = [tabs[t] EXCEPT !.stage = "failed"]]
        OBVIOUS
      <3> HIDE DEF m, n
      <3>4. tabs' = [m EXCEPT ![t] = [m[t] EXCEPT !.asked = NoRequest]]
        BY <3>2
      <3>5. m[t] = [tabs[t] EXCEPT !.stage = "failed"]
        BY <2>1, <3>3
      <3>6. tabs' = [m EXCEPT ![t] = n]
        BY <3>1, <3>4, <3>5
      <3>7. tabs \in [Tabs -> TabRecords]
        BY DEF TabsAre, TabRecords
      <3> QED BY <3>3, <3>6, <3>7
    <2>3. n.stage = "failed" /\ n.acks = tabs[t].acks /\ n.stage \in Stages
          /\ n = [stage |-> n.stage, asked |-> NoRequest, acks |-> n.acks]
      BY DEF Stages
    <2> HIDE DEF n
    <2>4. UNCHANGED sent
      BY <1>7 DEF GiveUp
    <2>5. TabsAre' /\ RequestsAre'
      BY <1>1, <2>2, <2>3, <2>4, TabStep
    <2>6. \A u \in Tabs : tabs'[u].acks = tabs[u].acks
      BY <2>1, <2>2, <2>3
    <2> QED BY <2>5, <2>6 DEF AcksGrow
  <1>8. ASSUME NEW r \in sent, ServeBegin(r) PROVE Goal
    <2>1. PICK ok : Answer(r, ok)
      BY <1>8 DEF ServeBegin
    <2> QED BY <1>2, <1>8, <2>1 DEF ServeBegin
  <1>9. ASSUME NEW r \in sent, ServeSubmit(r) PROVE Goal
    <2>1. PICK ok : /\ Answer(r, ok) /\ UNCHANGED <<plies, sent>> /\ r.kind = "submit"
                    /\ ok => /\ RunOf(r.tab) \in DOMAIN runs'
                             /\ r.observation.sequence + 1 \in DOMAIN runs'[RunOf(r.tab)].observations
                             /\ runs'[RunOf(r.tab)].observations[r.observation.sequence + 1] = r.observation
                             /\ r.observation.sequence < Expected
      BY <1>9, ServedSubmit
    <2>2. /\ TabsAre' /\ RequestsAre'
          /\ \A u \in Tabs :
               \/ tabs'[u].acks = tabs[u].acks
               \/ /\ ok /\ r.kind = "submit" /\ u = r.tab
                  /\ r.observation.sequence = Len(tabs[u].acks)
                  /\ tabs'[u].acks = Append(tabs[u].acks, r.observation)
      BY <1>1, <2>1, AnswerStep
    <2> QED BY <2>1, <2>2 DEF AcksGrow
  <1>10. ASSUME NEW r \in sent, FinalizeRun(r) PROVE Goal
    <2>1. UNCHANGED tabs \/ Answer(r, FALSE)
      BY <1>10 DEF FinalizeRun
    <2>2. UNCHANGED sent /\ r.kind # "submit"
      BY <1>10 DEF FinalizeRun
    <2> QED BY <1>2, <1>3, <2>1, <2>2
  <1>11. ASSUME NEW r \in sent, SaveReview(r) PROVE Goal
    <2>1. PICK ok : Answer(r, ok)
      BY <1>11 DEF SaveReview
    <2> QED BY <1>2, <1>11, <2>1 DEF SaveReview
  <1> HIDE DEF Goal
  <1> QED BY <1>3, <1>4, <1>5, <1>6, <1>7, <1>8, <1>9, <1>10, <1>11
          DEF Next, vars, ReadMove, EndText, ReadGame, SaveNative, Restart, Stored

LEMMA KeptStep ==
    ASSUME TabsAre, Kept, UNCHANGED scenario, AcksGrow, NothingForgotten' => NothingForgotten /\ RunsGrow
    PROVE  Kept'
  <1> SUFFICES ASSUME NothingForgotten', NEW t \in Tabs, NEW i \in DOMAIN tabs'[t].acks
               PROVE  /\ RunOf(t) \in DOMAIN runs' /\ i \in DOMAIN runs'[RunOf(t)].observations
                      /\ runs'[RunOf(t)].observations[i] = tabs'[t].acks[i]
    BY DEF Kept, RunOf
  <1>1. NothingForgotten /\ RunsGrow
    OBVIOUS
  <1> DEFINE a == tabs[t].acks
  <1>2. a \in Seq(Observed) /\ Len(a) \in Nat
    BY DEF TabsAre
  <1>3. \A j \in DOMAIN a : /\ RunOf(t) \in DOMAIN runs' /\ j \in DOMAIN runs'[RunOf(t)].observations
                            /\ runs'[RunOf(t)].observations[j] = a[j]
    BY <1>1 DEF Kept, RunsGrow
  <1>4. CASE tabs'[t].acks = a
    BY <1>3, <1>4
  <1>5. CASE tabs'[t].acks # a
    <2>1. PICK o : /\ tabs'[t].acks = Append(a, o)
                   /\ RunOf(t) \in DOMAIN runs' /\ Len(a) + 1 \in DOMAIN runs'[RunOf(t)].observations
                   /\ runs'[RunOf(t)].observations[Len(a) + 1] = o
      BY <1>5 DEF AcksGrow
    <2>2. /\ \A j \in DOMAIN Append(a, o) : j \in DOMAIN a \/ j = Len(a) + 1
          /\ \A j \in DOMAIN a : Append(a, o)[j] = a[j]
          /\ Append(a, o)[Len(a) + 1] = o
      <3>1. a \in Seq(Observed \cup {o})
        BY <1>2
      <3> QED BY <1>2, <3>1
    <2> HIDE DEF a
    <2> QED BY <1>3, <2>1, <2>2
  <1> QED BY <1>4, <1>5

LEMMA TakenStays ==
    ASSUME UNCHANGED <<scenario, plies, durable>>, sent \subseteq sent', NEW run, NEW s, Taken(run, s),
           NothingForgotten' => NothingForgotten /\ RunsGrow
    PROVE  Taken(run, s)'
  <1>1. KnownFor(run, s)'
    BY KnownStays DEF Taken
  <1>2. Expected' = Expected
    BY DEF Expected
  <1>3. NothingForgotten' => run \in DOMAIN runs' /\ runs'[run].observations = s
    BY DEF Taken, RunsGrow
  <1> QED BY <1>1, <1>2, <1>3 DEF Taken

LEMMA HandlersStep ==
    ASSUME ReviewInv, Stored, [Next]_vars, NothingForgotten' => NothingForgotten /\ RunsGrow
    PROVE  HandlersAre' /\ DOMAIN finalizing' = Tabs
  <1>1. UNCHANGED <<scenario, plies, durable>> /\ sent \subseteq sent' /\ \A t : RunOf(t)' = RunOf(t)
    BY StoredStays DEF RunOf
  <1>2. /\ Opening /\ RequestsAre /\ RunsAre /\ HandlersAre /\ DOMAIN finalizing = Tabs /\ Expected \in Nat
    BY ExpectedIsNat DEF ReviewInv, Opening
  <1>3. ASSUME NEW t \in Tabs, finalizing[t].at = "staged"
        PROVE  Taken(RunOf(t), finalizing[t].bundle) 
    BY <1>2, <1>3 DEF HandlersAre
  <1>4. ASSUME NEW t \in Tabs, finalizing'[t] = finalizing[t], finalizing'[t].at = "staged"
        PROVE  Taken(RunOf(t), finalizing[t].bundle)'
    <2>1. PICK x, y : x = RunOf(t) /\ y = finalizing[t].bundle
      OBVIOUS
    <2>2. Taken(x, y)
      BY <1>3, <1>4, <2>1
    <2>3. Taken(x, y)'
      BY <1>1, <2>2, TakenStays
    <2>4. x = RunOf(t)' /\ y = finalizing'[t].bundle
      BY <1>1, <1>4, <2>1
    <2> QED BY <2>3, <2>4 DEF Taken, KnownFor
  <1>5. ASSUME NEW r \in sent, r.tab \in Tabs, NEW h, finalizing' = [finalizing EXCEPT ![r.tab] = h], h.at # "staged"
        PROVE  HandlersAre' /\ DOMAIN finalizing' = Tabs
    BY <1>2, <1>4, <1>5 DEF HandlersAre
  <1>6. CASE finalizing' = finalizing
    BY <1>2, <1>4, <1>6 DEF HandlersAre
  <1>7. CASE Restart
    BY <1>7 DEF Restart, HandlersAre, NoHandler
  <1>8. ASSUME NEW r \in sent, ReadGame(r) PROVE HandlersAre' /\ DOMAIN finalizing' = Tabs
    <2>1. PICK h : finalizing' = [finalizing EXCEPT ![r.tab] = h] /\ h.at # "staged"
      <3> DEFINE h == [at |-> "read", seen |-> analysis]
      <3>1. finalizing' = [finalizing EXCEPT ![r.tab] = h] /\ h.at # "staged"
        BY <1>8 DEF ReadGame
      <3> HIDE DEF h
      <3> QED BY <3>1
    <2> QED BY <1>2, <1>5, <2>1 DEF RequestsAre
  <1>9. ASSUME NEW r \in sent, SaveReview(r) PROVE HandlersAre' /\ DOMAIN finalizing' = Tabs
    <2>1. finalizing' = [finalizing EXCEPT ![r.tab] = NoHandler] /\ NoHandler.at # "staged"
      BY <1>9 DEF SaveReview, NoHandler
    <2> HIDE DEF NoHandler
    <2> QED BY <1>2, <1>5, <2>1 DEF RequestsAre
  <1>10. ASSUME NEW r \in sent, FinalizeRun(r) PROVE HandlersAre' /\ DOMAIN finalizing' = Tabs
    <2> DEFINE run == RunOf(r.tab)
               s == runs[run].observations
    <2>1. CASE FinalizeRefused(run)
      <3>1. finalizing' = [finalizing EXCEPT ![r.tab] = NoHandler] /\ NoHandler.at # "staged"
        BY <1>10, <2>1 DEF FinalizeRun, NoHandler
      <3> HIDE DEF NoHandler
      <3> QED BY <1>2, <1>5, <3>1 DEF RequestsAre
    <2>2. CASE ~FinalizeRefused(run)
      <3> DEFINE h == [at |-> "staged", seen |-> finalizing[r.tab].seen, bundle |-> s]
      <3>1. finalizing' = [finalizing EXCEPT ![r.tab] = h] /\ h.bundle = s /\ runs' = Finalized(run) /\ UNCHANGED sent
        BY <1>10, <2>2 DEF FinalizeRun
      <3> HIDE DEF h
      <3>2. run \in DOMAIN runs /\ KnownFor(run, s) /\ Len(s) = Expected
        BY <1>2, <2>2 DEF FinalizeRefused, RunsAre
      <3>3. run \in DOMAIN runs' /\ runs'[run].observations = s
        BY <1>1, <1>2, <3>1, <3>2, FinalizedGrows
      <3>4. r.tab \in Tabs
        BY <1>2 DEF RequestsAre
      <3>5. finalizing'[r.tab].bundle = s /\ DOMAIN finalizing' = Tabs
            /\ \A t \in Tabs : t # r.tab => finalizing'[t] = finalizing[t]
        BY <1>2, <3>1, <3>4
      <3>6. PICK x, y : x = run /\ y = s
        OBVIOUS
      <3>7. Expected' = Expected /\ x = RunOf(r.tab)' /\ y = finalizing'[r.tab].bundle
        BY <1>1, <3>5, <3>6 DEF Expected
      <3>8. KnownFor(x, y)'
        BY <1>1, <3>2, <3>6, KnownStays
      <3>9. Taken(x, y)'
        BY <3>2, <3>3, <3>6, <3>7, <3>8 DEF Taken
      <3>10. Taken(RunOf(r.tab), finalizing[r.tab].bundle)'
        BY <3>7, <3>9 DEF Taken, KnownFor
      <3> QED BY <1>4, <3>5, <3>10 DEF HandlersAre
    <2> QED BY <2>1, <2>2
  <1> QED BY <1>6, <1>7, <1>8, <1>9, <1>10
          DEF Next, vars, ReadMove, EndText, AskBegin, AskSubmit, AskFinalize, Send, GiveUp, ServeBegin, ServeSubmit,
              SaveNative, Stored

\* An observation that is assembled is of one position.
LEMMA OnePlace ==
    ASSUME Expected \in Nat, NEW o, Cardinality(Places(o)) = 1
    PROVE  \E m \in 1..Expected : Places(o) = {m}
  <1>1. IsFiniteSet(1..Expected)
    BY FS_Interval
  <1>2. Places(o) \in SUBSET (1..Expected)
    BY DEF Places
  <1> HIDE DEF Places
  <1>3. IsFiniteSet(Places(o))
    BY <1>1, <1>2, FS_Subset
  <1>4. \E m : Places(o) = {m}
    BY <1>3, FS_Singleton
  <1> QED BY <1>2, <1>4

\* The review that is assembled from a bundle shows it.
LEMMA ReviewShows ==
    ASSUME Expected \in Nat, NEW run, NEW s, Assembles(s)
    PROVE  Shows(Review(run, s), run, s)
  <1> DEFINE At(n) == CHOOSE i \in DOMAIN s : n \in Places(s[i])
             v == Review(run, s)
  <1>1. v.run = run /\ \A n \in 1..Expected : v.lines[n] = s[At(n)].line
    BY DEF Review
  <1> HIDE DEF v
  <1>2. ASSUME NEW i \in DOMAIN s, NEW n \in Places(s[i]) PROVE v.lines[n] = s[i].line
    <2>1. At(n) \in DOMAIN s /\ n \in Places(s[At(n)])
      BY <1>2
    <2> HIDE DEF At
    <2>2. PICK m : Places(s[i]) = {m}
      BY OnePlace DEF Assembles
    <2>3. PICK k : Places(s[At(n)]) = {k}
      BY <2>1, OnePlace DEF Assembles
    <2>4. Places(s[At(n)]) = Places(s[i])
      BY <1>2, <2>1, <2>2, <2>3
    <2>5. At(n) = i
      BY <2>1, <2>4 DEF Assembles
    <2>6. n \in 1..Expected
      BY <1>2 DEF Places
    <2> QED BY <1>1, <2>5, <2>6
  <1> QED BY <1>1, <1>2 DEF Shows, v

\* What a review shows is a matter of the stored game.
LEMMA ReviewStays ==
    ASSUME UNCHANGED <<plies, verdicts>>
    PROVE  \A v, run, s : /\ Shows(v, run, s) => Shows(v, run, s)'
                          /\ Assembles(s) => Assembles(s)'
  <1>1. Expected' = Expected
    BY DEF Expected
  <1>2. \A n : Position(n)' = Position(n)
    BY DEF Position
  <1>3. \A o : Places(o)' = Places(o)
    BY <1>1, <1>2 DEF Places
  <1>4. \A o : ValidObservation(o) => ValidObservation(o)'
    BY <1>3 DEF ValidObservation
  <1>5. \A v, run, s : Shows(v, run, s) => Shows(v, run, s)'
    BY <1>3 DEF Shows
  <1>6. \A s : Assembles(s) => Assembles(s)'
    BY <1>1, <1>3, <1>4 DEF Assembles
  <1> QED BY <1>5, <1>6

LEMMA ReviewedStep ==
    ASSUME ReviewInv, Stored, [Next]_vars, NothingForgotten' => NothingForgotten /\ RunsGrow
    PROVE  Reviewed'
  <1>1. UNCHANGED <<scenario, plies, verdicts, durable>> /\ sent \subseteq sent'
    BY StoredStays
  <1>2. RequestsAre /\ HandlersAre /\ Reviewed /\ Expected \in Nat
    BY ExpectedIsNat DEF ReviewInv
  <1>3. ASSUME NEW run, NEW s, NEW v, Shows(v, run, s), Assembles(s), Taken(run, s), analysis' = v PROVE Reviewed'
    <2>1. Taken(run, s)'
      BY <1>1, <1>3, TakenStays
    <2>2. Shows(v, run, s)' /\ Assembles(s)'
      BY <1>1, <1>3, ReviewStays
    <2>3. Shows(analysis, run, s)'
      BY <1>3, <2>2 DEF Shows
    <2> QED BY <2>1, <2>2, <2>3 DEF Reviewed
  <1>4. CASE analysis' = analysis
    <2>1. CASE analysis \in {NoReview, NativeReview}
      BY <1>4, <2>1 DEF Reviewed, NoReview, NativeReview
    <2>2. CASE analysis \notin {NoReview, NativeReview}
      <3>1. PICK v : v = analysis
        OBVIOUS
      <3>2. PICK run, s : Shows(v, run, s) /\ Assembles(s) /\ Taken(run, s)
        BY <1>2, <2>2, <3>1 DEF Reviewed
      <3> QED BY <1>3, <1>4, <3>1, <3>2
    <2> QED BY <2>1, <2>2
  <1>5. CASE SaveNative
    BY <1>5 DEF SaveNative, Reviewed
  <1>6. ASSUME NEW r \in sent, SaveReview(r) PROVE Reviewed'
    <2> DEFINE h == finalizing[r.tab]
    <2>1. h.at = "staged" /\ r.tab \in Tabs
      BY <1>2, <1>6 DEF SaveReview, RequestsAre
    <2>2. Taken(RunOf(r.tab), h.bundle)
      BY <1>2, <2>1 DEF HandlersAre
    <2>3. \/ analysis' = analysis
          \/ Assembles(h.bundle) /\ analysis' = Review(RunOf(r.tab), h.bundle)
      BY <1>6 DEF SaveReview
    <2>4. PICK x, y, v : x = RunOf(r.tab) /\ y = h.bundle /\ v = Review(x, y)
      OBVIOUS
    <2>5. CASE Assembles(y) /\ analysis' = v
      <3>1. Shows(v, x, y)
        BY <1>2, <2>4, <2>5, ReviewShows
      <3> QED BY <1>3, <2>2, <2>4, <2>5, <3>1
    <2> HIDE DEF h
    <2> QED BY <1>4, <2>3, <2>4, <2>5
  <1> QED BY <1>4, <1>5, <1>6
          DEF Next, vars, ReadMove, EndText, AskBegin, AskSubmit, AskFinalize, Send, GiveUp, ServeBegin, ServeSubmit,
              ReadGame, FinalizeRun, Restart, Stored

LEMMA ReviewStep == ReviewInv /\ [Next]_vars => ReviewInv'
  <1> SUFFICES ASSUME ReviewInv, [Next]_vars PROVE ReviewInv'
    OBVIOUS
  <1>1. CASE ~Stored
    BY <1>1, BeforeStored
  <1>2. CASE Stored
    <2>1. Opening /\ TabsAre /\ RequestsAre /\ RunsAre /\ Kept
      BY DEF ReviewInv
    <2>2. RunsAre' /\ (NothingForgotten' => NothingForgotten /\ RunsGrow)
      BY <1>2, <2>1, RunsStep
    <2>3. TabsAre' /\ RequestsAre' /\ AcksGrow
      BY <1>2, <2>1, TabsStep
    <2>4. /\ UNCHANGED <<scenario, plies>> /\ Stored' /\ (restarts' = restarts \/ Restart)
      BY <1>2, StoredStays
    <2>5. Kept'
      BY <2>1, <2>2, <2>3, <2>4, KeptStep
    <2>6. HandlersAre' /\ DOMAIN finalizing' = Tabs
      BY <1>2, <2>2, HandlersStep
    <2>7. Reviewed'
      BY <1>2, <2>2, ReviewedStep
    <2>8. restarts' \in Nat
      BY <2>1, <2>4 DEF Opening, Restart
    <2>9. Opening'
      BY <2>1, <2>4, <2>6, <2>8 DEF Opening
    <2> QED BY <2>2, <2>3, <2>5, <2>6, <2>7, <2>9 DEF ReviewInv
  <1> QED BY <1>1, <1>2

\* What a tab was told is accepted stays in its run, for any tabs, games, engines and
\* restarts, while nothing is forgotten.
THEOREM AcknowledgedAlwaysStays == Spec => []AcknowledgedStays
  <1>1. ReviewInv => AcknowledgedStays
    <2> SUFFICES ASSUME ReviewInv, NothingForgotten, NEW t \in Tabs, tabs[t].acks # <<>>
                 PROVE  RunOf(t) \in DOMAIN runs /\ IsPrefix(tabs[t].acks, runs[RunOf(t)].observations)
      BY DEF AcknowledgedStays
    <2> DEFINE a == tabs[t].acks
               s == runs[RunOf(t)].observations
    <2>1. a \in Seq(Observed) /\ a # <<>>
      BY DEF ReviewInv, TabsAre
    <2>2. \A i \in DOMAIN a : RunOf(t) \in DOMAIN runs /\ i \in DOMAIN s /\ s[i] = a[i]
      BY DEF ReviewInv, Kept
    <2>3. 1 \in DOMAIN a
      BY <2>1
    <2>4. RunOf(t) \in DOMAIN runs
      BY <2>2, <2>3
    <2>5. s \in Seq(Observed)
      BY <2>4 DEF ReviewInv, RunsAre
    <2> HIDE DEF a, s
    <2>6. Len(a) \in DOMAIN a
      BY <2>1
    <2>7. Len(a) <= Len(s) /\ Len(a) \in Nat /\ Len(s) \in Nat
      BY <2>1, <2>2, <2>5, <2>6
    <2>8. SubSeq(a, 1, Len(a)) = SubSeq(s, 1, Len(a))
      BY <2>1, <2>2, <2>5, <2>7
    <2>9. IsPrefix(a, s)
      BY <2>7, <2>8 DEF IsPrefix
    <2> QED BY <2>4, <2>9 DEF a, s
  <1> QED BY <1>1, ReviewInit, ReviewStep, PTL DEF Spec

\* As many observations as positions, each of one position, no two of the same: every
\* position has one.
LEMMA EveryPositionOnce ==
    ASSUME Expected \in Nat, NEW s, Assembles(s), NEW O, s \in Seq(O), NEW n \in 1..Expected
    PROVE  \E i \in DOMAIN s : Places(s[i]) = {n}
  <1> DEFINE S == 1..Expected
             T == S \ {n}
             P(i) == CHOOSE m \in S : Places(s[i]) = {m}
             f == [i \in S |-> P(i)]
  <1>1. DOMAIN s = S
    BY DEF Assembles
  <1>2. ASSUME NEW i \in S PROVE P(i) \in S /\ Places(s[i]) = {P(i)}
    <2>1. Cardinality(Places(s[i])) = 1
      BY <1>1, <1>2 DEF Assembles
    <2> QED BY <2>1, OnePlace
  <1> HIDE DEF P
  <1> SUFFICES ASSUME \A i \in S : P(i) # n PROVE FALSE
    BY <1>1, <1>2
  <1>3. IsFiniteSet(S) /\ Cardinality(S) = Expected
    BY FS_Interval
  <1>4. IsFiniteSet(T) /\ Cardinality(T) = Expected - 1
    BY <1>3, FS_RemoveElement
  <1>5. f \in [S -> T]
    BY <1>2
  <1>6. Cardinality(T) < Cardinality(S)
    BY <1>3, <1>4
  <1>9. \A i \in S : f[i] = P(i)
    OBVIOUS
  <1> HIDE DEF S, T, f
  <1>7. PICK i, j \in S : i # j /\ f[i] = f[j]
    BY <1>3, <1>4, <1>5, <1>6, FS_PigeonHole
  <1>8. Places(s[i]) = Places(s[j])
    BY <1>2, <1>7, <1>9
  <1> QED BY <1>1, <1>7, <1>8 DEF Assembles

\* A review is whole and of one run, for any tabs, games, engines and restarts.
THEOREM ReviewsAreWhole == Spec => []ReviewIsWhole
  <1>1. ReviewInv => ReviewIsWhole
    <2> SUFFICES ASSUME ReviewInv, NothingForgotten \/ OwnRuns, analysis \notin {NoReview, NativeReview}
                 PROVE  /\ \A n \in 1..Expected : verdicts[n][analysis.lines[n]]
                        /\ \A t \in Tabs : RunOf(t) = analysis.run =>
                             \A i \in DOMAIN tabs[t].acks : \A n \in Places(tabs[t].acks[i]) :
                               analysis.lines[n] = tabs[t].acks[i].line
      BY DEF ReviewIsWhole
    <2>1. PICK run, s : Shows(analysis, run, s) /\ Assembles(s) /\ Taken(run, s)
      BY DEF ReviewInv, Reviewed
    <2>2. Opening /\ TabsAre /\ RequestsAre /\ RunsAre /\ Kept /\ Expected \in Nat
      BY ExpectedIsNat DEF ReviewInv
    <2>3. s \in Seq(Observed) /\ Len(s) = Expected /\ DOMAIN s = 1..Expected
      BY <2>1, <2>2 DEF Taken, KnownFor
    <2>4. ASSUME NEW n \in 1..Expected PROVE verdicts[n][analysis.lines[n]]
      <3>1. PICK i \in DOMAIN s : Places(s[i]) = {n}
        BY <2>1, <2>2, <2>3, EveryPositionOnce
      <3>2. verdicts[n][s[i].line]
        BY <2>1, <3>1 DEF Assembles, ValidObservation
      <3>3. analysis.lines[n] = s[i].line
        BY <2>1, <3>1 DEF Shows
      <3> QED BY <3>2, <3>3
    <2>7. ASSUME NEW t \in Tabs, RunOf(t) = run, NEW i \in DOMAIN tabs[t].acks
          PROVE  i \in DOMAIN s /\ s[i] = tabs[t].acks[i]
      <3> DEFINE o == tabs[t].acks[i]
      <3>1. tabs[t].acks \in Seq(Observed) /\ Len(tabs[t].acks) <= Expected /\ i \in 1..Expected
        BY <2>2, <2>7 DEF TabsAre
      <3>2. o.sequence = i - 1 /\ SubmitBy(t, o) \in sent
        BY <2>2, <2>7 DEF TabsAre
      <3>3. CASE NothingForgotten
        BY <2>1, <2>2, <2>7, <3>3 DEF Kept, Taken
      <3>4. CASE OwnRuns
        <4>1. PICK u \in Tabs : RunOf(u) = run /\ SubmitBy(u, s[i]) \in sent
          BY <2>1, <2>3, <3>1 DEF Taken, KnownFor
        <4>2. s[i].sequence = i - 1
          BY <2>1, <2>3, <3>1 DEF Taken, KnownFor
        <4>3. u = t
          <5>1. DOMAIN scenario.runOf = Tabs
            BY <2>2, ScenariosAssumption DEF Opening
          <5> QED BY <2>7, <3>4, <4>1, <5>1 DEF OwnRuns, IsInjective, RunOf
        <4> DEFINE r == SubmitBy(t, o)
                   x == SubmitBy(t, s[i])
        <4>4. r \in sent /\ x \in sent /\ r.kind = "submit" /\ x.kind = "submit" /\ r.tab = x.tab
              /\ r.observation = o /\ x.observation = s[i]
          BY <3>2, <4>1, <4>3 DEF SubmitBy
        <4> HIDE DEF r, x, o
        <4>5. r = x
          BY <2>2, <3>2, <4>2, <4>4 DEF RequestsAre
        <4>6. s[i] = o
          BY <4>4, <4>5
        <4> QED BY <2>3, <3>1, <4>6 DEF o
      <3> QED BY <3>3, <3>4
    <2>8. ASSUME NEW t \in Tabs, RunOf(t) = analysis.run, NEW i \in DOMAIN tabs[t].acks,
                 NEW n \in Places(tabs[t].acks[i])
          PROVE  analysis.lines[n] = tabs[t].acks[i].line
      <3>1. i \in DOMAIN s /\ s[i] = tabs[t].acks[i]
        BY <2>1, <2>7, <2>8 DEF Shows
      <3> QED BY <2>1, <2>8, <3>1 DEF Shows
    <2> QED BY <2>4, <2>8
  <1> QED BY <1>1, ReviewInit, ReviewStep, PTL DEF Spec
=============================================================================
