-------------------------------- MODULE Game --------------------------------
(***************************************************************************)
(* The positions a game goes through: the position command reads a FEN     *)
(* string and plays its moves (interface/uci_handler.h), the search plays  *)
(* moves and null moves below it (search/searcher.h).                      *)
(***************************************************************************)
EXTENDS Parsing, Evaluation
LOCAL INSTANCE SequencesExt

CONSTANTS
  Fens,     \* the FEN strings the GUI sends, as sequences of words
  MaxPly    \* bound: moves played from each of them

ASSUME MaxPlyAssumption == MaxPly \in Nat

----------------------------------------------------------------------------
(* What makes a board a position of chess.  The code takes it for granted: *)
(* generateCastlingMoves() moves the rook it does not look for, and        *)
(* performEnpessantMove() takes a pawn without asking whether it is there. *)

\* A castling right survives only as long as king and rook have not moved and
\* the rook was not taken.
RightsNeedKingAndRook(b) ==
  \A player \in Players, side \in {"KingSide", "QueenSide"} :
    Right(player, side) \in b.castlingRights =>
      LET home == IF player = "White" THEN A1 ELSE A8
      IN /\ home + 4 \in b.pieces[player]["King"]
         /\ home + (IF side = "KingSide" THEN 7 ELSE 0) \in b.pieces[player]["Rook"]

\* The en passant square is the one a pawn of the opponent just passed over:
\* the pawn is in front of it, and nothing on it.
EnPassantNeedsItsPawn(b) ==
  b.enPessant # NoPosition =>
    /\ \A p \in Players : b.enPessant \notin occupationOf(b.pieces, p)
    /\ relativeRow(b.player, b.enPessant) = 5
    /\ enpessantCapturePosition(b.player, b.enPessant) \in b.pieces[nextPlayer(b.player)]["Pawn"]

\* No two pieces on a square, one king a side, no pawn on a last row and at
\* most eight a side, and the player who just moved is not in check.
PiecesStandApart(b) ==
  \A x, y \in Players \X PieceTypes :
    x # y => b.pieces[x[1]][x[2]] \cap b.pieces[y[1]][y[2]] = {}
OneKingEach(b) == \A p \in Players : \E king \in Squares : b.pieces[p]["King"] = {king}
PawnsAreOnTheirWay(b) ==
  \A p \in Players : b.pieces[p]["Pawn"] \cap (RowMask[0] \cup RowMask[7]) = {}
PawnsAreFew(b) == \A p \in Players : Cardinality(b.pieces[p]["Pawn"]) =< 8

IsPosition(b) ==
  /\ PiecesStandApart(b) /\ OneKingEach(b) /\ PawnsAreOnTheirWay(b) /\ PawnsAreFew(b)
  /\ RightsNeedKingAndRook(b) /\ EnPassantNeedsItsPawn(b)
  /\ ~isKingAttacked(b, nextPlayer(b.player))

\* parse() checks none of it: the FEN strings are those of positions.
ASSUME FensAssumption ==
  \A fen \in Fens : \A b \in parse(fen) : b \in Boards /\ IsPosition(b)

VARIABLES
  board,    \* the position: UciHandler::s_board, or that of a node of the search
  ply,      \* moves played
  nullSearch, \* the last move was a null move
  kpCache   \* StaticEvaluation::m_kpCache

vars == <<board, ply, nullSearch, kpCache>>

Init ==
  /\ \E fen \in Fens : board \in parse(fen)
  /\ ply = 0
  /\ nullSearch = FALSE
  /\ kpCache = KingPawnEntry(board)

\* The static evaluation of the node a move leads to: left out in check, and
\* when the transposition table has it.
Evaluate ==
  \/ kpCache' = kpCache
  \/ /\ ~isKingAttacked(board', board'.player)
     /\ kpCache' = fetchOrStoreKpCache(kpCache, board')

\* A pseudo-legal move is undone if it leaves the own king attacked.
IsLegal(b, move) == ~isKingAttacked(performMove(b, move), b.player)
LegalMoves(b) == {m \in getAllMoves("PseudoLegal", b) : IsLegal(b, m)}

MakeMove ==
  /\ ply < MaxPly
  /\ \E move \in getAllMoves("PseudoLegal", board) :
       /\ IsLegal(board, move)
       /\ board' = performMove(board, move)
  /\ ply' = ply + 1
  /\ nullSearch' = FALSE
  /\ Evaluate

\* Never in check, twice in a row, or with nothing but pawns.
MakeNullMove ==
  /\ ply < MaxPly
  /\ ~nullSearch
  /\ ~isKingAttacked(board, board.player)
  /\ ~hasZugzwangProneMaterial(board)
  /\ board' = performNullMove(board)
  /\ ply' = ply + 1
  /\ nullSearch' = TRUE
  /\ Evaluate

Next == MakeMove \/ MakeNullMove

Spec == Init /\ [][Next]_vars

----------------------------------------------------------------------------
(* Helpers of the properties: the position as the rules see it, and its    *)
(* FEN string.                                                             *)

Standing(b) ==
  [s \in Squares |->
    LET on == {x \in Players \X PieceTypes : s \in b.pieces[x[1]][x[2]]}
    IN IF on = {} THEN <<"None", "None">> ELSE CHOOSE x \in on : TRUE]

Position(b) ==
  [at |-> Standing(b), turn |-> b.player, rights |-> b.castlingRights, ep |-> b.enPessant]

NumberWord(n) ==
  IF n < 10 THEN <<Digits[n + 1]>> ELSE <<Digits[n \div 10 + 1], Digits[(n % 10) + 1]>>
SquareWord(pos) == <<FileChars[File(pos) + 1], Digits[Row(pos) + 2]>>

RowWord(b, row) ==
  LET at == Standing(b)
      Gap(n) == IF n = 0 THEN <<>> ELSE NumberWord(n)
      Add(s, file) ==
        LET x == at[At(row, file)]
        IN IF x[1] = "None" THEN [s EXCEPT !.gap = @ + 1]
           ELSE [gap |-> 0, word |-> s.word \o Gap(s.gap) \o <<pieceToChar(x[1], x[2])>>]
      end == FoldLeft(Add, [gap |-> 0, word |-> <<>>], <<0, 1, 2, 3, 4, 5, 6, 7>>)
  IN end.word \o Gap(end.gap)

FenOf(b) ==
  LET Rows(word, row) == word \o <<"/">> \o RowWord(b, row)
      castling == SelectSeq(<<"K", "Q", "k", "q">>, LAMBDA c : CastleChars[c] \in b.castlingRights)
  IN << FoldLeft(Rows, RowWord(b, 7), <<6, 5, 4, 3, 2, 1, 0>>),
        IF b.player = "White" THEN <<"w">> ELSE <<"b">>,
        IF castling = <<>> THEN <<"-">> ELSE castling,
        IF b.enPessant = NoPosition THEN <<"-">> ELSE SquareWord(b.enPessant),
        NumberWord(b.halfMoves), NumberWord(b.fullMoves) >>

\* The text of a move, as a GUI sends it.
MoveWord(move) ==
  SquareWord(move.from) \o SquareWord(move.to)
  \o (IF isPromotionMove(move)
        THEN <<CHOOSE c \in DOMAIN PromotionChars : PromotionChars[c] = promotionType(move)>>
        ELSE <<>>)

----------------------------------------------------------------------------
(* Properties.                                                             *)

\* The fields of the board have their types.
TypeInvariant == board \in Boards /\ ply \in 0..MaxPly /\ nullSearch \in BOOLEAN

\* The moves the search plays, those of the generator that do not leave the
\* king attacked, are exactly the legal moves of chess.
Rules == INSTANCE ChessRules
MovesAreLegal ==
  LET Becomes(m) == IF isPromotionMove(m) THEN promotionType(m)
                    ELSE getAttackerAtSquare(board, board.player, m.from)
  IN {<<m.from, m.to, Becomes(m)>> : m \in LegalMoves(board)} = Rules!LegalMoves(Position(board))

\* The quiescence search sees exactly the captures and promotions of the full
\* generator.
NoisyMovesArePseudoLegal ==
  LET all == getAllMoves("PseudoLegal", board)
  IN /\ getAllMoves("Noisy", board) = {m \in all : isNoisyMove(m)}
     /\ getAllMoves("Capture", board) = {m \in all : isCapture(m)}

\* Both of the above: every generator gives the moves it should.
MovesFollowTheRules == MovesAreLegal /\ NoisyMovesArePseudoLegal

\* A position reached by moves and null moves is the one read from its FEN
\* string.  (A FEN string whose two clocks have the same text loses the second.)
ReadBackIsTheSame ==
  LET fen == FenOf(board) IN fen[5] # fen[6] => parse(fen) = {board}

\* The occupation, the attacks and the two hashes are those computed from
\* nothing, although performMove() updates the hashes key by key and
\* performNullMove() keeps the attacks.
IsFresh(b) ==
  /\ b.occupation = [p \in Players |-> occupationOf(b.pieces, p)]
  /\ b.attacks = [p \in Players |-> getAllAttacks(b, p)]
  /\ b.hash = generateHash(b) /\ b.kpHash = generateKingPawnHash(b)

\* What the king-pawn cache returns is what getStaticKingPawnScore() computes
\* for the position: the key tells every two positions apart that differ in a
\* king or a pawn, whatever moves lie between.
KingPawnCacheIsFresh ==
  kpCache.key = board.kpHash => kpCache = KingPawnEntry(board)

\* Board and cache: nothing that is kept from move to move goes stale.
KeptStateIsFresh == IsFresh(board) /\ KingPawnCacheIsFresh

\* The fields keep their types; no move leaves two pieces on a square, a player
\* without its one king, a pawn on a last row or a ninth pawn, the king of the player who just
\* moved attacked, a castling right without its king and rook, or an en passant
\* square without its pawn.
BoardIsSound == TypeInvariant /\ IsPosition(board)

\* The position command finds the move a GUI means; and its loop, which reads
\* the last word again once nothing follows it, does not play that move twice.
MoveTextIsPlayedOnce ==
  \A m \in LegalMoves(board) :
    /\ moveFromString(board, MoveWord(m)) = {m}
    /\ moveFromString(performMove(board, m), MoveWord(m)) = nullopt

\* The same position with the colours exchanged.
Mirror(b) ==
  LET Flip(squares) == {flipPosition(pos) : pos \in squares}
      Swap(rights) == {CastleChars[c] : c \in
        {d \in DOMAIN CastleChars :
           CastleChars[[K |-> "k", Q |-> "q", k |-> "K", q |-> "Q"][d]] \in rights}}
      pieces == [p \in Players |-> [t \in PieceTypes |-> Flip(b.pieces[nextPlayer(p)][t])]]
      bare == [b EXCEPT !.pieces = pieces, !.player = nextPlayer(@),
                        !.castlingRights = Swap(@),
                        !.enPessant = IF @ = NoPosition THEN @ ELSE flipPosition(@)]
      full == updateAttacks(updateOccupation(bare))
  IN [full EXCEPT !.hash = generateHash(full), !.kpHash = generateKingPawnHash(full)]

\* The evaluation is the same for both colours: what White gets in a position
\* Black gets in its mirror image, and the endgame is scaled alike.
EvaluationIsColourBlind ==
  LET mirror == Mirror(board)
      Flip(pos) == IF pos = NoPosition THEN pos ELSE flipPosition(pos)
      Flipped(terms) == {<<t[1], t[2], t[3], Flip(t[4])>> : t \in terms}
  IN \A p \in Players :
       /\ get(mirror, KingPawnEntry(mirror), nextPlayer(p)) = Flipped(get(board, kpCache, p))
       /\ computeEgScaleFactor(mirror, nextPlayer(p)) = computeEgScaleFactor(board, p)

\* No term is read outside its table.
TermsStayInTheirTables ==
  \A p \in Players : \A t \in get(board, kpCache, p) : t[2] \in 0..(TermSize[t[1]] - 1)

\* Both of the above: the terms of a position are those of its mirror image,
\* and all of them exist.
EvaluationIsFair == EvaluationIsColourBlind /\ TermsStayInTheirTables
============================================================================
