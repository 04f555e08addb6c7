------------------------------- MODULE Board -------------------------------
(***************************************************************************)
(* The position: struct BitBoard (core/bit_board.h), its Zobrist hashes    *)
(* (core/zobrist_hashing.h), move generation (movegen/) and performMove()  *)
(* (core/move_handling.h).                                                 *)
(*                                                                         *)
(* A hash is the set of the keys that were XORed an odd number of times;   *)
(* two sets are equal exactly when the 64-bit hashes are, but for          *)
(* collisions of the pseudo-random keys.  A piece is a player and a type.  *)
(***************************************************************************)
EXTENDS Attacks

NoPosition == -1
NoPiece == "None"

getPieceAt(board, player, pos) ==
  LET at == {i \in 1..6 : pos \in board.pieces[player][PieceOrder[i]]}
  IN IF at = {} THEN NoPiece ELSE PieceOrder[CHOOSE i \in at : \A j \in at : i =< j]
getAttackerAtSquare(board, player, pos) == getPieceAt(board, player, pos)
getTargetAtSquare(board, player, pos) == getPieceAt(board, nextPlayer(player), pos)

occupationOf(pieces, player) == UNION {pieces[player][t] : t \in PieceTypes}
both(board) == board.occupation["White"] \cup board.occupation["Black"]

hasZugzwangProneMaterial(board) ==
  LET own == board.pieces[board.player]
  IN board.occupation[board.player] = own["Pawn"] \cup own["King"]

lightSquares == {pos \in Squares : (Row(pos) + File(pos)) % 2 = 1}

hasInsufficientMaterial(board) ==
  LET of(t) == board.pieces["White"][t] \cup board.pieces["Black"][t]
      totalPieces == Cardinality(both(board))
      bishops == of("Bishop")
  IN /\ totalPieces =< 4
     /\ of("Pawn") \cup of("Rook") \cup of("Queen") = {}
     /\ \/ totalPieces =< 2
        \/ /\ totalPieces = 3
           /\ Cardinality(bishops \cup of("Knight")) = 1
        \/ /\ totalPieces = 4
           /\ Cardinality(board.pieces["White"]["Bishop"]) = 1
           /\ Cardinality(bishops \cap lightSquares) = 1
           /\ Cardinality(bishops \ lightSquares) = 1

----------------------------------------------------------------------------
(* Attacks of a side.                                                      *)

getPawnAttacks(board, player) ==
  LET pawns == board.pieces[player]["Pawn"]
  IN Shift(pawns \ aFile, Forward(player) - 1)
     \cup Shift(pawns \ hFile, Forward(player) + 1)

getAllAttacks(board, player) ==
  LET occ == both(board)
      own == board.pieces[player]
      Union(froms, Attacked(_)) == UNION {Attacked(from) : from \in froms}
      Knights(from) == knightsTable[from]
      Kings(from) == kingsTable[from]
      Rooks(from) == getRookMoves(from, occ)
      Bishops(from) == getBishopMoves(from, occ)
  IN getPawnAttacks(board, player)
     \cup Union(own["Knight"], Knights)
     \cup Union(own["Rook"] \cup own["Queen"], Rooks)
     \cup Union(own["Bishop"] \cup own["Queen"], Bishops)
     \cup Union(own["King"], Kings)

isKingAttacked(board, player) ==
  board.pieces[player]["King"] \cap board.attacks[nextPlayer(player)] # {}

----------------------------------------------------------------------------
(* Hashes.                                                                 *)

Xor(hash, key) == IF key \in hash THEN hash \ {key} ELSE hash \cup {key}

PieceKey(player, type, pos) == <<player, type, pos>>
EnpessantKey(pos) == <<"enPessant", pos>>
CastlingKey(rights) == <<"castling", rights>>
PlayerKey == <<"player">>

PieceKeys(board, types) ==
  UNION {{PieceKey(p, t, pos) : pos \in board.pieces[p][t]} : p \in Players, t \in types}

generateHash(board) ==
  PieceKeys(board, PieceTypes)
  \cup {CastlingKey(board.castlingRights)}
  \cup (IF board.enPessant = NoPosition THEN {} ELSE {EnpessantKey(board.enPessant)})
  \cup (IF board.player = "Black" THEN {PlayerKey} ELSE {})

generateKingPawnHash(board) == PieceKeys(board, {"Pawn", "King"})

\* One key per type and number of pieces; kings are left out.
generateMaterialHash(board) ==
  {<<p, t, Cardinality(board.pieces[p][t])>> : p \in Players, t \in PieceTypes \ {"King"}}

\* What a board holds.
CastlingRights == {"WhiteKingSide", "WhiteQueenSide", "BlackKingSide", "BlackQueenSide"}
Keys ==
  {PieceKey(p, t, pos) : p \in Players, t \in PieceTypes, pos \in Squares}
  \cup {EnpessantKey(pos) : pos \in Squares}
  \cup {CastlingKey(rights) : rights \in SUBSET CastlingRights}
  \cup {PlayerKey}
Boards ==
  [pieces : [Players -> [PieceTypes -> SUBSET Squares]],
   occupation : [Players -> SUBSET Squares], attacks : [Players -> SUBSET Squares],
   castlingRights : SUBSET CastlingRights, player : Players,
   enPessant : Squares \cup {NoPosition}, fullMoves : Nat, halfMoves : Nat,
   hash : SUBSET Keys, kpHash : SUBSET Keys]

----------------------------------------------------------------------------
(* Moves.  Bit 2 of the flag marks a capture, bit 3 a promotion.           *)

Flag == [Quiet |-> 0, DoublePush |-> 1, KingCastle |-> 2, QueenCastle |-> 3,
         Capture |-> 4, EnPassant |-> 5, KnightPromotion |-> 8,
         BishopPromotion |-> 9, RookPromotion |-> 10, QueenPromotion |-> 11]

Move(from, to, flag) == [from |-> from, to |-> to, flag |-> flag]
nullMove == Move(0, 0, 0)

create(from, to, capture) == Move(from, to, IF capture THEN Flag.Capture ELSE Flag.Quiet)

isCapture(move) == (move.flag \div 4) % 2 = 1
isPromotionMove(move) == move.flag \div 8 = 1
isNoisyMove(move) == isPromotionMove(move) \/ isCapture(move)
isQuietMove(move) == ~isNoisyMove(move)
isCastleMove(move) == move.flag \in {Flag.KingCastle, Flag.QueenCastle}
isDoublePush(move) == move.flag = Flag.DoublePush
takeEnPessant(move) == move.flag = Flag.EnPassant

promotionFlag(type, capture) ==
  (CASE type = "Knight" -> Flag.KnightPromotion
     [] type = "Bishop" -> Flag.BishopPromotion
     [] type = "Rook" -> Flag.RookPromotion
     [] type = "Queen" -> Flag.QueenPromotion)
  + (IF capture THEN 4 ELSE 0)

promotionType(move) ==
  IF isPromotionMove(move)
    THEN CHOOSE t \in {"Knight", "Bishop", "Rook", "Queen"} :
           move.flag = promotionFlag(t, isCapture(move))
    ELSE NoPiece

----------------------------------------------------------------------------
(* Pseudo-legal moves: the list ValidMoves as a set.  The order in it is   *)
(* that of the generators and matters to no caller but the move picker.    *)

\* Captures and noisy moves are those that end on an opponent's piece.
Generate(type, board, froms, Targets(_)) ==
  LET own == board.occupation[board.player]
      their == board.occupation[nextPlayer(board.player)]
      To(from) == IF type = "PseudoLegal" THEN Targets(from) \ own
                                          ELSE Targets(from) \cap their
  IN UNION {{create(from, to, to \in their) : to \in To(from)} : from \in froms}

generateKnightMoves(type, board, knights) ==
  LET Targets(from) == knightsTable[from] IN Generate(type, board, knights, Targets)
generateRookMoves(type, board, rooks) ==
  LET Targets(from) == getRookMoves(from, both(board)) IN Generate(type, board, rooks, Targets)
generateBishopMoves(type, board, bishops) ==
  LET Targets(from) == getBishopMoves(from, both(board))
  IN Generate(type, board, bishops, Targets)
generateQueenMoves(type, board, queens) ==
  generateRookMoves(type, board, queens) \cup generateBishopMoves(type, board, queens)
generateKingMoves(type, board, king, attacks) ==
  LET Targets(from) == kingsTable[from] \ attacks IN Generate(type, board, king, Targets)

\* The four squares of each right: king and target, and what must be free of
\* pieces and of attacks.
CastlingTable ==
  [White |-> [QueenSide |-> [to |-> 2, free |-> {1, 2, 3}, safe |-> {2, 3, 4}],
              KingSide |-> [to |-> 6, free |-> {5, 6}, safe |-> {4, 5, 6}]],
   Black |-> [QueenSide |-> [to |-> 58, free |-> {57, 58, 59}, safe |-> {58, 59, 60}],
              KingSide |-> [to |-> 62, free |-> {61, 62}, safe |-> {60, 61, 62}]]]

Right(player, side) ==
  IF player = "White" THEN IF side = "KingSide" THEN "WhiteKingSide" ELSE "WhiteQueenSide"
                      ELSE IF side = "KingSide" THEN "BlackKingSide" ELSE "BlackQueenSide"

\* Mutant: the king may castle out of and through check.
generateCastlingMovesInCheck(board, attacks) ==
  LET player == board.player
      Allowed(side) ==
        /\ Right(player, side) \in board.castlingRights
        /\ CastlingTable[player][side].free \cap both(board) = {}
  IN {Move(IF player = "White" THEN E1 ELSE E8, CastlingTable[player][side].to,
           IF side = "KingSide" THEN Flag.KingCastle ELSE Flag.QueenCastle) :
        side \in {s \in {"KingSide", "QueenSide"} : Allowed(s)}}

generateCastlingMoves(board, attacks) ==
  LET player == board.player
      Allowed(side) ==
        /\ Right(player, side) \in board.castlingRights
        /\ CastlingTable[player][side].free \cap both(board) = {}
        /\ CastlingTable[player][side].safe \cap attacks = {}
  IN {Move(IF player = "White" THEN E1 ELSE E8, CastlingTable[player][side].to,
           IF side = "KingSide" THEN Flag.KingCastle ELSE Flag.QueenCastle) :
        side \in {s \in {"KingSide", "QueenSide"} : Allowed(s)}}

\* The squares the pawns reach, and where each came from.
backtrack(targets, n, MakeMove(_, _)) == {MakeMove(to - n, to) : to \in targets}

Promotions(targets, n, capture) ==
  {Move(to - n, to, promotionFlag(t, capture)) :
     to \in targets, t \in {"Queen", "Knight", "Bishop", "Rook"}}

generatePawnMoves(type, board, pawns) ==
  LET player == board.player
      all == both(board)
      their == board.occupation[nextPlayer(player)]
      f == Forward(player)
      start == RowMask[IF player = "White" THEN 1 ELSE 6]
      last == RowMask[IF player = "White" THEN 6 ELSE 1]
      Straight(from) == Shift(from, f) \ all
      Double(from) == Shift(from \cap start, 2 * f) \ (all \cup Shift(all, f))
      Left(from) == Shift(from \ aFile, f - 1) \cap their
      Right_(from) == Shift(from \ hFile, f + 1) \cap their
      Quiet(from, to) == create(from, to, FALSE)
      Capture(from, to) == create(from, to, TRUE)
      DoublePush(from, to) == Move(from, to, Flag.DoublePush)
  IN (IF type = "PseudoLegal"
        THEN backtrack(Straight(pawns \ last), f, Quiet)
             \cup backtrack(Double(pawns), 2 * f, DoublePush)
        ELSE {})
     \cup backtrack(Left(pawns \ last), f - 1, Capture)
     \cup backtrack(Right_(pawns \ last), f + 1, Capture)
     \cup (IF type \in {"PseudoLegal", "Noisy"}
             THEN Promotions(Straight(pawns \cap last), f, FALSE) ELSE {})
     \cup Promotions(Left(pawns \cap last), f - 1, TRUE)
     \cup Promotions(Right_(pawns \cap last), f + 1, TRUE)

generateEnPessantMoves(board, pawns) ==
  LET f == Forward(board.player)
      square == {board.enPessant} \ both(board)
      EnPassant(from, to) == Move(from, to, Flag.EnPassant)
  IN backtrack(Shift(pawns \ aFile, f - 1) \cap square, f - 1, EnPassant)
     \cup backtrack(Shift(pawns \ hFile, f + 1) \cap square, f + 1, EnPassant)

getPawnMoves(type, board) ==
  LET pawns == board.pieces[board.player]["Pawn"]
  IN generatePawnMoves(type, board, pawns)
     \cup (IF board.enPessant = NoPosition THEN {} ELSE generateEnPessantMoves(board, pawns))

getCastlingMoves(type, board, attacks) ==
  IF type = "PseudoLegal" THEN generateCastlingMoves(board, attacks) ELSE {}

getAllMoves(type, board) ==
  LET own == board.pieces[board.player]
      attacks == board.attacks[nextPlayer(board.player)]
  IN generateKingMoves(type, board, own["King"], attacks)
     \cup getPawnMoves(type, board)
     \cup generateKnightMoves(type, board, own["Knight"])
     \cup generateRookMoves(type, board, own["Rook"])
     \cup generateBishopMoves(type, board, own["Bishop"])
     \cup generateQueenMoves(type, board, own["Queen"])
     \cup getCastlingMoves(type, board, attacks)

----------------------------------------------------------------------------
(* Performing a move.                                                      *)

clearPiece(board, player, type, pos) ==
  [board EXCEPT !.pieces[player][type] = @ \ {pos},
                !.hash = Xor(@, PieceKey(player, type, pos))]
setPiece(board, player, type, pos) ==
  [board EXCEPT !.pieces[player][type] = @ \cup {pos},
                !.hash = Xor(@, PieceKey(player, type, pos))]
movePiece(board, player, type, from, to) ==
  setPiece(clearPiece(board, player, type, from), player, type, to)
hashKp(board, player, type, pos) ==
  [board EXCEPT !.kpHash = Xor(@, PieceKey(player, type, pos))]

performCastleMove(board, move) ==
  LET player == board.player
      home == IF player = "White" THEN A1 ELSE A8
      king == movePiece(board, player, "King", move.from, move.to)
      rook == IF move.flag = Flag.KingCastle
                THEN movePiece(king, player, "Rook", home + 7, home + 5)
                ELSE movePiece(king, player, "Rook", home, home + 3)
  IN hashKp(hashKp(rook, player, "King", move.from), player, "King", move.to)

enpessantCapturePosition(player, pos) == pos - Forward(player)

performEnpessantMove(board, move) ==
  LET player == board.player
      capturePos == enpessantCapturePosition(player, move.to)
      moved == movePiece(board, player, "Pawn", move.from, move.to)
      taken == clearPiece(moved, nextPlayer(player), "Pawn", capturePos)
  IN hashKp(hashKp(hashKp(taken, player, "Pawn", move.from), player, "Pawn", move.to),
            nextPlayer(player), "Pawn", capturePos)

\* The captured piece, if the move is a capture.
clearVictim(board, move) ==
  LET their == nextPlayer(board.player)
      victim == getTargetAtSquare(board, board.player, move.to)
      cleared == clearPiece(board, their, victim, move.to)
  IN IF ~isCapture(move) \/ victim = NoPiece THEN board
     ELSE IF victim = "Pawn" THEN hashKp(cleared, their, "Pawn", move.to)
     ELSE cleared

performPromotionMove(board, move) ==
  LET player == board.player
      pawn == hashKp(clearPiece(board, player, "Pawn", move.from), player, "Pawn", move.from)
  IN setPiece(clearVictim(pawn, move), player, promotionType(move), move.to)

performPlainMove(board, move, type) ==
  LET player == board.player
      moved == movePiece(clearVictim(board, move), player, type, move.from, move.to)
  IN IF type \in {"Pawn", "King"}
       THEN hashKp(hashKp(moved, player, type, move.from), player, type, move.to)
       ELSE moved

\* Mutant: only the piece that moves loses rights, not the rook it takes.
updateCastlingRightsOfMover(board, move) ==
  LET rights == board.castlingRights \ castlingRightMaskTable[move.from]
  IN [board EXCEPT !.castlingRights = rights,
                   !.hash = Xor(Xor(@, CastlingKey(board.castlingRights)), CastlingKey(rights))]

updateCastlingRights(board, move) ==
  LET rights == board.castlingRights \ (castlingRightMaskTable[move.from]
                                        \cup castlingRightMaskTable[move.to])
  IN [board EXCEPT !.castlingRights = rights,
                   !.hash = Xor(Xor(@, CastlingKey(board.castlingRights)), CastlingKey(rights))]

\* Mutant: the key of the old square stays in the hash.
clearEnpessantKeepsKey(board) == [board EXCEPT !.enPessant = NoPosition]

clearEnpessant(board) ==
  IF board.enPessant = NoPosition THEN board
  ELSE [board EXCEPT !.enPessant = NoPosition, !.hash = Xor(@, EnpessantKey(board.enPessant))]

setEnpessant(board, player, move) ==
  LET pos == enpessantCapturePosition(player, move.to)
  IN IF isDoublePush(move)
       THEN [board EXCEPT !.enPessant = pos, !.hash = Xor(@, EnpessantKey(pos))]
       ELSE board

updateOccupation(board) ==
  [board EXCEPT !.occupation = [p \in Players |-> occupationOf(board.pieces, p)]]
\* Mutant: what the opponent attacks is kept, as if the move changed nothing.
updateAttacksOfMover(board) ==
  [board EXCEPT !.attacks[board.player] = getAllAttacks(board, board.player)]

updateAttacks(board) ==
  [board EXCEPT !.attacks = [p \in Players |-> getAllAttacks(board, p)]]

performMove(board, move) ==
  LET player == board.player
      type == getAttackerAtSquare(board, player, move.from)
      moved == CASE isCastleMove(move) -> performCastleMove(board, move)
                 [] takeEnPessant(move) -> performEnpessantMove(board, move)
                 [] isPromotionMove(move) -> performPromotionMove(board, move)
                 [] OTHER -> performPlainMove(board, move, type)
      rights == updateCastlingRights(moved, move)
      ep == setEnpessant(clearEnpessant(rights), player, move)
      attacked == updateAttacks(updateOccupation(ep))
  IN [attacked EXCEPT
        !.fullMoves = IF player = "Black" THEN @ + 1 ELSE @,
        !.halfMoves = IF isCapture(move) \/ type = "Pawn" THEN 0 ELSE @ + 1,
        !.player = nextPlayer(player),
        !.hash = Xor(@, PlayerKey)]

\* The board of the null move: the opponent moves, attacks are kept.
performNullMove(board) ==
  [clearEnpessant(board) EXCEPT !.player = nextPlayer(@), !.hash = Xor(@, PlayerKey)]
============================================================================
