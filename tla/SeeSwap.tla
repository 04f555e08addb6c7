------------------------------ MODULE SeeSwap ------------------------------
(***************************************************************************)
(* Static exchange evaluation (evaluation/see_swap.h): who wins material   *)
(* when both sides keep capturing on one square, least valuable piece      *)
(* first.                                                                  *)
(***************************************************************************)
EXTENDS Board
LOCAL INSTANCE FiniteSetsExt

PieceValues == [Pawn |-> 120, Knight |-> 286, Bishop |-> 328, Rook |-> 511,
                Queen |-> 866, King |-> 30000]

getAttackers(board, target, occ) ==
  LET of(t) == board.pieces["White"][t] \cup board.pieces["Black"][t]
  IN (pawnAttackMaskTable["White"][target] \cap board.pieces["Black"]["Pawn"])
     \cup (pawnAttackMaskTable["Black"][target] \cap board.pieces["White"]["Pawn"])
     \cup (knightsTable[target] \cap of("Knight"))
     \cup (getBishopMoves(target, occ) \cap (of("Bishop") \cup of("Queen")))
     \cup (getRookMoves(target, occ) \cap (of("Rook") \cup of("Queen")))
     \cup (kingsTable[target] \cap of("King"))

\* The type of the least valuable attacker of a side; its lowest square is
\* the piece that captures.
leastValuable(board, attackers, player) ==
  LET types == {i \in 1..6 : attackers \cap board.pieces[player][PieceOrder[i]] # {}}
  IN IF types = {} THEN NoPiece ELSE PieceOrder[Min(types)]
lsbOf(board, attackers, player, type) == Min(attackers \cap board.pieces[player][type])

\* The piece that stands on the target after the move, the occupation then,
\* and the value of what the move wins.
NextPiece(board, move) ==
  IF isPromotionMove(move) THEN promotionType(move)
                           ELSE getAttackerAtSquare(board, board.player, move.from)
OccupationAfter(board, move) ==
  LET occ == (both(board) \ {move.from}) \cup {move.to}
  IN IF takeEnPessant(move) THEN occ \ {enpessantCapturePosition(board.player, move.to)} ELSE occ
Victim(board, move) ==
  IF takeEnPessant(move) THEN "Pawn" ELSE getTargetAtSquare(board, board.player, move.to)
Gain(board, move) ==
  (IF isCapture(move) THEN PieceValues[Victim(board, move)] ELSE 0)
  + (IF isPromotionMove(move) THEN PieceValues[promotionType(move)] - PieceValues.Pawn ELSE 0)

\* The loop of isGreaterThanMargin(): the side that is behind captures.
RECURSIVE Exchange(_, _, _, _, _, _)
Exchange(board, target, player, occ, attackers, s) ==
  LET own == player = board.player
      piece == leastValuable(board, attackers, player)
      left == occ \ {lsbOf(board, attackers, player, piece)}
      value == PieceValues[s.next]
      enough == IF own THEN s.balance >= 0 ELSE s.balance =< 0
      illegal == /\ piece = "King"
                 /\ attackers \cap left \cap board.occupation[nextPlayer(board.player)] # {}
  IN IF enough \/ piece = NoPiece \/ illegal THEN s.balance
     ELSE Exchange(board, target, nextPlayer(player), left,
                   getAttackers(board, target, left) \cap left,
                   [balance |-> IF own THEN s.balance + value ELSE s.balance - value,
                    next |-> piece])

\* Mutant: the move itself wins the margin, whatever the opponent takes back.
isGainGreaterThanMargin(board, move, margin) == Gain(board, move) >= margin

isGreaterThanMargin(board, move, margin) ==
  IF isCastleMove(move) THEN margin >= 0
  ELSE LET occ == OccupationAfter(board, move)
           start == [balance |-> Gain(board, move) - margin, next |-> NextPiece(board, move)]
       IN Exchange(board, move.to, nextPlayer(board.player), occ,
                   getAttackers(board, move.to, occ) \cap occ, start) >= 0

\* The margin of the search at a depth, which it asks for up to seeDepthLimit.
seeDepthLimit == 10
SeeMargin(move, depth) == IF move.flag = Flag.Quiet THEN -(50 * depth) ELSE -(18 * depth * depth)

\* The gains of getCaptureScore(): one per capture, each the value of the
\* piece taken less the gain before it.
RECURSIVE Gains(_, _, _, _, _, _)
Gains(board, target, player, occ, next, gains) ==
  LET attackers == getAttackers(board, target, occ) \cap occ
      piece == leastValuable(board, attackers, player)
      left == occ \ {lsbOf(board, attackers, player, piece)}
  IN IF piece = NoPiece THEN gains
     ELSE Gains(board, target, nextPlayer(player), left, piece,
                Append(gains, PieceValues[next] - gains[Len(gains)]))

RECURSIVE Backtrack(_)
Backtrack(gains) ==
  LET n == Len(gains)
  IN IF n = 1 THEN gains[1]
     ELSE Backtrack([SubSeq(gains, 1, n - 1) EXCEPT ![n - 1] = -Max({-@, gains[n]})])

getCaptureScore(board, move) ==
  Backtrack(Gains(board, move.to, nextPlayer(board.player), OccupationAfter(board, move),
                  NextPiece(board, move), <<Gain(board, move)>>))

----------------------------------------------------------------------------
(* What an exchange is worth: each side captures with its least valuable   *)
(* piece or stops, whichever is better for it.                             *)

RECURSIVE BestReply(_, _, _, _, _)
BestReply(board, target, player, occ, standing) ==
  LET attackers == getAttackers(board, target, occ) \cap occ
      piece == leastValuable(board, attackers, player)
      left == occ \ {lsbOf(board, attackers, player, piece)}
  IN IF piece = NoPiece THEN 0
     ELSE Max({0, PieceValues[standing]
                  - BestReply(board, target, nextPlayer(player), left, piece)})

ExchangeValue(board, move) ==
  Gain(board, move) - BestReply(board, move.to, nextPlayer(board.player),
                                OccupationAfter(board, move), NextPiece(board, move))
============================================================================
