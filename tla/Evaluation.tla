----------------------------- MODULE Evaluation -----------------------------
(***************************************************************************)
(* Static evaluation (evaluation/term_methods.h, static_evaluation.h).     *)
(*                                                                         *)
(* The tuned numbers are left out: a score is the set of the terms added   *)
(* up, each <<table, index, times, where>>, like the trace the tuner keeps *)
(* (TUNING).  `where' is the square of the piece a term was added for, or  *)
(* NoPosition.  White's terms count for, Black's against.                  *)
(***************************************************************************)
EXTENDS Board
LOCAL INSTANCE FiniteSetsExt

TermSize ==
  LET scalars == {"tempoScore", "doublePawnPenalty", "isolatedPawnPenalty",
                  "pawnSquareRuleBonus", "pawnPhalanxScore", "rookOpenFileBonus",
                  "rookSemiOpenFileBonus", "rook7thRankBonus", "queenOpenFileBonus",
                  "queenSemiOpenFileBonus", "knightShelterBonus", "bishopShelterBonus",
                  "bishopLongDiagScore", "queenDiscoveredAttackScore", "kingAttackPawn",
                  "bishopPairScore"}
      rows == {"protectedPawnScore", "passedPawnBonus", "freePassedPawnBonus",
               "protectedPassedPawnBonus", "passersOurKingDistance", "passersTheirKingDistance",
               "passerCandidateDefended", "passerCandidateUndefended"}
      pieces == {"pawnAttacks", "knightAttacks", "bishopAttacks", "rookAttacks",
                 "queenAttacks", "safeChecks", "unsafeChecks"}
      squares == {"psqtPawns", "psqtKnights", "psqtBishops", "psqtRooks", "psqtQueens", "psqtKings"}
      others == [pieceValues |-> 6, pawnShieldBonus |-> 3, pawnStormScore |-> 3,
                 knightMobilityScore |-> 9, knightOutpostScore |-> 4, bishopMobilityScore |-> 14,
                 bishopOutpostScore |-> 4, badBishopScore |-> 9, rookMobilityScore |-> 15,
                 queenMobilityScore |-> 28, kingVirtualMobilityScore |-> 28, kingZone |-> 15,
                 pawnPushThreats |-> 6]
  IN [t \in scalars \cup rows \cup pieces \cup squares \cup DOMAIN others |->
        CASE t \in scalars -> 1 [] t \in rows -> 8 [] t \in pieces -> 5
          [] t \in squares -> 64 [] OTHER -> others[t]]

ADD_SCORE_MULTI_INDEXED(table, times, index, where) == {<<table, index, times, where>>}
ADD_SCORE_INDEXED(table, index, where) == ADD_SCORE_MULTI_INDEXED(table, 1, index, where)
ADD_SCORE(table, where) == ADD_SCORE_INDEXED(table, 0, where)
When(condition, terms) == IF condition THEN terms ELSE {}

TypeIndex(type) == (CHOOSE i \in 1..6 : PieceOrder[i] = type) - 1
KingOf(board, player) == Min(board.pieces[player]["King"])
Sliders(board, pos) == getBishopMoves(pos, both(board)) \cup getRookMoves(pos, both(board))

\* The squares a piece of each type reaches, less those of its own side.
Moves(board, player, type, pos) ==
  (CASE type = "Knight" -> knightsTable[pos]
     [] type = "Bishop" -> getBishopMoves(pos, both(board))
     [] type = "Rook" -> getRookMoves(pos, both(board))
     [] type = "Queen" -> Sliders(board, pos)
     [] type = "King" -> kingsTable[pos]) \ board.occupation[player]

----------------------------------------------------------------------------
(* The context: what each side's pieces attack, gathered by the piece      *)
(* terms before the terms that consume it.                                 *)

PieceAttacks(board, player, type) ==
  IF type = "Pawn" THEN getPawnAttacks(board, player)
  ELSE UNION {Moves(board, player, type, pos) : pos \in board.pieces[player][type]}

\* Which piece of the opponent attacks which square of the king zone: kings
\* attack none.
KingZoneHits(board, player) ==
  LET opponent == nextPlayer(player)
      zone == kingsTable[KingOf(board, player)]
      From(type) == UNION {{pos} \X (Moves(board, opponent, type, pos) \cap zone) :
                             pos \in board.pieces[opponent][type]}
  IN UNION {From(type) : type \in {"Knight", "Bishop", "Rook", "Queen"}}

AttacksToKingZone(board, player) ==
  Cardinality(kingsTable[KingOf(board, player)] \cap getPawnAttacks(board, nextPlayer(player)))
  + Cardinality(KingZoneHits(board, player))

prepareContext(board) ==
  LET attacks == [p \in Players |-> [t \in PieceTypes |-> PieceAttacks(board, p, t)]]
  IN [kingZone |-> [p \in Players |-> kingsTable[KingOf(board, p)]],
      attacksToKingZone |-> [p \in Players |-> AttacksToKingZone(board, p)],
      pieceAttacks |-> attacks,
      threats |-> [p \in Players |-> UNION {attacks[p][t] : t \in PieceTypes}]]

----------------------------------------------------------------------------
(* Kings and pawns: what the king-pawn cache keeps.                        *)

Stoppers(board, player, pos) ==
  passedPawnMaskTable[player][pos] \cap board.pieces[nextPlayer(player)]["Pawn"]
PassedPawns(board, player) ==
  {pos \in board.pieces[player]["Pawn"] : Stoppers(board, player, pos) = {}}

\* ^ of two bitboards.
SymmetricDifference(a, b) == (a \ b) \cup (b \ a)

\* No pawn of the opponent can safely stop the advance and the square ahead
\* is not outnumbered.
CandidateTerms(board, player, pos) ==
  LET opponent == nextPlayer(player)
      ours == board.pieces[player]["Pawn"]
      theirs == board.pieces[opponent]["Pawn"]
      pushed == pushForward(player, {pos})
      threats == pawnAttackMaskTable[player][pos] \cap theirs
      defenders == pawnAttackMaskTable[opponent][pos] \cap ours
      pushedThreats == pawnAttacks(player, pushed) \cap theirs
      pushedDefenders == pawnAttacks(opponent, pushed) \cap ours
      leftovers == SymmetricDifference(SymmetricDifference(Stoppers(board, player, pos), threats),
                                       pushedThreats)
      table == IF Cardinality(defenders) >= Cardinality(threats)
                 THEN "passerCandidateDefended" ELSE "passerCandidateUndefended"
  IN When(leftovers = {} /\ Cardinality(pushedDefenders) >= Cardinality(pushedThreats),
          ADD_SCORE_INDEXED(table, relativeRow(player, pos), pos))

PasserTerms(board, player, pos) ==
  ADD_SCORE_INDEXED("passedPawnBonus", relativeRow(player, pos), pos)
  \cup ADD_SCORE_INDEXED("passersOurKingDistance",
                         absoluteDistance(pos, KingOf(board, player)), pos)
  \cup ADD_SCORE_INDEXED("passersTheirKingDistance",
                         absoluteDistance(pos, KingOf(board, nextPlayer(player))), pos)

\* How far a pawn is ahead of a king, in rows, at most the size of the table.
ShieldIndex(king, pos) == Min({Distance(Row(king), Row(pos)), 3}) - 1

PawnTerms(board, player, pos) ==
  LET opponent == nextPlayer(player)
      ours == board.pieces[player]["Pawn"]
      king == KingOf(board, player)
      theirKing == KingOf(board, opponent)
  IN ADD_SCORE_INDEXED("pieceValues", 0, pos)
     \cup ADD_SCORE_INDEXED("psqtPawns", relativePosition(player, pos), pos)
     \cup When(Cardinality(ours \cap FileMask[File(pos)]) > 1, ADD_SCORE("doublePawnPenalty", pos))
     \cup When(ours \cap isolationMaskTable[pos] = {}, ADD_SCORE("isolatedPawnPenalty", pos))
     \cup When(pos \in passedPawnMaskTable[player][king],
               ADD_SCORE_INDEXED("pawnShieldBonus", ShieldIndex(king, pos), pos))
     \cup When(pos \in passedPawnMaskTable[opponent][theirKing],
               ADD_SCORE_INDEXED("pawnStormScore", ShieldIndex(theirKing, pos), pos))
     \cup When(pos \in getPawnAttacks(board, player),
               ADD_SCORE_INDEXED("protectedPawnScore", relativeRow(player, pos), pos))
     \cup When(pos \in moveLeft(ours) \cup moveRight(ours), ADD_SCORE("pawnPhalanxScore", pos))
     \cup (IF Stoppers(board, player, pos) = {} THEN PasserTerms(board, player, pos)
                                                ELSE CandidateTerms(board, player, pos))

getStaticKingPawnScore(board, player) ==
  LET king == KingOf(board, player)
  IN ADD_SCORE_INDEXED("psqtKings", relativePosition(player, king), NoPosition)
     \cup When(kingsTable[king] \cap board.pieces[nextPlayer(player)]["Pawn"] # {},
               ADD_SCORE("kingAttackPawn", NoPosition))
     \cup UNION {PawnTerms(board, player, pos) : pos \in board.pieces[player]["Pawn"]}

\* An entry of the cache, and the slot of the key: one slot stands for 2^16.
KingPawnEntry(board) ==
  [key |-> board.kpHash,
   score |-> [p \in Players |-> getStaticKingPawnScore(board, p)],
   passedPawns |-> [p \in Players |-> PassedPawns(board, p)]]
fetchOrStoreKpCache(cache, board) ==
  IF cache.key = board.kpHash THEN cache ELSE KingPawnEntry(board)

----------------------------------------------------------------------------
(* Pieces.                                                                 *)

getTempoScore(board, player) == When(board.player = player, ADD_SCORE("tempoScore", NoPosition))

Shelter(board, player, type, table) ==
  ADD_SCORE_MULTI_INDEXED(table,
    Cardinality(pushForward(player, board.pieces[player][type])
                \cap board.pieces[player]["Pawn"]), 0, NoPosition)

\* What every piece but king and pawn adds.
PieceTerms(board, player, type, psqt, mobility, pos) ==
  LET safe == Moves(board, player, type, pos) \ getPawnAttacks(board, nextPlayer(player))
  IN ADD_SCORE_INDEXED("pieceValues", TypeIndex(type), pos)
     \cup ADD_SCORE_INDEXED(psqt, relativePosition(player, pos), pos)
     \cup ADD_SCORE_INDEXED(mobility, Cardinality(safe), pos)

\* Outside files count one, a pawn that defends two.
OutpostTerm(board, player, table, pos) ==
  LET theirPawns == board.pieces[nextPlayer(player)]["Pawn"]
      isOutside == IF pos \in aFile \cup hFile THEN 1 ELSE 0
      isDefended == IF pos \in getPawnAttacks(board, player) THEN 2 ELSE 0
  IN When(/\ outpostSquareMaskTable[player][pos] \cap theirPawns = {}
          /\ pos \in outpostRankMaskTable[player],
          ADD_SCORE_INDEXED(table, isOutside + isDefended, pos))

getKnightScore(board, player) ==
  Shelter(board, player, "Knight", "knightShelterBonus")
  \cup UNION {PieceTerms(board, player, "Knight", "psqtKnights",
                         "knightMobilityScore", pos)
              \cup OutpostTerm(board, player, "knightOutpostScore", pos) :
                pos \in board.pieces[player]["Knight"]}

centerSquares == {At(r, f) : r \in {3, 4}, f \in {3, 4}}

getBishopScore(board, player) ==
  LET bishops == board.pieces[player]["Bishop"]
      SameColor(pos) == IF pos \in lightSquares THEN lightSquares ELSE Squares \ lightSquares
      Terms(pos) ==
        PieceTerms(board, player, "Bishop", "psqtBishops",
                   "bishopMobilityScore", pos)
        \cup ADD_SCORE_INDEXED("badBishopScore",
               Cardinality(SameColor(pos) \cap board.pieces[player]["Pawn"]), pos)
        \cup When(Cardinality(Moves(board, player, "Bishop", pos) \cap centerSquares) >= 2,
                  ADD_SCORE("bishopLongDiagScore", pos))
        \cup OutpostTerm(board, player, "bishopOutpostScore", pos)
  IN Shelter(board, player, "Bishop", "bishopShelterBonus")
     \cup When(Cardinality(bishops) >= 2, ADD_SCORE("bishopPairScore", NoPosition))
     \cup UNION {Terms(pos) : pos \in bishops}

\* Open files have no pawn, semi-open ones none of ours.
FileTerms(board, player, open, semiOpen, pos) ==
  LET ours == board.pieces[player]["Pawn"] \cap FileMask[File(pos)]
      theirs == board.pieces[nextPlayer(player)]["Pawn"] \cap FileMask[File(pos)]
  IN When(ours \cup theirs = {}, ADD_SCORE(open, pos)) \cup When(ours = {}, ADD_SCORE(semiOpen, pos))

getRookScore(board, player) ==
  LET their == board.pieces[nextPlayer(player)]
      row7Mask == RowMask[IF player = "White" THEN 6 ELSE 1]
      row8Mask == RowMask[IF player = "White" THEN 7 ELSE 0]
      Terms(pos) ==
        PieceTerms(board, player, "Rook", "psqtRooks", "rookMobilityScore", pos)
        \cup FileTerms(board, player, "rookOpenFileBonus", "rookSemiOpenFileBonus", pos)
        \cup When(/\ pos \in row7Mask
                  /\ (their["Pawn"] \cap row7Mask) \cup (their["King"] \cap row8Mask) # {},
                  ADD_SCORE("rook7thRankBonus", pos))
  IN UNION {Terms(pos) : pos \in board.pieces[player]["Rook"]}

\* Rooks and bishops of the opponent that would attack the square if what
\* stands between were gone.
getDiscoveredAttacks(board, player, pos) ==
  LET opponent == nextPlayer(player)
      occupancy == both(board)
      rookAttacks == getRookMoves(pos, occupancy)
      bishopAttacks == getBishopMoves(pos, occupancy)
  IN ((board.pieces[opponent]["Rook"] \ rookAttacks)
        \cap getRookMoves(pos, occupancy \ rookAttacks))
     \cup ((board.pieces[opponent]["Bishop"] \ bishopAttacks)
             \cap getBishopMoves(pos, occupancy \ bishopAttacks))

getQueenScore(board, player) ==
  LET Terms(pos) ==
        PieceTerms(board, player, "Queen", "psqtQueens", "queenMobilityScore", pos)
        \cup FileTerms(board, player, "queenOpenFileBonus", "queenSemiOpenFileBonus", pos)
        \cup When(getDiscoveredAttacks(board, player, pos) # {},
                  ADD_SCORE("queenDiscoveredAttackScore", pos))
  IN UNION {Terms(pos) : pos \in board.pieces[player]["Queen"]}

getKingScore(board, player) ==
  UNION {ADD_SCORE_INDEXED("kingVirtualMobilityScore",
           Cardinality(Sliders(board, pos) \ board.occupation[player]), pos) :
         pos \in board.pieces[player]["King"]}

----------------------------------------------------------------------------
(* Terms that consume the context.                                         *)

getKingZoneScore(ctx, player) ==
  ADD_SCORE_INDEXED("kingZone", Min({ctx.attacksToKingZone[player], 14}), NoPosition)

AttackTables == [Pawn |-> "pawnAttacks", Knight |-> "knightAttacks", Bishop |-> "bishopAttacks",
                 Rook |-> "rookAttacks", Queen |-> "queenAttacks"]

getPieceAttacksScore(board, ctx, player) ==
  UNION {LET hit == board.pieces[nextPlayer(player)][target] \cap ctx.pieceAttacks[player][type]
         IN ADD_SCORE_MULTI_INDEXED(AttackTables[type], Cardinality(hit), TypeIndex(target), NoPosition) :
         type \in DOMAIN AttackTables, target \in DOMAIN AttackTables}

\* A check is safe when the opponent does not attack the square.
getChecksScore(board, ctx, player) ==
  LET opponent == nextPlayer(player)
      king == KingOf(board, opponent)
      attacks == ctx.pieceAttacks[player]
      From(type) == CASE type = "Pawn" -> pawnAttackMaskTable[opponent][king]
                      [] type = "Knight" -> knightsTable[king]
                      [] type = "Bishop" -> getBishopMoves(king, both(board))
                      [] type = "Rook" -> getRookMoves(king, both(board))
                      [] type = "Queen" -> Sliders(board, king)
      Reach(type) == IF type = "Pawn"
                       THEN attacks["Pawn"] \cup pushForward(player, board.pieces[player]["Pawn"])
                       ELSE attacks[type]
      Checks(type) == Reach(type) \cap From(type)
  IN UNION {ADD_SCORE_MULTI_INDEXED("safeChecks",
              Cardinality(Checks(t) \ ctx.threats[opponent]), TypeIndex(t), NoPosition)
            \cup ADD_SCORE_MULTI_INDEXED("unsafeChecks",
              Cardinality(Checks(t) \cap ctx.threats[opponent]), TypeIndex(t), NoPosition) :
            t \in DOMAIN AttackTables}

\* Pawns that can be pushed to a safe square and attack a piece from there.
getPawnPushThreatScore(board, ctx, player) ==
  LET opponent == nextPlayer(player)
      thirdRow == RowMask[IF player = "White" THEN 2 ELSE 5]
      targets == board.occupation[opponent] \ board.pieces[opponent]["Pawn"]
      safe == (Squares \ ctx.threats[opponent])
              \cup (ctx.threats[player] \ ctx.pieceAttacks[opponent]["Pawn"])
      pushes == pushForward(player, board.pieces[player]["Pawn"]) \ both(board)
      doublePushes == pushForward(player, pushes \cap thirdRow) \ both(board)
      attacks == pawnAttacks(player, (pushes \cup doublePushes) \cap safe) \cap targets
  IN UNION {ADD_SCORE_INDEXED("pawnPushThreats",
              TypeIndex(getTargetAtSquare(board, player, pos)), pos) : pos \in attacks}

getPassedPawnsScore(board, ctx, passedPawns, player) ==
  LET opponent == nextPlayer(player)
      their == board.pieces[opponent]
      kingPawnsOnly == board.occupation[opponent] = their["King"] \cup their["Pawn"]
      tempo == IF board.player = opponent THEN 1 ELSE 0
      Terms(pos) ==
        LET row == relativeRow(player, pos)
            pushed == pushForward(player, {pos})
        IN When(pushed \cap (both(board) \cup ctx.threats[opponent]) = {},
                ADD_SCORE_INDEXED("freePassedPawnBonus", row, pos))
           \cup When(pushed \cap ctx.threats[player] # {},
                     ADD_SCORE_INDEXED("protectedPassedPawnBonus", row, pos))
           \cup When(/\ kingPawnsOnly
                     /\ 7 - row =< 4
                     /\ 7 - row < absoluteDistance(pos, KingOf(board, opponent)) - tempo,
                     ADD_SCORE("pawnSquareRuleBonus", pos))
  IN UNION {Terms(pos) : pos \in passedPawns[player]}

----------------------------------------------------------------------------
(* The whole evaluation.                                                   *)

\* The terms of a player, with the king-pawn part from the cache.
get(board, cache, player) ==
  LET ctx == prepareContext(board)
      kp == fetchOrStoreKpCache(cache, board)
  IN getTempoScore(board, player) \cup kp.score[player]
     \cup getKnightScore(board, player) \cup getBishopScore(board, player)
     \cup getRookScore(board, player) \cup getQueenScore(board, player)
     \cup getKingScore(board, player) \cup getKingZoneScore(ctx, player)
     \cup getPieceAttacksScore(board, ctx, player) \cup getChecksScore(board, ctx, player)
     \cup getPawnPushThreatScore(board, ctx, player)
     \cup getPassedPawnsScore(board, ctx, kp.passedPawns, player)

ScaleFactor == [Draw |-> 0, PawnBonus |-> 8, ScbBishopsOnly |-> 64, ScbOneKnight |-> 106,
                ScbOneRook |-> 96, LoneQueen |-> 88, BaseScale |-> 96, Normal |-> 128,
                LargePawnAdv |-> 144]

\* strong: the side the endgame score favours.
computeEgScaleFactor(board, strong) ==
  LET weak == nextPlayer(strong)
      all(t) == board.pieces["White"][t] \cup board.pieces["Black"][t]
      One(t) == \A p \in Players : Cardinality(board.pieces[p][t]) = 1
      minors == all("Knight") \cup all("Bishop")
      minorsAndRooks == minors \cup all("Rook")
      singleColorBishops == One("Bishop") /\ Cardinality(all("Bishop") \cap lightSquares) = 1
      strongPawns == Cardinality(all("Pawn") \cap board.occupation[strong])
      weakPawns == Cardinality(all("Pawn") \cap board.occupation[weak])
  IN CASE singleColorBishops /\ all("Rook") \cup all("Queen") = {} /\ One("Knight")
            -> ScaleFactor.ScbOneKnight
       [] singleColorBishops /\ all("Knight") \cup all("Queen") = {} /\ One("Rook")
            -> ScaleFactor.ScbOneRook
       [] singleColorBishops /\ all("Knight") \cup all("Rook") \cup all("Queen") = {}
            -> ScaleFactor.ScbBishopsOnly
       [] OTHER ->
     IF /\ Cardinality(all("Queen")) = 1
        /\ Cardinality(minorsAndRooks) > 1
        /\ minorsAndRooks \subseteq board.occupation[weak]
       THEN ScaleFactor.LoneQueen
     ELSE IF minors \cap board.occupation[strong] # {} /\ Cardinality(board.occupation[strong]) = 2
       THEN ScaleFactor.Draw
     ELSE IF /\ all("Queen") = {}
             /\ \A p \in Players : Cardinality(minorsAndRooks \cap board.occupation[p]) < 2
             /\ strongPawns - weakPawns > 2
       THEN ScaleFactor.LargePawnAdv
     ELSE Min({ScaleFactor.Normal, ScaleFactor.BaseScale + strongPawns * ScaleFactor.PawnBonus})
============================================================================
