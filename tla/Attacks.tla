------------------------------ MODULE Attacks ------------------------------
(***************************************************************************)
(* Squares, shifts, mask tables and attack tables of the board             *)
(* (utils/bit_operations.h, core/mask_tables.h, movegen/{kings,knights,    *)
(* bishops,rooks,pawns}.h, core/attack_generation.h).                      *)
(*                                                                         *)
(* A bitboard is the set of the positions of its set bits: & | ~ are       *)
(* \cap \cup \ and a shift moves every bit, dropping those that leave the  *)
(* 64 bits.  The pairs of White and Black templates are one operator of    *)
(* the player.                                                             *)
(***************************************************************************)
EXTENDS Integers, Sequences, FiniteSets
LOCAL INSTANCE FiniteSetsExt

Squares == 0..63

Players == {"White", "Black"}
nextPlayer(player) == IF player = "White" THEN "Black" ELSE "White"

\* The order is that of the enum: attackers are tried in it.
PieceOrder == <<"Pawn", "Knight", "Bishop", "Rook", "Queen", "King">>
PieceTypes == {PieceOrder[i] : i \in 1..6}

Row(pos) == pos \div 8
File(pos) == pos % 8
At(row, file) == row * 8 + file

A1 == 0
E1 == 4
H1 == 7
A8 == 56
E8 == 60
H8 == 63

RowMask == [row \in 0..7 |-> {pos \in Squares : Row(pos) = row}]
FileMask == [file \in 0..7 |-> {pos \in Squares : File(pos) = file}]
aFile == FileMask[0]
hFile == FileMask[7]

\* x << n, and x >> -n for a negative n.
Shift(squares, n) == {pos + n : pos \in squares} \cap Squares

relativeRow(player, pos) == IF player = "White" THEN Row(pos) ELSE 7 - Row(pos)
flipPosition(pos) == At(7 - Row(pos), File(pos))
\* Mutant: the square is not turned round for Black.
relativePositionOfWhite(player, pos) == pos

relativePosition(player, pos) == IF player = "White" THEN pos ELSE flipPosition(pos)

Forward(player) == IF player = "White" THEN 8 ELSE -8
pushForward(player, squares) == Shift(squares, Forward(player))
moveLeft(squares) == Shift(squares \ aFile, -1)
moveRight(squares) == Shift(squares \ hFile, 1)

Distance(a, b) == Max({a - b, b - a})
absoluteDistance(from, to) ==
  Max({Distance(Row(from), Row(to)), Distance(File(from), File(to))})

----------------------------------------------------------------------------
(* The tables of the leapers.                                              *)

Step(pos, offset) ==
  LET row == Row(pos) + offset[1]
      file == File(pos) + offset[2]
  IN IF row \in 0..7 /\ file \in 0..7 THEN {At(row, file)} ELSE {}

kingsOffset == {<<0, 1>>, <<0, -1>>, <<-1, -1>>, <<-1, 0>>,
                <<-1, 1>>, <<1, -1>>, <<1, 0>>, <<1, 1>>}
knightsOffset == {<<-2, -1>>, <<-2, 1>>, <<2, -1>>, <<2, 1>>,
                  <<-1, -2>>, <<-1, 2>>, <<1, -2>>, <<1, 2>>}

kingsTable == [pos \in Squares |-> UNION {Step(pos, o) : o \in kingsOffset}]
knightsTable == [pos \in Squares |-> UNION {Step(pos, o) : o \in knightsOffset}]

----------------------------------------------------------------------------
(* Sliders: a ray is the sequence of squares from a position to the edge.  *)

bishopDirections == {<<1, 1>>, <<-1, 1>>, <<1, -1>>, <<-1, -1>>}
rookDirections == {<<1, 0>>, <<-1, 0>>, <<0, 1>>, <<0, -1>>}

Rays ==
  [d \in bishopDirections \cup rookDirections |->
    [pos \in Squares |->
      LET on == {n \in 1..7 : /\ Row(pos) + n * d[1] \in 0..7
                              /\ File(pos) + n * d[2] \in 0..7}
      IN [n \in 1..Cardinality(on) |-> At(Row(pos) + n * d[1], File(pos) + n * d[2])]]]

\* The squares of a ray up to the first blocker, that one included.
RayAttacks(ray, block) ==
  {ray[n] : n \in {i \in DOMAIN ray : \A k \in 1..(i - 1) : ray[k] \notin block}}

\* The last square of each ray is no part of the mask: its occupation does
\* not matter.
RayMask(ray) == {ray[n] : n \in 1..(Len(ray) - 1)}

bishopMasksTable ==
  [pos \in Squares |-> UNION {RayMask(Rays[d][pos]) : d \in bishopDirections}]
rookMasksTable ==
  [pos \in Squares |-> UNION {RayMask(Rays[d][pos]) : d \in rookDirections}]

bishopAttacksWithBlock(pos, block) ==
  UNION {RayAttacks(Rays[d][pos], block) : d \in bishopDirections}
rookAttacksWithBlock(pos, block) ==
  UNION {RayAttacks(Rays[d][pos], block) : d \in rookDirections}

\* The attack tables are indexed by the relevant part of the occupancy.
getBishopMoves(pos, occupancy) ==
  bishopAttacksWithBlock(pos, occupancy \cap bishopMasksTable[pos])
getRookMoves(pos, occupancy) ==
  rookAttacksWithBlock(pos, occupancy \cap rookMasksTable[pos])

----------------------------------------------------------------------------
(* Pawns.                                                                  *)

pawnAttackMaskTable ==
  [player \in Players |-> [pos \in Squares |->
     (IF pos \in aFile THEN {} ELSE Shift({pos}, Forward(player) - 1))
     \cup (IF pos \in hFile THEN {} ELSE Shift({pos}, Forward(player) + 1))]]

\* movegen::getPawnAttacks, of a set of pawns.
pawnAttacks(player, pawns) ==
  LET off == IF player = "White" THEN RowMask[7] ELSE RowMask[0]
  IN Shift(pawns \ (aFile \cup off), Forward(player) - 1)
     \cup Shift(pawns \ (hFile \cup off), Forward(player) + 1)

----------------------------------------------------------------------------
(* Masks of the pawn structure and of castling.                            *)

isolationMaskTable ==
  [pos \in Squares |-> UNION {FileMask[f] : f \in {File(pos) - 1, File(pos) + 1} \cap 0..7}]

\* Walks from the square in front of pos to the end of the board.
passedPawnMaskTable ==
  [player \in Players |-> [pos \in Squares |->
     LET files == {File(pos) - 1, File(pos), File(pos) + 1} \cap 0..7
     IN {s \in Squares : /\ File(s) \in files
                         /\ IF player = "White" THEN Row(s) > Row(pos)
                                                ELSE Row(s) < Row(pos)}]]

outpostSquareMaskTable ==
  [player \in Players |-> [pos \in Squares |->
     passedPawnMaskTable[player][pos] \ FileMask[File(pos)]]]

outpostRankMaskTable ==
  [player \in Players |-> UNION {RowMask[r] : r \in IF player = "White" THEN 3..5 ELSE 2..4}]

\* The rights lost when a piece leaves or reaches a square.
castlingRightMaskTable ==
  [pos \in Squares |->
     CASE pos = E1 -> {"WhiteKingSide", "WhiteQueenSide"}
       [] pos = A1 -> {"WhiteQueenSide"}
       [] pos = H1 -> {"WhiteKingSide"}
       [] pos = E8 -> {"BlackKingSide", "BlackQueenSide"}
       [] pos = A8 -> {"BlackQueenSide"}
       [] pos = H8 -> {"BlackKingSide"}
       [] OTHER -> {}]
============================================================================
