----------------------------- MODULE ChessRules -----------------------------
(***************************************************************************)
(* The rules of chess as the FIDE laws state them, written square by       *)
(* square and without anything of the engine: what the moves of Board are  *)
(* compared with.                                                          *)
(*                                                                         *)
(* A position is [at, turn, rights, ep]: what stands on each square (a     *)
(* pair of player and piece, or Empty), who moves, the castling rights and *)
(* the square a pawn that just advanced by two passed over (-1 if none).   *)
(***************************************************************************)
EXTENDS Integers, FiniteSets

Empty == <<"None", "None">>
Board64 == 0..63
Rank(s) == s \div 8
FileOf(s) == s % 8
Abs(n) == IF n < 0 THEN -n ELSE n
Sign(n) == IF n < 0 THEN -1 ELSE IF n > 0 THEN 1 ELSE 0
Other(p) == IF p = "White" THEN "Black" ELSE "White"
Up(p) == IF p = "White" THEN 1 ELSE -1

Owns(at, p, s) == at[s][1] = p

\* Every square strictly between two squares of a line is empty.
ClearLine(at, s, t) ==
  LET dr == Sign(Rank(t) - Rank(s))
      df == Sign(FileOf(t) - FileOf(s))
      n == IF Abs(Rank(t) - Rank(s)) > Abs(FileOf(t) - FileOf(s))
             THEN Abs(Rank(t) - Rank(s)) ELSE Abs(FileOf(t) - FileOf(s))
  IN \A i \in 1..(n - 1) : at[s + i * (8 * dr + df)] = Empty

\* The piece on s attacks t.
AttacksSquare(at, s, t) ==
  LET dr == Rank(t) - Rank(s)
      df == FileOf(t) - FileOf(s)
      straight == (dr = 0) # (df = 0)
      diagonal == Abs(dr) = Abs(df) /\ dr # 0
      piece == at[s][2]
  IN \/ piece = "Pawn" /\ dr = Up(at[s][1]) /\ Abs(df) = 1
     \/ piece = "Knight" /\ {Abs(dr), Abs(df)} = {1, 2}
     \/ piece = "King" /\ s # t /\ Abs(dr) =< 1 /\ Abs(df) =< 1
     \/ piece \in {"Rook", "Queen"} /\ straight /\ ClearLine(at, s, t)
     \/ piece \in {"Bishop", "Queen"} /\ diagonal /\ ClearLine(at, s, t)

AttackedBy(at, p, t) == \E s \in Board64 : Owns(at, p, s) /\ AttacksSquare(at, s, t)

InCheck(at, p) ==
  \E s \in Board64 : at[s] = <<p, "King">> /\ AttackedBy(at, Other(p), s)

----------------------------------------------------------------------------

PawnAdvances(pos, s, t) ==
  LET up == Up(pos.turn) IN
  /\ FileOf(t) = FileOf(s)
  /\ pos.at[t] = Empty
  /\ \/ Rank(t) = Rank(s) + up
     \/ /\ Rank(s) = (IF pos.turn = "White" THEN 1 ELSE 6)
        /\ Rank(t) = Rank(s) + 2 * up
        /\ pos.at[s + 8 * up] = Empty

PawnCaptures(pos, s, t) ==
  /\ AttacksSquare(pos.at, s, t)
  /\ Owns(pos.at, Other(pos.turn), t) \/ t = pos.ep

Reaches(pos, s, t) ==
  IF pos.at[s][2] = "Pawn"
    THEN PawnAdvances(pos, s, t) \/ PawnCaptures(pos, s, t)
    ELSE ~Owns(pos.at, pos.turn, t) /\ AttacksSquare(pos.at, s, t)

PassedOver(pos, s, t) == pos.at[s][2] = "Pawn" /\ t = pos.ep /\ FileOf(s) # FileOf(t)

\* What stands where after the piece on s went to t and became `piece'.
After(pos, s, t, piece) ==
  [q \in Board64 |->
     CASE q = t -> <<pos.turn, piece>>
       [] q = s -> Empty
       [] PassedOver(pos, s, t) /\ q = t - 8 * Up(pos.turn) -> Empty
       [] OTHER -> pos.at[q]]

Becomes(pos, s, t) ==
  IF pos.at[s][2] = "Pawn" /\ Rank(t) \in {0, 7}
    THEN {"Queen", "Rook", "Bishop", "Knight"}
    ELSE {pos.at[s][2]}

Castles(pos) ==
  LET home == IF pos.turn = "White" THEN 0 ELSE 56
      Free(squares) == \A q \in squares : pos.at[home + q] = Empty
      Safe(squares) == \A q \in squares : ~AttackedBy(pos.at, Other(pos.turn), home + q)
      King == IF pos.turn = "White" THEN "WhiteKingSide" ELSE "BlackKingSide"
      Queen == IF pos.turn = "White" THEN "WhiteQueenSide" ELSE "BlackQueenSide"
  IN (IF King \in pos.rights /\ Free({5, 6}) /\ Safe({4, 5, 6})
        THEN {<<home + 4, home + 6, "King">>} ELSE {})
     \cup (IF Queen \in pos.rights /\ Free({1, 2, 3}) /\ Safe({2, 3, 4})
             THEN {<<home + 4, home + 2, "King">>} ELSE {})

\* <<from, to, what the piece is afterwards>> of every legal move.
LegalMoves(pos) ==
  Castles(pos) \cup
  UNION {LET targets == {t \in Board64 : Reaches(pos, s, t)} IN
         UNION {{<<s, t, piece>> : piece \in {q \in Becomes(pos, s, t) :
                                    ~InCheck(After(pos, s, t, q), pos.turn)}} : t \in targets} :
         s \in {q \in Board64 : Owns(pos.at, pos.turn, q)}}
============================================================================
