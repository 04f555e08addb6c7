------------------------------ MODULE Parsing ------------------------------
(***************************************************************************)
(* Reading positions and moves (parsing/fen_parser.h, input_parsing.h,     *)
(* piece_parsing.h).                                                       *)
(*                                                                         *)
(* A string view is the sequence of its words, those between two spaces; a *)
(* word is a sequence of characters.  "ab" is one word, "ab " two, the     *)
(* last one empty.  Characters are those of well-formed input and "/", "-": *)
(* the arithmetic on others is left out.  An optional is the set of its    *)
(* value, empty for std::nullopt.                                          *)
(***************************************************************************)
EXTENDS Board
LOCAL INSTANCE SequencesExt

nullopt == {}
The(optional) == CHOOSE x \in optional : TRUE

Digits == <<"0", "1", "2", "3", "4", "5", "6", "7", "8", "9">>
IsDigit(c) == \E d \in 1..10 : Digits[d] = c
DigitValue(c) == (CHOOSE d \in 1..10 : Digits[d] = c) - 1

\* std::from_chars of a whole word.
to_number(word) ==
  LET negative == word # <<>> /\ word[1] = "-"
      digits == IF negative THEN Tail(word) ELSE word
      Add(n, c) == 10 * n + DigitValue(c)
      n == FoldLeft(Add, 0, digits)
  IN IF digits = <<>> \/ \E i \in DOMAIN digits : ~IsDigit(digits[i]) THEN nullopt
     ELSE {IF negative THEN -n ELSE n}

\* The first word, if a space follows it; the view then loses both.
sv_next_split(sv) == IF Len(sv) < 2 THEN nullopt ELSE {Head(sv)}
AfterSplit(sv) == IF Len(sv) < 2 THEN sv ELSE Tail(sv)
IsEmpty(sv) == sv = <<(<<>>)>>

----------------------------------------------------------------------------
(* Characters of a FEN string.                                             *)

PieceChars == [White |-> <<"P", "N", "B", "R", "Q", "K">>,
               Black |-> <<"p", "n", "b", "r", "q", "k">>]

pieceToChar(player, type) == PieceChars[player][CHOOSE i \in 1..6 : PieceOrder[i] = type]

pieceFromChar(c) == {x \in Players \X PieceTypes : pieceToChar(x[1], x[2]) = c}

CastleChars == [K |-> "WhiteKingSide", Q |-> "WhiteQueenSide",
                k |-> "BlackKingSide", q |-> "BlackQueenSide"]
castleFromChar(c) == IF c \in DOMAIN CastleChars THEN {CastleChars[c]} ELSE {}

FileChars == <<"a", "b", "c", "d", "e", "f", "g", "h">>
\* c - 'a' and c - '1'.
FileIndex(c) == (CHOOSE i \in 1..8 : FileChars[i] = c) - 1
RowIndex(c) == DigitValue(c) - 1

----------------------------------------------------------------------------
(* The six parts of a FEN string, each [ok, board].                        *)

noPieces == [p \in Players |-> [t \in PieceTypes |-> {}]]
emptyBoard ==
  [pieces |-> noPieces, occupation |-> [p \in Players |-> {}],
   attacks |-> [p \in Players |-> {}], castlingRights |-> {}, player |-> "White",
   enPessant |-> NoPosition, fullMoves |-> 0, halfMoves |-> 0, hash |-> {}, kpHash |-> {}]

Result(ok, board) == [ok |-> ok, board |-> board]

parsePiecePlacement(input, board) ==
  LET Next(s, c) ==
        LET piece == pieceFromChar(c)
            player == The(piece)[1]
            type == The(piece)[2]
            pos == At(s.row, s.column)
        IN IF ~s.ok THEN s
           ELSE IF c = "/" THEN [s EXCEPT !.row = (@ - 1) % 256, !.column = 0]
           ELSE IF s.row > 7 \/ s.column > 7 THEN [s EXCEPT !.ok = FALSE]
           ELSE IF piece = nullopt THEN [s EXCEPT !.column = (@ + DigitValue(c)) % 256]
           ELSE [s EXCEPT !.pieces[player][type] = @ \cup {pos}, !.column = @ + 1]
      end == FoldLeft(Next, [ok |-> TRUE, row |-> 7, column |-> 0, pieces |-> board.pieces],
                      input)
      placed == [board EXCEPT !.pieces = end.pieces]
  IN IF end.ok /\ end.row = 0 /\ end.column = 8
       THEN Result(TRUE, updateAttacks(updateOccupation(placed)))
       ELSE Result(FALSE, placed)

parseSideToMove(input, board) ==
  LET sides == SelectSeq(input, LAMBDA c : c \in {"w", "b"})
  IN IF sides = <<>> THEN Result(FALSE, board)
     ELSE Result(TRUE, [board EXCEPT !.player = IF sides[1] = "w" THEN "White" ELSE "Black"])

parseCastlingAbility(input, board) ==
  Result(TRUE, [board EXCEPT !.castlingRights =
                  @ \cup UNION {castleFromChar(input[i]) : i \in DOMAIN input}])

parseEnPassantTargetSquare(input, board) ==
  IF input = <<>> THEN Result(FALSE, board)
  ELSE IF input[1] = "-" THEN Result(TRUE, [board EXCEPT !.enPessant = NoPosition])
  ELSE IF Len(input) < 2 THEN Result(FALSE, board)
  ELSE LET pos == At(RowIndex(input[2]), FileIndex(input[1]))
       IN IF pos > 63 THEN Result(FALSE, board)
                      ELSE Result(TRUE, [board EXCEPT !.enPessant = pos])

parseHalfMoveClock(input, board) ==
  LET n == to_number(input)
  IN IF n = nullopt THEN Result(FALSE, board)
     ELSE Result(TRUE, [board EXCEPT !.halfMoves = The(n) % (2 ^ 16)])

parseFullMoveCounter(input, board) ==
  LET n == to_number(input)
  IN IF n = nullopt THEN Result(FALSE, board)
     ELSE Result(TRUE, [board EXCEPT !.fullMoves = The(n) % (2 ^ 16)])

ParsePart(part, input, board) ==
  CASE part = 1 -> parsePiecePlacement(input, board)
    [] part = 2 -> parseSideToMove(input, board)
    [] part = 3 -> parseCastlingAbility(input, board)
    [] part = 4 -> parseEnPassantTargetSquare(input, board)
    [] part = 5 -> parseHalfMoveClock(input, board)
    [] part = 6 -> parseFullMoveCounter(input, board)

movesWord == <<"m", "o", "v", "e", "s">>

NothingLeft(sv) == sv_next_split(sv) = nullopt /\ (sv = <<movesWord>> \/ IsEmpty(sv))
NextPart(sv) == IF sv_next_split(sv) = nullopt THEN sv[1] ELSE The(sv_next_split(sv))

ReadPart(s, part, input) ==
  LET rest == AfterSplit(s.sv)
      result == ParsePart(part, input, s.board)
  IN [sv |-> rest, ok |-> result.ok, board |-> result.board, done |-> rest = <<input>>]

\* One round of the loop over the parts.  When nothing is left the string is
\* refused, unless the piece placement was still to come; the last part is
\* recognised by its text being all that is left.
ParseRound(s, part) ==
  IF s.done \/ ~s.ok THEN s
  ELSE IF NothingLeft(s.sv) THEN [s EXCEPT !.done = TRUE, !.ok = part < 2]
  ELSE ReadPart(s, part, NextPart(s.sv))

\* The round of a part, for each outcome (there is one) of those before it.
Round(outcomes, part) == {ParseRound(s, part) : s \in outcomes}

parse(sv) ==
  LET start == [sv |-> sv, ok |-> TRUE, board |-> emptyBoard, done |-> FALSE]
      outcomes == Round(Round(Round(Round(Round(Round({start}, 1), 2), 3), 4), 5), 6)
  IN {[end.board EXCEPT !.hash = generateHash(end.board),
                        !.kpHash = generateKingPawnHash(end.board)] :
        end \in {s \in outcomes : s.ok}}

----------------------------------------------------------------------------
(* Moves of the position command.                                          *)

PromotionChars == [n |-> "Knight", b |-> "Bishop", r |-> "Rook", q |-> "Queen"]

\* Mutant: the promotion character is ignored.
compareMoveSquares(move, from, to, promotion) == move.from = from /\ move.to = to

compareMove(move, from, to, promotion) ==
  /\ move.from = from /\ move.to = to
  /\ promotion # NoPiece => promotionType(move) = promotion

\* The first pseudo-legal move that fits; without a promotion character
\* the queen, which is generated first.
moveFromString(board, word) ==
  LET promotion == IF Len(word) > 4 /\ word[5] \in DOMAIN PromotionChars
                     THEN PromotionChars[word[5]] ELSE NoPiece
      from == FileIndex(word[1]) + 8 * RowIndex(word[2])
      to == FileIndex(word[3]) + 8 * RowIndex(word[4])
      fits == {m \in getAllMoves("PseudoLegal", board) : compareMove(m, from, to, promotion)}
      first == {m \in fits : promotionType(m) \in {NoPiece, "Queen"}}
  IN IF Len(word) < 4 \/ fits = {} THEN nullopt
     ELSE IF first # {} THEN first ELSE fits
============================================================================
