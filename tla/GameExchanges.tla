---------------------------- MODULE GameExchanges ----------------------------
(***************************************************************************)
(* The exchanges of the moves of a game: what the search asks of           *)
(* evaluation/see_swap.h in every position it reaches.                     *)
(***************************************************************************)
EXTENDS Game, SeeSwap

\* The moves the search asks about, at every depth up to seeDepthLimit.
Asked == {m \in getAllMoves("PseudoLegal", board) : m.flag = Flag.Quiet \/ isNoisyMove(m)}

\* What the exchange stands at whenever it is the opponent's turn to capture,
\* if both sides capture to the end.
StandsAt(m) ==
  LET gains == Gains(board, m.to, nextPlayer(board.player), OccupationAfter(board, m),
                     NextPiece(board, m), <<Gain(board, m)>>)
  IN {gains[i] : i \in {j \in DOMAIN gains : j % 2 = 1}}

\* getCaptureScore() is the value of the exchange on the target square.
CaptureScoreIsTheExchange ==
  \A m \in getAllMoves("Capture", board) : getCaptureScore(board, m) = ExchangeValue(board, m)

\* At every depth isGreaterThanMargin() says yes to a move worth its margin, so
\* that no good exchange is skipped; and it says yes to no other one, but where
\* the opponent finds the exchange standing at exactly the margin: there it stops,
\* though the opponent may have one more capture.
MarginTestErrsAtTies ==
  \A m \in Asked :
    LET value == ExchangeValue(board, m)
        ties == StandsAt(m)
    IN \A depth \in 1..seeDepthLimit :
         LET margin == SeeMargin(m, depth)
             yes == isGreaterThanMargin(board, m, margin)
         IN (value >= margin => yes) /\ (yes => value >= margin \/ margin \in ties)

\* Both of the above: the exchanges the search prunes and sorts by are right,
\* up to the ties.
ExchangesAreExact == CaptureScoreIsTheExchange /\ MarginTestErrsAtTies
=============================================================================
