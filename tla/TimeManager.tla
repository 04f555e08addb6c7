----------------------------- MODULE TimeManager -----------------------------
(***************************************************************************)
(* core/time_manager.h as operators on a record of its static members.     *)
(* Durations are whole milliseconds, factors are percent; where the code   *)
(* divides doubles the quotient is rounded down.                           *)
(***************************************************************************)
EXTENDS Integers

\* What a depth and a counter of iterations are counted modulo: 2^8 in the code.
CONSTANT DepthRange

Infinite == 1000000000    \* Duration::max()
Unset == -100000           \* an empty optional

\* Parameters of spsa/parameters.h.
IncFrac == 122
BaseFrac == 42
LimitFrac == 80
SoftFrac == 62
HardFrac == 456
NodeFracBase == 140
NodeFracMultiplier == 180
ScoreMargin == 10

LesserOf(a, b) == IF a < b THEN a ELSE b

\* Mutant: the move time of an earlier "go" stays.
resetKeepsMoveTime(tm) ==
  [tm EXCEPT !.time = [white |-> 0, black |-> 0], !.inc = [white |-> 0, black |-> 0],
             !.movesToGo = 0, !.timedOut = FALSE,
             !.pvMove = Unset, !.pvScore = Unset, !.moveStability = 0, !.scoreStability = 0,
             !.moveFactor = 100, !.scoreFactor = 100, !.nodeFactor = 100]

\* The limits and the overhead stay.
reset(tm) ==
  [tm EXCEPT !.time = [white |-> 0, black |-> 0], !.inc = [white |-> 0, black |-> 0],
             !.movesToGo = 0, !.moveTime = Unset, !.timedOut = FALSE,
             !.pvMove = Unset, !.pvScore = Unset, !.moveStability = 0, !.scoreStability = 0,
             !.moveFactor = 100, !.scoreFactor = 100, !.nodeFactor = 100]

\* Static initialisation.
InitialTime(overhead) ==
  reset([time |-> 0, inc |-> 0, movesToGo |-> 0, moveTime |-> Unset, overhead |-> overhead,
         soft |-> 0, hard |-> 0, timedOut |-> FALSE, pvMove |-> Unset, pvScore |-> Unset,
         moveStability |-> 0, scoreStability |-> 0, moveFactor |-> 100, scoreFactor |-> 100,
         nodeFactor |-> 100])

subtractOverhead(tm, time) == IF tm.overhead > time THEN 0 ELSE time - tm.overhead

WithLimits(tm, soft, hard) == [tm EXCEPT !.soft = soft, !.hard = hard, !.timedOut = FALSE]

\* Thousandths of a millisecond for the move.
baseTime(tm, player) ==
  LET left == subtractOverhead(tm, tm.time[player])
  IN (IF tm.movesToGo # 0 THEN (left * 1000) \div tm.movesToGo ELSE left * BaseFrac)
     + tm.inc[player] * IncFrac * 10

limitTime(tm, player) == (subtractOverhead(tm, tm.time[player]) * LimitFrac) \div 100

\* setupTimeControls(): a time for the move, no clock at all, or a share of the
\* clock of the player.
start(tm, player) ==
  LET share(frac) == LesserOf(limitTime(tm, player), (frac * baseTime(tm, player)) \div 100000)
  IN CASE tm.moveTime # Unset ->
            WithLimits(tm, tm.moveTime + tm.inc[player], tm.moveTime + tm.inc[player])
       [] tm.moveTime = Unset /\ tm.time[player] = 0 /\ tm.inc[player] = 0 ->
            WithLimits(tm, Infinite, Infinite)
       [] OTHER -> WithLimits(tm, share(SoftFrac), share(HardFrac))

startInfinite(tm) == WithLimits(tm, Infinite, Infinite)

stop(tm) == [tm EXCEPT !.timedOut = TRUE]

\* Steps before a factor: nothing here exceeds 32 bits.
Scaled(limit, factor) == (limit \div 100) * factor

AdjustedLimit(tm, depth) ==
  IF tm.soft = Infinite THEN Infinite
  ELSE Scaled(Scaled(Scaled(tm.soft * 100, tm.moveFactor), tm.nodeFactor),
              IF depth >= 7 THEN tm.scoreFactor ELSE 100) \div 100

timeForAnotherSearch(tm, depth, elapsed) ==
  depth =< 1 \/ (~tm.timedOut /\ elapsed < AdjustedLimit(tm, depth))

moveStabilityTable == <<250, 120, 90, 80, 75>>
scoreStabilityTable == <<125, 115, 100, 94, 88>>

\* nodePercent: the share of the nodes spent on the move.
updateMoveStability(tm, move, score, nodePercent) ==
  LET moves == IF tm.pvMove = move THEN (tm.moveStability + 1) % DepthRange ELSE 0
      scores == IF tm.pvScore # Unset /\ score >= tm.pvScore - ScoreMargin
                                      /\ score =< tm.pvScore + ScoreMargin
                  THEN (tm.scoreStability + 1) % DepthRange ELSE 0
  IN [tm EXCEPT !.moveStability = moves, !.scoreStability = scores,
                !.moveFactor = moveStabilityTable[LesserOf(moves, 4) + 1],
                !.scoreFactor = scoreStabilityTable[LesserOf(scores, 4) + 1],
                !.nodeFactor = ((NodeFracBase - nodePercent) * NodeFracMultiplier) \div 100,
                !.pvMove = move, !.pvScore = score]
==============================================================================
