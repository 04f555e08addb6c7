------------------------ MODULE MCTranspositionTable ------------------------
EXTENDS TranspositionTable, TLC

\* Keys 1 and 2 share slot 0, a mate in three plies and a position in check lost
\* in two; 5 is alone in slot 1 and a draw.
MCTruth == [k \in {1, 2, 5} |->
  CASE k = 1 -> MateValue - 3 [] k = 2 -> -(MateValue - 2) [] k = 5 -> 0]
MCEvalOf == [k \in {1, 2, 5} |-> k]
MCCorrections == {-20}

VisitOf(key, ply, depth, pv, alpha) ==
  [key |-> key, ply |-> ply, depth |-> depth, pv |-> pv, alpha |-> alpha,
   beta |-> IF pv THEN MaxScore ELSE alpha + 1, quiescence |-> FALSE]
Captures(visit) == [visit EXCEPT !.quiescence = TRUE]

\* The window of the fourth is above the mate, that of the fifth below it.
MCVisits == {VisitOf(1, 0, 2, TRUE, MinScore), VisitOf(1, 2, 0, FALSE, 10),
             Captures(VisitOf(1, 4, 0, TRUE, 10)),
             VisitOf(1, 5, 1, FALSE, MateValue - 3), VisitOf(2, 3, 1, FALSE, 1 - MateValue),
             Captures(VisitOf(2, 1, 0, FALSE, 19000)), VisitOf(5, 3, 1, FALSE, 10)}
ThreadSymmetry == Permutations(Threads)
=============================================================================
