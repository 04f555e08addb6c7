------------------------------- MODULE Scores -------------------------------
(***************************************************************************)
(* evaluation/score.h: 16-bit scores.  A mate is counted from the root     *)
(* while it is searched and from the node itself while it is stored.       *)
(***************************************************************************)
EXTENDS Integers

NoScore == -32768
Score == NoScore..32767
MaxScore == 30000
MinScore == -MaxScore
MateValue == 20000
MateScore == MateValue - 1000

scoreRelative(score, ply) ==
  CASE score = NoScore -> NoScore
    [] score # NoScore /\ score > MateScore -> score - ply
    [] score # NoScore /\ score < -MateScore -> score + ply
    [] OTHER -> score

\* Mutant: the missing score is taken for a lost one.
scoreAbsoluteOfNone(score, ply) ==
  CASE score > MateScore -> score + ply
    [] score < -MateScore -> score - ply
    [] OTHER -> score

\* Mutant: a mate is stored as it was counted, from the root.
scoreAbsoluteOfRoot(score, ply) == score

scoreAbsolute(score, ply) ==
  CASE score = NoScore -> NoScore
    [] score # NoScore /\ score > MateScore -> score + ply
    [] score # NoScore /\ score < -MateScore -> score - ply
    [] OTHER -> score

=============================================================================
