SPECIFICATION Spec
CONSTANTS
  Fens <- MCFens
  MaxPly = 2
INVARIANTS
  BoardIsSound
  MovesFollowTheRules
  KeptStateIsFresh
  ReadBackIsTheSame
  MoveTextIsPlayedOnce
  ExchangesAreExact
  EvaluationIsFair
CHECK_DEADLOCK FALSE
