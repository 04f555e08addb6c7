SPECIFICATION Spec
CONSTANTS
  Threads = {t1, t2}
  KeyRange = 8
  TableSize = 2
  MaxPly = 128
  Truth <- MCTruth
  EvalOf <- MCEvalOf
  Checked = {2}
  Corrections <- MCCorrections
  Visits <- MCVisits
  MaxVisits = 3
INVARIANTS
  TypeInvariant
  ProbeAnswersItsKey
  AnswersAreSound
PROPERTIES
  LostOnlyByAStaleRead
SYMMETRY ThreadSymmetry
CHECK_DEADLOCK FALSE
