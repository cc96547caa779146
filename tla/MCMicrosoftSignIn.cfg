SPECIFICATION Spec
CONSTANTS
  Ids = {i1, i2}
  States = {st1}
  Callers = {c1, c2}
  Lifetimes <- MCLifetimes
  SessionMaxAge = 2
  PendingMaxAge = 1
  MaxTime = 3
SYMMETRY Symmetry
INVARIANTS
  EndedIsFinal
  AnswersAreGood
CHECK_DEADLOCK FALSE
