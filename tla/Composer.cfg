SPECIFICATION Spec
CONSTANTS
  Budgets <- SmallBudgets
  LineLength <- LineLengths
  MaxLines = 4
INVARIANTS
  LinesWithinBudget
  NothingFittingDropped
CHECK_DEADLOCK FALSE
