SPECIFICATION Spec
CONSTANTS
  small = small
  large = large
  Nothing = Nothing
  Content <- Contents
  Size <- Sizes
  MaxBytes = 3
  Reader = {r1}
  Writer = {w1, w2}
  Retained = 2
  MaxVersion = 3
SYMMETRY Symmetry
INVARIANTS
  BudgetHolds
  UndisturbedReadsAreExact
