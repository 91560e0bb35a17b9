CONSTANTS
  None = None
  Red = {r1, r2}
  Blue = {b1}
  Cells = 3
  Jail = {1, 2}
  Near <- Column
  Tries = 2
SPECIFICATION Spec
SYMMETRY LocksSymmetry
INVARIANT TypeOK
PROPERTY PrisonersStay
CHECK_DEADLOCK FALSE
