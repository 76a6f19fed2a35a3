\* Names and line tables at the borders of their encodings.
SPECIFICATION Spec
CONSTANTS
  Objects <- MCObjects
  MaxByte = 3
  WordSize = 2
INVARIANTS TypeOK NameRight LineRight
