\* Three values, so that an order can be told; a limit at which the array
\* doubles twice (2, 4, 8) and halves again.
SPECIFICATION Spec
CONSTANTS
  Values = {a, b, c}
  Limit = 5
  Unused = Unused
INVARIANTS
  TypeOK
  NoWaste
PROPERTIES
  ImplementsFifo
