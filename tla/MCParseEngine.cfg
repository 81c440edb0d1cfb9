SPECIFICATION Spec
CONSTANTS
  Captures <- MCCaptures
  MaxDepths = {0, 2, 5}
  Unbounded = 100000
  Known <- MCKnown
  Registry = {"Eth"}
  Words = {4, 5, 6}
  Octets = {0, 4}
  Lengths = {0, 23, 48}
  MaxLabels = 1
INVARIANTS LayersInOrder InsideDeclaredEnds GapsOnlyBehindLeaves NestingAdvances
