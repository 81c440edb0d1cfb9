SPECIFICATION Spec
CONSTANTS
  Viewers <- MCViewers
  MaxSets = 2
  Sizes = {0, 1, 2, 3, 5, 6, 7, 9}
  ListSizes <- MCListSizes
  Declared = {0, 1, 2, 4, 5, 8}
INVARIANTS FieldsKeepTheirValues ItemsTile
CHECK_DEADLOCK FALSE
