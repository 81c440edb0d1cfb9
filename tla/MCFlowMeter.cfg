SPECIFICATION MeterSpec
CONSTANTS
  Never = Never
  Shapes <- MCShapes
  Steps <- MCSteps
  MaxPackets = 4
  Inputs <- MCInputs
  FlowTimeout = 5
  ActivityTimeout = 2
  Second = 1
  BulkPackets = 3
INVARIANTS RowsAreWholeFlows TimesAddUp NothingOverwritten
CHECK_DEADLOCK FALSE
