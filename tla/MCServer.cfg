\* Files of up to four lines; fifteen configurations; a table file edited twice.
CONSTANTS
  NestingLimit = 2
  ExpansionLimit = 3
  Environ <- MCEnviron
  Library <- MCLibrary
  Prepared <- MCPrepared
  Lines <- MCLines
  MaxLines = 4
  MaxEdits = 2
  MaxRotations = 1
  MaxSignals = 2
  StatFails = TRUE
SPECIFICATION ServerSpec
INVARIANTS ConfigAsWritten ClosedInOrder
PROPERTIES ReloadsCatchUp ShutdownEnds
CHECK_DEADLOCK FALSE
