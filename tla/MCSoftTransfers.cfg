CONSTANTS
  TurnsBack = TRUE
  MaxLen = 2
  MaxSend = 2
  MaxSupply = 2
  MaxFaults = 1
  MaxLate = 2
SPECIFICATION FairSpec
INVARIANTS OneDriver InStep
PROPERTIES CallsReturn ImplementsChannel
