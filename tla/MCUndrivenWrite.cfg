CONSTANTS
  TurnsBack = FALSE
  MaxLen = 1
  MaxSend = 1
  MaxSupply = 1
  MaxFaults = 0
  MaxLate = 0
SPECIFICATION Spec
INVARIANTS CountIsTransferred
