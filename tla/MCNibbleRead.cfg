CONSTANTS
  MaxLen = 3
  MaxSupply = 5
  MaxFaults = 1
SPECIFICATION FairSpec
INVARIANT InStep
INVARIANT EndsOnlyWhenDry
PROPERTY CallsReturn
PROPERTY ImplementsChannel
