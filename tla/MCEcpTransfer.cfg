CONSTANTS
  Stream <- MCStream
  Addr = {2}
  MaxLen = 3
  MaxSend = 2
  MaxFaults = 1
  MaxLate = 2
SPECIFICATION FairSpec
INVARIANTS TypeOK PhaseIsTrue OneDriver ExactlyOnce CountedIsTaken
PROPERTIES CallsReturn ImplementsChannel
CHECK_DEADLOCK FALSE
