CONSTANTS
  Stream <- MCStream
  Addr = {2}
  MaxLen = 2
  MaxSend = 1
  MaxFaults = 1
  MaxLate = 0
SPECIFICATION Spec
INVARIANT CountIsTransferred
CHECK_DEADLOCK FALSE
