CONSTANTS
  p1 = p1
  p2 = p2
  Procs = {p1, p2}
  Methods <- MixedMethods
  MaxHeld = 1
  None = None
  ReleaseFirst = FALSE
SPECIFICATION FairSpec
INVARIANT TypeOK
INVARIANT RefExact
INVARIANT NoUseAfterFree
INVARIANT NothingLeaks
PROPERTY DeviceidBalanced
PROPERTY WaiterServed
