CONSTANTS
  Modes <- SomeModes
  Accepts <- SomeBytes
  MaxFaults = 1
  TerminateFirst = TRUE
  NoByte = NoByte
SPECIFICATION FairSpec
INVARIANT TypeOK
INVARIANT NoContention
INVARIANT ModeAgreement
INVARIANT CompatLinesReleased
INVARIANT ResultMatchesMode
INVARIANT VerdictIsTrue
PROPERTY StrobeIsAwaited
PROPERTY CallsReturn
