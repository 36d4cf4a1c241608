CONSTANTS
  Uses = {{"transfers"}, {"timer", "wires"}}
  FlagSets = {{}, {"NONBLOCK"}, {"SWE"}, {"RLE"}, {"FASTEPP"}, {"NONBLOCK", "FASTEPP"}, {"SWE", "RLE"}}
  Timeouts = {1, 2, 3}
  Controls = {{"nStrobe", "nAutoFd", "nInit", "nSelectIn"}, {"nAutoFd", "nInit"}}
  MaxIrqs = 4
SPECIFICATION Spec
INVARIANT CacheIsKernel
INVARIANT TransferAsAsked
PROPERTY NoStaleInterrupt
PROPERTY HandshakeCompletes
