CONSTANTS
  SigPipe = {TRUE}
  MaxFaults = 3
SPECIFICATION Spec
INVARIANT RetriesWhenDisconnected
