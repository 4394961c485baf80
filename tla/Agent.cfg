CONSTANTS
  SigPipe = {TRUE, FALSE}
  MaxFaults = 3
SPECIFICATION FairSpec
INVARIANT TypeOK
INVARIANT SocketsBalanced
PROPERTY ResumesReporting
PROPERTY StopsOnSignal
