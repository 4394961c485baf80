CONSTANTS
  None = None
  EmptyHost = EmptyHost
  web1 = web1
  addr = addr
  plain = plain
  spaced = spaced
  Host <- MCHost
  PeerLabel <- MCPeerLabel
  Level <- MCLevel
  Spelling <- MCSpelling
  FD = {f1, f2}
  Lines <- DashboardLines
  Faults = {"fin"}
  InCap = 1
  SndCap = 1
  MaxConns = 3
  MaxLines = 4
SPECIFICATION Spec
SYMMETRY FDSymmetry
INVARIANT SubscribersUpToDate
