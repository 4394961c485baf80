CONSTANTS
  None = None
  EmptyHost = EmptyHost
  web1 = web1
  addr = addr
  plain = plain
  spaced = spaced
  Host <- MCHost
  PeerLabel <- MCPeerLabel
  Level <- MCLevel
  Spelling <- MCSpelling
  FD = {f1}
  Lines <- DashboardLines
  Faults = {}
  InCap = 1
  SndCap = 2
  MaxConns = 1
  MaxLines = 2
SPECIFICATION FairServerSpec
PROPERTY ShutsDown
