CONSTANTS
  None = None
  EmptyHost = EmptyHost
  web1 = web1
  addr = addr
  plain = plain
  spaced = spaced
  Host <- MCHost
  PeerLabel <- MCPeerLabel
  Level <- MCLevel
  Spelling <- MCSpelling
  FD = {f1}
  Lines <- AlertLines
  Faults = {}
  InCap = 2
  SndCap = 1
  MaxConns = 1
  MaxLines = 5
SPECIFICATION Spec
INVARIANT TypeOK
INVARIANT AlertsTrackMetrics
PROPERTY ImplementsAlertBoard
