CONSTANTS
  None = None
  EmptyHost = EmptyHost
  web1 = web1
  addr = addr
  plain = plain
  spaced = spaced
  Host <- MCHost
  PeerLabel <- MCPeerLabel
  Level <- MCLevel
  Spelling <- MCSpelling
  FD = {f1, f2, f3}
  Lines <- AllLines
  Faults = {"fin", "reset", "urgent"}
  InCap = 1
  SndCap = 1
  MaxConns = 4
  MaxLines = 1
SPECIFICATION Spec
SYMMETRY FDSymmetry
INVARIANT ClientsOwnSockets
INVARIANT DropsExactlyFailed
INVARIANT RecvNeverBlocks
