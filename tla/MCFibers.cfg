SPECIFICATION FibersSpec
CONSTANTS
  Fibers = {f1, f2, f3}
  Root = f1
  Handles = {h1, h2}
  Null = Null
  LateDetach = FALSE
  c1 = c1  c2 = c2
  Peers = {c1, c2}
  MessageSize <- MCMessageSize
  PipeSize <- MCPipeSize
  BufferSize = 2
  MaxEndpoints = 2
  MaxErrors = 1
INVARIANTS OnePlace
PROPERTIES JoinWaits NobodyForgotten ImplementsEcho EverythingComesBack
