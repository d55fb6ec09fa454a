CONSTANTS
  h1 = h1
  h2 = h2
  c1 = c1
  c2 = c2
  None = None
  Host = {h1, h2}
  Call = {c1, c2}
  Api <- MCDoAndStream
  Identity = TRUE
  Flaky = {}
  RemoteIsSlow = FALSE
  Status = {"ok", "error"}
SYMMETRY Nodes
SPECIFICATION SafeSpec
INVARIANTS TypeOK GatheredIsComplete CountIsExact
PROPERTY ImplementsGather
CHECK_DEADLOCK FALSE
