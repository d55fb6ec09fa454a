CONSTANTS
  h1 = h1
  h2 = h2
  c1 = c1
  c2 = c2
  None = None
  Host = {h1, h2}
  Call = {c1, c2}
  Api <- MCDiffAndStream
  Identity = FALSE
  Flaky = {h1}
  RemoteIsSlow = TRUE
  Status = {"ok"}
SPECIFICATION Spec
PROPERTIES LossIsContained
CHECK_DEADLOCK FALSE
