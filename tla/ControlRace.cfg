CONSTANTS
  h1 = h1
  h2 = h2
  c1 = c1
  c2 = c2
  None = None
  Host = {h1, h2}
  Call = {c1, c2}
  Api <- MCBothDo
  Identity = FALSE
  Flaky = {}
  RemoteIsSlow = FALSE
  Status = {"ok", "error"}
SPECIFICATION Spec
PROPERTIES CallsEnd
CHECK_DEADLOCK FALSE
