CONSTANTS
  a = a
  b = b
  c = c
  d = d
  Main = Main
  None = None
  Task <- MCTask
  Body <- MCBody
SPECIFICATION Spec
INVARIANTS TypeOK WantsAreMet NoSuccessOverFailure PendingIsExact
PROPERTIES NeverRestarted Termination ImplementsGraph
