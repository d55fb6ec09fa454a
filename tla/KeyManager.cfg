CONSTANTS
  k1 = k1  k2 = k2  k3 = k3
  Absent = Absent  Torn = Torn  None = None
  Principal <- MCPrincipal
  Buffer = 1
  MaxRuns = 3
  MaxKilled = 2
SYMMETRY Symmetric
SPECIFICATION KMSpec
INVARIANT KMTypeOK OnePassword TornByKillOnly
CHECK_DEADLOCK FALSE
