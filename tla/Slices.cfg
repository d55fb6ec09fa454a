CONSTANTS
  access = access
  data = data
  Slice <- MCSlices
  Net = {access, data}
  NetId <- MCNetId
  Requests = {1, 2}
  MaxCommands = 2
  BmcEnabled = TRUE
  MAC_START = 0
  IPV4_START = 0
  BmcBase = 8192
  SubnetMul = 256
  SliceNets = 16
  MacExtra = 256
SPECIFICATION Spec
INVARIANTS TypeOK AddressesAreUnique CommandDelivers
PROPERTIES StaysInItsSlice
CHECK_DEADLOCK FALSE
