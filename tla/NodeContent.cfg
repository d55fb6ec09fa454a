CONSTANTS
  nova = nova
  libvirt = libvirt
  t1 = t1
  t2 = t2
  t3 = t3
  t4 = t4
  Component = {nova, libvirt}
  Source = {nova}
  Client = Client
  Thread = {t1, t2, t3, t4}
  Asked <- MCAsked
  None = None
SPECIFICATION Spec
INVARIANTS ReturnsComplete DoneIsComplete OneAtATime
PROPERTIES ContentCallsEnd
CHECK_DEADLOCK FALSE
