CONSTANTS
  nova = nova
  glance = glance
  old = old
  new = new
  newer = newer
  One = One
  Two = Two
  admin = admin
  public = public
  http = http
  https = https
  Name = {nova, glance}
  Desc = {old, new, newer}
  Region = {One, Two}
  RegionDesc = {old, new}
  NoParent = NoParent
  Interface = {admin, public}
  Url = {http, https}
  Wants <- MCWants
  Catalogs <- MCCatalogs
  MaxServices = 6
  MaxEndpoints = 9
  Orders <- MCOrders
  MaxSyncs = 3
SPECIFICATION Spec
INVARIANTS SyncReaches RetryWorks ServingIsKept NoDoubleMade
CHECK_DEADLOCK FALSE
