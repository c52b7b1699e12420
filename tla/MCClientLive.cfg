\* Every call returns, with a crash, an expired timer and leader changes.
SPECIFICATION Spec
CONSTANTS
  Servers = {1, 2, 3}
  NoLeader = noleader
  NoCall = nocall
  NoValue = novalue
  Clients = {c1}
  Keys = {k1}
  OpTypes = {"put", "update"}
  NumRetries = 2
  MaxCalls = 1
  MaxDbFail = 0
  MaxTerm = 1
  MaxExpire = 1
  MaxCrash = 1
PROPERTY CallsReturn
