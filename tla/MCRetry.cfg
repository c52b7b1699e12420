\* The retry after a change of leader.
SPECIFICATION Spec
CONSTANTS
  Servers = {1, 2}
  NoLeader = noleader
  NoCall = nocall
  NoValue = novalue
  Clients = {c1}
  Keys = {k1}
  OpTypes = {"put"}
  NumRetries = 2
  MaxCalls = 1
  MaxDbFail = 0
  MaxTerm = 2
  MaxExpire = 0
  MaxCrash = 0
INVARIANT RetryAtLeader
