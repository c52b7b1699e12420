\* A client puts a key and deletes it, with retries, a change of leader and a
\* database that fails once.
SPECIFICATION Spec
CONSTANTS
  Servers = {1, 2}
  NoLeader = noleader
  NoCall = nocall
  NoValue = novalue
  Clients = {c1}
  Keys = {k1}
  OpTypes = {"put", "del"}
  NumRetries = 2
  MaxCalls = 2
  MaxDbFail = 1
  MaxTerm = 2
  MaxExpire = 0
  MaxCrash = 0
CONSTRAINT PutThenDelete
INVARIANTS ReplicasAgree SuccessApplied AckedCommitted SessionOrder AtMostRetries
