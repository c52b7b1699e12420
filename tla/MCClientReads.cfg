\* Every policy with up to three servers; the token type has 16 values.
SPECIFICATION Spec
CONSTANTS
  k1 = k1
  k2 = k2
  Keys = {k1, k2}
  MaxToken = 15
  Hash <- MCHash
  MaxServers = 3
  MaxTokens = 2
  MaxLog = 2
  MaxReads = 3
INVARIANTS TypeOK TokensShared
PROPERTY MonotonicReads
