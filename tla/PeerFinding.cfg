SPECIFICATION FairSpec
CONSTANTS
  a = a  b = b  c = c
  Peers = {a, b, c}
  Config <- MCConfig
  Later = {c}
  Book <- MCBook
  Admitting = {a, b}
  Routed = {b}
  Requests = {find, svc}
  Find = find
  Others = {dht}
  Advertised <- MCAdvertised
  NoOne = NoOne
  MaxChanges = 1
INVARIANTS WholeAnswer NothingLost
PROPERTIES FindReturns ExchangesEnd LearnedIsDialed
CHECK_DEADLOCK FALSE
