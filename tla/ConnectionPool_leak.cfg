\* No live handle is ever lost by the pool, with pooling toggled freely.
CONSTANTS
  Handles = {h1, h2, h3}
  Requests = {r1, r2}
  MaxConnections = 2
  NoHandle = NoHandle
  Uninit = Uninit
SYMMETRY PoolSymmetry
INIT PoolInit
NEXT PoolNext
INVARIANT PoolTypeOK
INVARIANT NoLeakedHandle
