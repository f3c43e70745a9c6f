\* Expected violation of PoolRefinesIdlePool (see README, findings).
CONSTANTS
  Handles = {h1, h2, h3}
  Requests = {r1, r2}
  MaxConnections = 2
  NoHandle = NoHandle
  Uninit = Uninit
INIT PoolInit
NEXT PoolNext
PROPERTY PoolRefinesIdlePool
