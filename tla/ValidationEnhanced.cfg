\* One caller thread, configuration changed only between requests.
CONSTANTS
  Requests = {r1}
  Handles = {h1, h2}
  MaxConnections = 1
  NoHandle = NoHandle
  Uninit = Uninit
  Keys = {k1, k2}
  Capacity = 2
  TTL = 1
  MaxTime = 1
  RetryChoices = {1, 2}
  Statuses = {200, 404, 503}
  MaxMetrics = 1
  ConfigWhileInFlight = FALSE
  ConfigChoices <- MetricsOnConfigs
  StringChoices <- BaseUrlOrNone
SPECIFICATION Spec
INVARIANT TypeOK
PROPERTY ConnectionReturned
VIEW RequestView
