SPECIFICATION LimiterSpec
CONSTANTS
  Clients = {c1, c2, c3}
  Limit = 2
  Window = 3
  MaximumKeys = 2
  MaxTime = 7
PROPERTIES
  ImplementsSlidingWindow
  GrowsByActiveClientsOnly
