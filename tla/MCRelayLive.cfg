SPECIFICATION FairRelaySpec

CONSTANTS
  a1 = a1
  a2 = a2
  shop = shop
  star = star
  r1 = r1
  r2 = r2
  NoClient = NoClient
  Clients = {a1, a2}
  Tunnels = {a1, a2}
  Slugs = {shop, star}
  Star = star
  SlugOf <- MCSlugOf
  Requests = {r1}
  SlugFor <- MCSlugFor
  SendCap = 1
  BroadcastCap = 1
  MaxEvents = 0
  MaxSignals = 1

PROPERTIES
  LostConnectionsEnd
  AcceptedArrives
