SPECIFICATION Spec

CONSTANTS
  a1 = a1
  a2 = a2
  w = w
  shop = shop
  star = star
  r1 = r1
  r2 = r2
  NoClient = NoClient
  Clients = {a1, a2}
  Tunnels = {a1, a2}
  Slugs = {shop, star}
  Star = star
  SlugOf <- MCSameSlug
  Requests = {r1, r2}
  SlugFor <- MCSlugFor
  SendCap = 1
  BroadcastCap = 1
  MaxEvents = 0

INVARIANT ConnectedAgentHasTunnel
