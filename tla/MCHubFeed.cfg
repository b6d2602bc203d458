SPECIFICATION FairSpec

CONSTANTS
  d1 = d1
  d2 = d2
  star = star
  NoClient = NoClient
  Clients = {d1, d2}
  Tunnels = {}
  Slugs = {star}
  Star = star
  SlugOf <- MCNoFunction
  Requests = {}
  SlugFor <- MCNoFunction
  SendCap = 1
  BroadcastCap = 1
  MaxEvents = 3

INVARIANTS
  TypeOK
  RunNeverPanics
  DrainFindsMessages
  FeedGapFree

PROPERTIES
  FeedSpec
  EventsFannedOut
