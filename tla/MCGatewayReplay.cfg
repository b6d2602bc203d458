SPECIFICATION Spec

CONSTANTS
  c1 = c1
  c2 = c2
  d1 = d1
  i1 = i1
  purge = purge
  p1 = p1
  shop = shop
  default = default
  Default = Default
  All = All
  None = None
  Creates = {c1, c2}
  Deletes = {d1}
  Ingests = {i1}
  Clears = {purge}
  Replays = {p1}
  Slugs = {shop, default}
  SlugOf <- MCSlugOf
  SlugIn <- MCSlugIn
  Replayed <- MCReplayed
  WithTarget = {}
  WithForward = {c1, Default}
  Faults = FALSE
  MaxCrashes = 0
  Second = 3
  Tolerance = 2
  MaxBody = 1
  NoSecret = NoSecret
  k1 = k1
  k2 = k2
  Secrets = {k1, k2}
  Bodies <- MCBodies
  Stamps <- MCStamps
  Instants <- MCInstants

INVARIANT ReplayIsLogged
