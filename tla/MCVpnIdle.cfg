CONSTANTS
  c1 = c1
  VpnIds = {v1}
  ContainerNames = {c1}
  Configs <- MCConfigs
  Sessions = {s1, s2}
  Handlers = {h1, h2}
  MaxTimeout = 1
  MaxLag = 1
  NoVpn = NoVpn
  NoName = NoName
  NoClock = NoClock
  NoTick = NoTick
  NoSweep = NoSweep
  NoRequest = NoRequest
  NoList = NoList
SPECIFICATION FairSpec
INVARIANTS
  HoldsAreShells
PROPERTIES
  DecidesOnlyIdle
  IdleVpnStops
