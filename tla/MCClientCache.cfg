SPECIFICATION FairSpec
CONSTANTS
  c1 = c1
  c2 = c2
  c3 = c3
  lightsail = lightsail
  cloudflare = cloudflare
  r1 = r1
  NoSlot = NoSlot
  NoClient = NoClient
  Failed = Failed
  Callers = {c1, c2, c3}
  OnceSlots = {lightsail, cloudflare}
  Regions = {r1}
  NeedRegion = {lightsail}
  MaxCalls = 3
  MaxFaults = 1
INVARIANT
  ClientTypeOK
PROPERTIES
  OneClientEach
  EveryCallAnswered
CHECK_DEADLOCK FALSE
