SPECIFICATION FairSpec
CONSTANTS
  v1 = v1
  v2 = v2
  v3 = v3
  b1 = b1
  b2 = b2
  b3 = b3
  p1 = p1
  p2 = p2
  p3 = p3
  p4 = p4
  p5 = p5
  p6 = p6
  h1 = h1
  h2 = h2
  n1 = n1
  n2 = n2
  n3 = n3
  nx = nx
  NoIp = NoIp
  NoVm = NoVm
  NoHost = NoHost
  Vms <- MCVms
  Ips <- MCIps
  Pool <- MCPool
  StaticNames <- MCStaticNames
  NameFor <- MCNameFor
  Hosts <- MCHosts
  Worlds <- FullWorlds
  Banned <- SharedBanned
  MaxStaticIp = 1
  BatchSize = 2
  MaxFaults = 0
PROPERTY
  Termination
