SPECIFICATION Spec
CONSTANTS
  r1 = r1
  r2 = r2
  r3 = r3
  m = m
  n = n
  i = i
  j = j
  NoIp = NoIp
  Unanswered = Unanswered
  Failed = Failed
  Regions = {r1, r2}
  Names = {m, n}
  Ips = {i, j}
  Pages = 2
  PageOf <- MCPageOf
  Contents <- TwoOfAName
  Concurrency = 2
INVARIANT
  DuplicatesDropped
