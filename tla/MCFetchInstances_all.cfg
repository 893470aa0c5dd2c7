SPECIFICATION Spec
CONSTANTS
  r1 = r1
  r2 = r2
  r3 = r3
  m = m
  n = n
  i = i
  j = j
  NoIp = NoIp
  Unanswered = Unanswered
  Failed = Failed
  Regions = {r1, r2, r3}
  Names = {m, n}
  Ips = {i, j}
  Pages = 2
  PageOf <- MCPageOf
  Contents <- MCContents
  Concurrency = 2
INVARIANT
  FetchTypeOK
PROPERTY
  AnswersAsPromised
