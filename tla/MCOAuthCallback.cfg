SPECIFICATION Spec
CONSTANTS
  c1 = c1
  c2 = c2
  c3 = c3
  bigA = bigA
  a = a
  b = b
  s0 = s0
  s1 = s1
  s2 = s2
  g = g
  Nobody = Nobody
  NoClaims = NoClaims
  Callbacks = {c1, c2, c3}
  Emails = {bigA, a, b}
  Lower <- MCLower
  Subs = {s0, s1, s2}
  Groups = {g}
  Claims <- MCClaims
  Configs <- MCConfigs
  Existing <- MCExisting
  DefaultRole = "pending"
SYMMETRY Requests
INVARIANTS
  OAuthTypeOK
  SharedEmailOnlyByAwait
  NeverWithoutAdmin
  GroupsFollowClaims
PROPERTY
  AdminOnlyAloneOrClaimed
