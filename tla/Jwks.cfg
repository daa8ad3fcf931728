CONSTANTS
  Calls = {c1, c2}
  Kids = {k1, k2}
  NoKid = NoKid
  KeySets = {{k1}, {k1, k2}}
  Tokens = {k1, k2, NoKid}
  Lifetime = 1
  Timeout = 1
SPECIFICATION FairSpec
INVARIANTS
  IInv
  DroppedKeysExpire
  SteadyKeysAreAccepted
PROPERTIES
  CacheFollowsProvider
