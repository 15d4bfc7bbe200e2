SPECIFICATION FairSpec
CONSTANTS
  Users = {u1, u2}
  NoUser = NoUser
  NoToken = NoToken
  SignIns = {s1, s2}
  Calls = {}
  Logouts = {l1, l2}
  MaxTokens = 2
INVARIANTS
  OneProfileUnlessOverlap
  ShownUserIsStored
PROPERTIES
  LogoutTakesEffect
  MainIsNotStranded
