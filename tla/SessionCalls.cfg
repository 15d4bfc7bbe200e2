SPECIFICATION Spec
CONSTANTS
  Users = {u1, u2}
  NoUser = NoUser
  NoToken = NoToken
  SignIns = {s1}
  Calls = {c1, c2}
  Logouts = {l1}
  MaxTokens = 2
SYMMETRY Symmetry
INVARIANTS
  TypeOK
  LogoutSticks
  CallsCarryShownUser
PROPERTIES
  StoreImplemented
