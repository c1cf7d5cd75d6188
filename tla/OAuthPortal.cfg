\* One client under revocation, a user who changes, a config file that may be unreadable:
\* the portal's thread against the event loop.
CONSTANTS
  Client = {c1}
  User = {u1}
  Role = {r1}
  Scope = {s1}
  NoRole = NoRole
  Readable = {TRUE, FALSE}
  MaxClients = 1
  MaxCodes = 1
  MaxAccess = 2
  MaxRefresh = 2
  CodeBound = 2
  PairBound = 2
  PasswordBound = 2
SPECIFICATION FairSpec
PROPERTIES
  ForgottenGainsNothing
  ImplementsChains
  RevokedClientEventuallyOut
CHECK_DEADLOCK FALSE
