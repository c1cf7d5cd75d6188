\* Rotation, reuse, sign-out, expiry, full tables and scopes, with the portal's thread.
CONSTANTS
  Client = {c1}
  User = {u1}
  Role = {r1}
  Scope = {s1, s2}
  NoRole = NoRole
  Readable = {TRUE}
  MaxClients = 1
  MaxCodes = 1
  MaxAccess = 2
  MaxRefresh = 2
  CodeBound = 2
  PairBound = 3
  PasswordBound = 1
SPECIFICATION Spec
INVARIANTS
  TypeOK
  OnlyNewestLives
  ReusedFamilyIsDead
  OneFamilyPerCode
  WithinGrant
  TablesBounded
SYMMETRY Symmetry
VIEW Relevant
CHECK_DEADLOCK FALSE
