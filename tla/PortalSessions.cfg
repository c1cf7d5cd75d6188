SPECIFICATION Spec
CONSTANTS
  User = {ann, bob}
  Account <- MCAccount
  Admin = "admin"
  Token = {s1, s2}
  Request = {"r1"}
  MaxSaves = 3
  Founders <- MCFounders
SYMMETRY Symmetry
INVARIANT TypeOK
PROPERTIES CheckedByTheFile EditByTheStanding
