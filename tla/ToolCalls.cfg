SPECIFICATION Spec
CONSTANTS
  TokenId = {ci}
  Secret = {k1, k2}
  Person = {"ann"}
  GrantOf <- MCGrantOf
  Editor = {"admin", "operator"}
  CapOf <- MCCapOf
  Request = {r1}
  Confirmation = {c1}
  Server = {"main", "lab"}
  Default = "main"
  ReadOnlyServer = {"lab"}
  ToolDef <- MCMethods
  Group <- MCGroup
  ScopeChoice <- MCScopeChoice
  ServerChoice <- MCServerChoice
  MaxSaves = 2
SYMMETRY Symmetry
VIEW Relevant
INVARIANTS TypeOK RightsHeld NothingHidden
PROPERTY EditsWithinCap
