SPECIFICATION Spec
CONSTANTS
  TokenId = {ci}
  Secret = {k1, k2}
  Person = {"ann", "bob"}
  GrantOf <- MCGrantOf
  Editor = {"admin"}
  CapOf <- MCCapOf
  Request = {r1}
  Confirmation = {c1}
  Server = {"main", "lab"}
  Default = "main"
  ReadOnlyServer = {"lab"}
  ToolDef <- MCToolDef
  Group <- MCGroup
  ScopeChoice <- MCScopeChoice
  ServerChoice <- MCServerChoice
  MaxSaves = 0
SYMMETRY Symmetry
INVARIANT PreparerConfirms
