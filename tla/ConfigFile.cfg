\* Users are added, edited, and deleted one by one and in batches, tokens created, toggled and
\* deleted, and clients revoked, while a client registers.
CONSTANTS
  User = {u, v}
  Token = {t}
  Client = {c}
  Setting = {"s0"}
  Default = "s0"
  Portal = Portal
  NoOne = NoOne
  Op <- ManyOps
SPECIFICATION Spec
INVARIANTS
  TypeOK
  AdminRemains
  StoreFollowsFile
SYMMETRY Symmetry
VIEW Relevant
CHECK_DEADLOCK FALSE
