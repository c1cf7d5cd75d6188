SPECIFICATION Spec
CONSTANTS
  User = {u1, u2}
  Browser = {b1, b2}
  Ask <- MCAsk
  Role = {"admin", "guest"}
  CapOf <- MCCapOf
  MostCapped = "viewer"
  Offer <- MCOffer
  AddressOf <- MCAddressOf
  MaxPending = 1
  MaxLogins = 2
  MaxAttempts = 2
  Window = 2
INVARIANTS TypeOK CodeOfItsBrowser GrantWithinRole OneAnswer
PROPERTY LockoutEnds
