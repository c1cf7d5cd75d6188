\* Every method on every release, by its tool and by its name.
CONSTANTS
  Choice <- MCChoice
  Version <- MCVersion
SPECIFICATION CatalogueSpec
INVARIANTS
  CatalogueTypeOK
  NoUnmeantWrite
  AdviceHolds
  GroupsAreEverything
