SPECIFICATION Spec
CONSTANTS
  Host = {"h1", "h2", "h3"}
  Members = {"h1", "h2"}
  Measured = {"h1", "h2"}
  Trigger = {"t1", "t2"}
  HostsOf <- MCHostsOf
  Problem = {"p1", "p2", "p3"}
  TriggerOf <- MCTriggerOf
  Fetched <- MCFetched
  Told <- MCTold
  Call = {c1}
  Renderer = {r1, r2}
  RightsChoice <- MCRightsChoice
  MaxChanges = 3
  MaxLogins = 3
CONSTRAINT AtRest
SYMMETRY Symmetry
INVARIANTS TypeOK AnswerIsCurrent ReadsWithinRights RefusedIsForgotten
