SPECIFICATION FairSpec
CONSTANTS
  NumLinks = 2
  Limits = {0, 2}
  Edits = {"extend", "limit", "reset", "enable", "disable", "reprovision"}
  MaxUsed = 1
INVARIANTS TypeOK UnconfirmedIsRetried
PROPERTIES CutOnlyInBreach CutReachesEveryLink BreachIsCut
