SPECIFICATION FairSpec
CONSTANTS
  u1 = u1
  u2 = u2
  nightly = nightly
  j1 = j1
  UIDs = {u1, u2}
  NameOf <- OneName
  Jobs = {j1}
  OwnerOf <- Owners
  OutcomeOf <- Outcomes
  None = None
  Limit = 1
  MaxPending = 2
  MaxMishaps = 1
INVARIANTS TypeOK
PROPERTIES StartsFirst EventuallyReported EventuallyExplained PauseFollowsSuspend
