SPECIFICATION FairSpec
CONSTANTS
  job = job
  host = host
  e1 = e1
  e2 = e2
  nightly = nightly
  Paid = {"team", "enterprise"}
  Cap <- Caps
  Manual = {job}
  Hosts = {host}
  Crontab <- Entries
  Clustered = {nightly}
  None = None
  MaxCustomers = 2
  MaxEvents = 3
  MaxFaults = 1
  MaxEdits = 2
INVARIANTS TypeOK PlanFollowsStripe
PROPERTIES WithinLimit DiscoveredUnlessFull
