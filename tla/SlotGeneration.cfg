SPECIFICATION FairSpec
CONSTANTS
  Jobs = {j1, j2}
  everyTick = everyTick
  everyOther = everyOther
  Schedules = {everyTick, everyOther}
  Occurrences <- FiringTimes
  None = None
  Horizon = 2
  RefreshMargin = 1
  Backfill = 1
  MaxSlots = 2
  BatchJobs = 2
  SlotBudget = 2
  MaxTime = 2
  MaxEdits = 2
  MaxFaults = 1
INVARIANTS TypeOK ExactlyTheSchedule NothingInvented
PROPERTIES MaterialisedAhead
