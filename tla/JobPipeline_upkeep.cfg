SPECIFICATION FairSpec
CONSTANTS
  Slots = {1}
  Runs = {r1}
  None = None
  Grace = 1
  Runtime = 0
  Early = 1
  Anonymous = {}
  Unsequenced = {}
  DurationReported = {FALSE}
  StartReported = {TRUE, FALSE}
  Endings = {"success", "fail"}
  MaxTime = 4
  MaxFlips = 2
  MaxFaults = 1
  ReconcilerCrashes = TRUE
PROPERTIES SkippedNotBlamed OverdueSettles EventualAgreement
