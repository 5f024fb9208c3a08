SPECIFICATION Spec
CONSTANTS
  Slots = {0, 1}
  Runs = {r1, r2}
  None = None
  Grace = 0
  Runtime = 1
  Early = 0
  Anonymous = {}
  Unsequenced = {}
  DurationReported = {TRUE}
  StartReported = {TRUE}
  Endings = {"success", "fail"}
  MaxTime = 2
  MaxFlips = 0
  MaxFaults = 2
  ReconcilerCrashes = FALSE
SYMMETRY RunSymmetry
INVARIANTS TypeOK UnsettledUnbound NextTickSettles SucceededIsReal
PROPERTIES IsALifecycle NoFalseMiss
