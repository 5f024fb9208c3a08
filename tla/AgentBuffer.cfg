SPECIFICATION FairSpec
CONSTANTS
  short = short
  long = long
  journal = journal
  Events = {short, long, journal}
  Passive = {journal}
  Size <- Sizes
  None = None
  NL = NL
  BatchSize = 2
  CompactSize = 5
  MaxFaults = 2
INVARIANTS TypeOK NothingSkipped ResentOnlyAfterFault
PROPERTIES IsAQueue EventuallySent
