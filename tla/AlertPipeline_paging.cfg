SPECIFICATION FairSpec
CONSTANTS
  a = a
  b = b
  onFailure = onFailure
  onSla = onSla
  chan = chan
  Jobs = {a}
  Rules = {onFailure, onSla}
  Channels = {chan}
  Rule <- PagingRows
  None = None
  Statuses = {"healthy", "failed", "unknown"}
  FlapThreshold = 2
  MaxDeliver = 2
  MaxRetries = 1
  MaxEvents = 1
  MaxEdits = 1
PROPERTIES EventuallyHandled
