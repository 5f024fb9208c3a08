SPECIFICATION Spec
CONSTANTS
  a = a
  b = b
  onFailure = onFailure
  onSla = onSla
  chan = chan
  Jobs = {a}
  Rules = {onFailure}
  Channels = {chan}
  Rule <- RuleRows
  None = None
  Statuses = {"healthy", "failed", "unknown"}
  FlapThreshold = 3
  MaxDeliver = 1
  MaxRetries = 0
  MaxEvents = 3
  MaxEdits = 0
PROPERTIES FailureOpensIncident
