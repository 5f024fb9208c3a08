SPECIFICATION Spec
CONSTANTS
  a = a
  b = b
  onFailure = onFailure
  onSla = onSla
  chan = chan
  Jobs = {a, b}
  Rules = {onFailure, onSla}
  Channels = {chan}
  Rule <- RuleRows
  None = None
  Statuses = {"healthy", "failed", "unknown"}
  FlapThreshold = 2
  MaxDeliver = 2
  MaxRetries = 0
  MaxEvents = 2
  MaxEdits = 0
INVARIANTS TypeOK OneOpenIncident HealthyMeansResolved
PROPERTIES FailureIsTracked
