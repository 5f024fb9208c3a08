SPECIFICATION FairSpec
CONSTANTS
  a1 = a1
  a2 = a2
  tok = tok
  e1 = e1
  e2 = e2
  r1 = r1
  j1 = j1
  Agents = {a1, a2}
  First = a1
  Tokens = {tok}
  Enrolments = {e1, e2}
  TokenOf <- Tokened
  Requests = {r1}
  Jobs = {j1}
  None = None
  MaxKeys = 3
  MaxEdits = 1
  MaxFaults = 1
INVARIANT TypeOK
PROPERTY AnswersConverge
