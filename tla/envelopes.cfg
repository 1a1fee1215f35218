CONSTANTS
  n1 = n1
  n2 = n2
  r1 = r1
  r2 = r2
  u = u
  d = d
  rent = rent
  food = food
  NoCall = NoCall
  Calls = {n1, n2, r1, r2, u, d}
  Envelopes = {rent, food}
  Kind <- MCKind
  Envelope <- MCEnvelope
  Amount <- MCAmount
  Spelling <- MCName
  Name <- MCName
  Payments = {1}
  Opening = 2
  MaxBalance = 3
  MaxEnvelopes = 2
SPECIFICATION Spec
CHECK_DEADLOCK FALSE
INVARIANTS
  EnvelopesAreCovered
  ReleasesFit
PROPERTIES
  DriftOnlyByDeletion
