CONSTANTS
  m1 = m1
  m2 = m2
  c1 = c1
  c2 = c2
  c3 = c3
  payer = payer
  requester = requester
  friend = friend
  k1 = k1
  k2 = k2
  top = top
  NoKey = NoKey
  MaxTransfer = 9
  NoAsk = NoAsk
  Refused = Refused
  Asks = {m1, m2}
  Responses = {c1, c2, c3}
  Keys = {k1, k2, top}
  Wallets = {payer, requester, friend}
  AskKey <- OneAsk
  Requester <- MCRequester
  Payer <- MCPayer
  Sum <- MCSum
  Request <- MCRequest
  Actor <- MCActor
  Decision <- MCDecision
  Key <- MCKey
  Direct <- MCDirect
  Opening <- MCOpening
  Freezable = {payer}
  Faults = {"engine", "ack", "redis", "crash", "restore"}
SPECIFICATION FairSpec
CHECK_DEADLOCK FALSE
INVARIANTS
  SettledRequestsAreAccepted
  OneSettlerAtATime
  AcceptedAnswersAreSettled
  RetriedAsksAgree
PROPERTIES
  DecisionsAreFinal
  AcceptanceIsSettledOrGivenBack
