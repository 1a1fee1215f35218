CONSTANTS
  r1 = r1
  r2 = r2
  r3 = r3
  a = a
  b = b
  k1 = k1
  k2 = k2
  req = req
  NoOrigin = NoOrigin
  NoCall = NoCall
  Requests = {r1, r2, r3}
  Keys = {k1, k2}
  Wallets = {a, b}
  Rank <- MCRank
  Key <- KeyTwo
  Sender <- SenderOneWay
  Receiver <- ReceiverOneWay
  Amount <- AmountOne
  Origin <- SettlementOrigin
  Opening <- MCOpening
  OpeningStatus <- MCOpeningStatus
  ActiveOwner = {a, b}
  Earmarks = {0, 1}
  MaxTransfer = 2
  MaxAttempts = 1
  Faults = {"redis", "database", "ack", "crash"}
SPECIFICATION RememberingSpec
SYMMETRY SameCommand
CHECK_DEADLOCK FALSE
INVARIANTS
  VerdictsAgree
  OneRowPerKey
  RowsMatchLedger
  OneSettlementPerOrigin
  AnswersAreTrue
PROPERTIES
  HistoryIsAppendOnly
  ImplementsAtomicTransfer
