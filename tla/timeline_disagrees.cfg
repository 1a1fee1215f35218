CONSTANTS
  t1 = t1
  t2 = t2
  ann = ann
  bob = bob
  Transfers = {t1, t2}
  Wallets = {ann, bob}
  From <- MCFrom
  To <- MCTo
  Amount <- MCAmount
  Opening <- MCOpening
  MaxAttempts = 2
SPECIFICATION Spec
CHECK_DEADLOCK FALSE
INVARIANT TimelineAgreesWithLedger
