CONSTANTS
  ann = ann
  ben = ben
  shop = shop
  ta = ta
  tb = tb
  small = small
  big = big
  all = all
  sent = sent
  Nothing = Nothing
  Unpaid = Unpaid
  Tokens = {ta, tb}
  Owner <- MCOwner
  Filters = {all, sent}
  Unfiltered = all
  MaxMounts = 3
  MaxLoads = 3
  Intents = {small, big}
  Receiver <- MCReceiver
  Amount <- MCAmount
  Large = {big}
  MaxAttempts = 2
  MaxSends = 3
  Wallets = {ann, ben, shop}
  Opening <- MCOpening
  MaxTransfer = 2
  Faults = {"engine", "ack", "redis"}
SYMMETRY Alike
SPECIFICATION Spec
CHECK_DEADLOCK FALSE
INVARIANTS
  ShownDataIsCurrent
  OnePaymentPerAttempt
  CompletedIsThisTransfer
