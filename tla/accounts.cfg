CONSTANTS
  x1 = x1
  x2 = x2
  x3 = x3
  f1 = f1
  f2 = f2
  l1 = l1
  s1 = s1
  s2 = s2
  t1 = t1
  pa = pa
  pb = pb
  pc = pc
  pd = pd
  mail = mail
  Genesis = Genesis
  Nobody = Nobody
  Registrations = {x1, x2, x3}
  Logins = {l1}
  Seeds = {s1, s2}
  Transfers = {t1}
  Fixture <- MCFixture
  Tier <- MCTier
  Phone <- MCPhone
  Unique <- MCUnique
  From <- MCFrom
  To <- MCTo
  Amount <- MCAmount
  Opening = 2
SPECIFICATION Spec
CHECK_DEADLOCK FALSE
INVARIANTS
  DriftIsTheSeeds
  OpeningsAreIssuedOnce
  AccountsAreDistinct
