CONSTANTS
  s1 = s1
  s2 = s2
  s3 = s3
  r1 = r1
  r2 = r2
  a1 = a1
  a2 = a2
  k1 = k1
  payee = payee
  owner = owner
  Never = Never
  NoCall = NoCall
  Sends = {s1, s2, s3}
  Releases = {r1, r2}
  AnswerCalls = {a1, a2}
  MaxAttempts = 2
  MaxFreezes = 1
  SecurityFaults = {"freeze"}
  Key <- MCKey
  Receiver <- MCReceiver
  Amount <- MCAmount
  ChallengeAbsolute = 25
  Hourly = {0}
  Fanouts = {0}
  Idles = {Never, 90}
  LargeAmount = 10
  VelocityElevated = 10
  VelocityExtreme = 25
  FanOut = 15
  DormancyDays = 90
  Keys = {k1}
  Wallets = {owner, payee}
  Opening <- MCOpening
  MaxTransfer = 5000
  Faults = {"engine", "ack", "redis", "risk"}
SYMMETRY Alike
SPECIFICATION Spec
CHECK_DEADLOCK FALSE
INVARIANTS
  LargePaymentsAreAuthorised
  RiskDecisionsAreGrounded
  GuessingEndsInReview
  WrongAnswerStopsTheWallet
PROPERTIES
  ReleasesAreProven
