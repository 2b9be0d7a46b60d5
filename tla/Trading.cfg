SPECIFICATION FairSpec
CONSTANTS
  p1 = p1
  p2 = p2
  o1 = o1
  Positions = {p1, p2}
  Orders = {o1}
  Stake = 2
  Payouts = {0, 3}
  Opening <- MCOpening
  BonusAmount = 2
  Wagering = 2
  Target = 2
  MaxUpsets = 1
  MaxRestarts = 1
INVARIANTS
  TypeOK
  PaidWhereStaked
  SaidIsPaid
  ArmedOnce
  ArmedKept
  StakesKnown
PROPERTIES
  StakesKept
  EndedStaysEnded
  StakesSettle
CHECK_DEADLOCK FALSE
