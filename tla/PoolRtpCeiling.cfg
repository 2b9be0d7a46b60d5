SPECIFICATION Spec
CONSTANTS
  t1 = t1
  t2 = t2
  t3 = t3
  u1 = u1
  u2 = u2
  Positions = {t1, t2, t3}
  Users = {u1, u2}
  Contract <- MCContract
  DefaultAmount = 6
  Amounts = {4, 7}
  RtpNum = 9
  RtpDen = 10
  ShareNum = 1
  ShareDen = 1
  MaxFaults = 1
  MaxRestarts = 1
INVARIANTS
  RtpCeiling
