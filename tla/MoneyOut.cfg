SPECIFICATION MoneySpec
CONSTANTS
  u1 = u1
  u2 = u2
  w1 = w1
  w2 = w2
  w3 = w3
  a1 = a1
  a2 = a2
  x = x
  o = o
  m = m
  p = p
  Nobody = Nobody
  d1 = d1
  d2 = d2
  q1 = q1
  q2 = q2
  Users = {u1, u2}
  Withdrawals = {w1, w2, w3}
  Owner <- MCOwner
  Amount <- MCAmount
  Opening <- MCOpening
  Approvers = {a1, a2}
  MaxFaults = 1
  Accounts = {x, o, m, p}
  Referrer <- MCReferrer
  StartRole <- MCStartRole
  Deposits = {d1, d2}
  Depositor <- MCDepositor
  Requests = {q1, q2}
  Requester <- MCRequester
  MinPayout = 10
  ExpenseSize = 10
  MaxExpenses = 1
  MaxChanges = 2
INVARIANTS
  TypeOK
  WalletTie
  CommissionTypes
  FullShare
  NeverOverdrawn
PROPERTIES
  PayoutKept
  ProcessingEnds
  DefaultEarns
CHECK_DEADLOCK FALSE
