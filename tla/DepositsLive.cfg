SPECIFICATION FairSpec
CONSTANTS
  daraja = daraja
  payhero = payhero
  lipwa = lipwa
  typed = typed
  confirmed = confirmed
  Requests = {daraja, payhero, lipwa}
  Paybills = {}
  Rail <- MCRail
  Limit = 2
  MaxFaults = 1
PROPERTIES
  InitiationEnds
  OutcomeReachesDeposit
  PaidReachesPlayer
CHECK_DEADLOCK FALSE
