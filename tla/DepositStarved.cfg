SPECIFICATION FairSpec
CONSTANTS
  daraja = daraja
  payhero = payhero
  lipwa = lipwa
  typed = typed
  confirmed = confirmed
  Requests = {payhero, lipwa}
  Paybills = {}
  Rail <- MCRail
  Limit = 1
  MaxFaults = 0
PROPERTIES
  OutcomeReachesDeposit
CHECK_DEADLOCK FALSE
