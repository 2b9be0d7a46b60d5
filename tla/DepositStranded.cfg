SPECIFICATION FairSpec
CONSTANTS
  daraja = daraja
  payhero = payhero
  lipwa = lipwa
  typed = typed
  confirmed = confirmed
  Requests = {payhero}
  Paybills = {}
  Rail <- MCRail
  Limit = 1
  MaxFaults = 1
PROPERTIES
  NothingStranded
CHECK_DEADLOCK FALSE
