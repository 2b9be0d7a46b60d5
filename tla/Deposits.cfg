SPECIFICATION Spec
CONSTANTS
  daraja = daraja
  payhero = payhero
  lipwa = lipwa
  typed = typed
  confirmed = confirmed
  Requests = {daraja, payhero, lipwa}
  Paybills = {typed, confirmed}
  Rail <- MCRail
  Limit = 2
  MaxFaults = 1
INVARIANTS
  TypeOK
  ClaimedNeverSettles
PROPERTIES
  CreditsOnce
CHECK_DEADLOCK FALSE
