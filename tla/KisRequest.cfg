\* Two processes, two tries, two transient refusals, tokens that expire.
SPECIFICATION FairSpec
CONSTANTS
  Procs = {cycle, watch}
  MaxRetries = 2
  TransientAttempts = 2
  TokenLife = 3
INVARIANTS
  
  TokensAreLive
  OrderAcceptedOnce
  QueriesBounded
PROPERTIES
  CallsEnd
