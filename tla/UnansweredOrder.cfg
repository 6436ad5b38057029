\* Violated: no answer to a send is not a KISError, so no inquiry follows.
SPECIFICATION Spec
CONSTANTS
  Procs = {cycle}
  MaxRetries = 2
  TransientAttempts = 2
  TokenLife = 3
INVARIANTS
  SendIsInquired
