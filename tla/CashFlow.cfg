CONSTANTS
  Opening = 30
  Held = 10
  Transfers <- MCTransfers
  Incomes = {7}
  Noises <- MCNoises
  AbsorbMin = 2
  AbsorbBp = 100
  AbsorbMaxBp = 500
  SignatureDeposit = 7
  SignatureWithdrawal = 5
  SignatureModulus = 10
  MaxEvents = 3
  MaxSnapshots = 4
  MaxEdits = 2
SPECIFICATION Spec
INVARIANTS FlowTypeOK ChecksumHolds BaselineFollowsLabels
CHECK_DEADLOCK FALSE
