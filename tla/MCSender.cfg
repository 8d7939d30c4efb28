SPECIFICATION MCSpec
CONSTANTS
  Addrs = {a1}
  Deposits = {d1}
  Runs = {r1}
  Nobody = nobody
  Opening = 3
  Displaces = TRUE
  MaxFaults = 3
  MaxMinted = 6
INVARIANTS SenderInv TypeOK AcknowledgedStays WaitSuffices
PROPERTY CallReturns
