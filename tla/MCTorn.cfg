SPECIFICATION AirdropSpec
CONSTANTS
  a1 = a1
  a2 = a2
  a3 = a3
  r1 = r1
  r2 = r2
  Addrs = {a1, a2, a3}
  Deposits = {}
  Runs = {r1}
  Nobody = nobody
  Opening = 5
  Displaces = FALSE
  MaxFaults = 1
  StopAfter = 2
  Recipients <- Single
INVARIANT CanResume
