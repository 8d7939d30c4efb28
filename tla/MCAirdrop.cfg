SPECIFICATION AirdropSpec
CONSTANTS
  a1 = a1
  a2 = a2
  a3 = a3
  r1 = r1
  r2 = r2
  Addrs = {a1, a2}
  Deposits = {d1}
  Runs = {r1, r2}
  Nobody = nobody
  Opening = 3
  Displaces = FALSE
  MaxFaults = 2
  StopAfter = 2
  Recipients <- Shared
INVARIANTS PayOnceInv AccountInv NoPayAfterRecord NoLineWithoutSend OneLapsePerMishap DoneMeansPaid SentIsRecorded
PROPERTY KeepsPromise
