SPECIFICATION MCSpec
CONSTANTS
  Users = {1, 2, 3}
  Contracts = {9}
  Self = 2
  Histories <- Rotations
  MaxHeight = 4
  LightBatch = 3
  DetailBatch = 2
INVARIANTS ScanInv FoundWhatActed WholeRange RangeAsAsked RecipientsSound LoggedScanReproduces ContractsCounted
PROPERTY ScanEnds
