\* One request, two checkouts of it, every event delivered up to twice, two
\* failures.
SPECIFICATION FairSpec
CONSTANTS
  Requests = {r1}
  Checkouts = {k1, k2}
  Copies = {first, again}
  Nobody = Nobody
  NoSession = NoSession
  MaxFaults = 2
INVARIANTS
  ReceiptsBounded
PROPERTIES
  KeepsLedger
  ChargeIsRecorded
  CaptureSettles
CHECK_DEADLOCK FALSE
