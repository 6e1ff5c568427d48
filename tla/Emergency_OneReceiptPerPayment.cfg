SPECIFICATION Spec
CONSTANTS
  Requests = {r1}
  Checkouts = {k1, k2}
  Copies = {first, again}
  Nobody = Nobody
  NoSession = NoSession
  MaxFaults = 1
INVARIANT OneReceiptPerPayment
CHECK_DEADLOCK FALSE
