\* Two requests for one slot, two cancels of whatever was confirmed, and two
\* failures of any kind at any point.
SPECIFICATION FairSpec
CONSTANTS
  Requests = {r1, r2}
  Cancels = {c1, c2}
  Slots = {s1}
  Nobody = Nobody
  NoEvent = NoEvent
  MaxFaults = 2
INVARIANTS
  KeptPromise
  OneEventPerBooking
  OrphansNeedAFault
PROPERTIES
  ImplementsLedger
  EverySettles
CHECK_DEADLOCK FALSE
