\* Three sessions, two requests at once, a code burned by two wrong entries, and
\* two of: a failure, a wrong entry, an expiry, a needless request, a page left.
SPECIFICATION GateFairSpec
CONSTANTS
  MaxSessions = 3
  MaxReqs = 2
  OTP_MAX_ATTEMPTS = 2
  MaxTurns = 2
INVARIANTS
  GreetedOnce
PROPERTIES
  NoCodeTooSoon
  GetsIn
CHECK_DEADLOCK FALSE
