\* Two browsers, two secrets, a challenge burned by two wrong codes, and two of:
\* a mail that fails, a code from an app, an expiry, a session's end, a password
\* changed, an authenticator turned off, a start again that was not needed.
SPECIFICATION SignInFairSpec
CONSTANTS
  Browsers = {"desk", "laptop"}
  CHALLENGE_MAX_ATTEMPTS = 2
  MaxSecrets = 2
  MaxTurns = 2
INVARIANT
  FactorIsHeld
PROPERTY
  GetsIn
CHECK_DEADLOCK FALSE
