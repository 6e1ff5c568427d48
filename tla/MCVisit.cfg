\* Two workers, and two of: an edit, a failed fetch. Any number of page loads.
SPECIFICATION FairSpec
CONSTANTS
  Workers = {"w1", "w2"}
  Paths <- MCPaths
  STATIC_REDIRECTS <- MCStatic
  Targets <- MCTargets
  Entered <- MCEntered
  Links <- MCLinks
  MaxTurns = 2
INVARIANTS
  FirstTouchIsCredited
  OneHopForTheQuery
  LoopIsInTheTable
PROPERTIES
  TakesEffect
  TripsEndUnlessTableLoops
