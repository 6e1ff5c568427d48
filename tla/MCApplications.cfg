\* Two candidates for one of two adverts, two erasures, a download, three
\* failures.
SPECIFICATION Spec
SYMMETRY Symmetry
CONSTANTS
  Submissions = {s1, s2}
  Jobs = {j1, j2}
  Erasures = {e1, e2}
  Downloads = {d1}
  Nothing = nothing
  MaxFaults = 3
INVARIANTS
  AcceptedIsKept
  OrphanIsKnown
  ErasureIsComplete
CHECK_DEADLOCK FALSE
