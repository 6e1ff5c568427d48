\* An entry of any kind, two requests, two URLs, two versions, two names.
SPECIFICATION MCSpec
CONSTANTS
  Kinds = {"page", "heroPage", "post", "job", "caseStudy"}
  Editors = {e1, e2}
  Slugs = {"u1", "u2"}
  Contents = {c1, c2}
  Names = {n1, n2}
  Nothing = nothing
  FirstSlug = "u1"
  FirstContent = c1
  FirstName = n1
INVARIANTS
  DateIsOfContent
  StaleIsKnown
PROPERTIES
  ReadersCatchUp
CHECK_DEADLOCK FALSE
