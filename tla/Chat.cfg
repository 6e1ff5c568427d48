SPECIFICATION FairSpec
CONSTANTS
  Messages = {m1, m2}
  Buttons = {b1}
  Closes = {c1}
  Agents = {g1}
  Pollers = {p1, p2}
  Replies = {r1}
  NoThread = none
  MaxFaults = 1
INVARIANTS
  SecondCardNeedsALostOne
  WaitingIsKnown
PROPERTIES
  KeepsCustody
  ReplyReachesLog
CHECK_DEADLOCK FALSE
