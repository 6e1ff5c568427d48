\* Two messages or presses, two reads of the log at once, one reply, and two
\* times that the widget is opened or that a message or press fails; an answer
\* has at most two rows, so that one may leave off before the newest.
SPECIFICATION WidgetSpec
CONSTANTS
  MaxPosts = 2
  MaxGets = 2
  MaxReplies = 1
  MaxUpsets = 2
  MaxTime = 4
  Page = 2
INVARIANTS
  MissedIsKnown
  HandoffIsWatched
  TwiceIsKnown
CHECK_DEADLOCK FALSE
