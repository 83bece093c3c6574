SPECIFICATION Spec
CONSTANTS
  s1 = s1
  s2 = s2
  p1 = p1
  w1 = w1
  w2 = w2
  EventThread = EventThread
  TimerThread = TimerThread
  Requests = {s1, w1}
  Attr <- TakeoverAttr
  MaxContexts = 4
  MaxCancels = 1
INVARIANTS CancelledNeverStarts ChildHasParent
PROPERTY KeepsPromise
CHECK_DEADLOCK FALSE
