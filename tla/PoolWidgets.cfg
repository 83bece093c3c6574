SPECIFICATION Spec
CONSTANTS
  s1 = s1
  s2 = s2
  p1 = p1
  w1 = w1
  w2 = w2
  EventThread = EventThread
  TimerThread = TimerThread
  Requests = {w1, w2}
  Attr <- WidgetAttr
  MaxContexts = 4
  MaxCancels = 0
INVARIANT OneLiveWidget
CHECK_DEADLOCK FALSE
