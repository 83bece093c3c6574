SPECIFICATION Spec
CONSTANTS
  s1 = s1
  s2 = s2
  p1 = p1
  w1 = w1
  w2 = w2
  EventThread = EventThread
  TimerThread = TimerThread
  Requests = {s1, s2, p1}
  Attr <- SlotAttr
  MaxContexts = 5
  MaxCancels = 0
SYMMETRY SlotSymmetry
INVARIANT PinSlotExclusive
PROPERTY NoOvertaking
CHECK_DEADLOCK FALSE
