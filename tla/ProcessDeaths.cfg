SPECIFICATION DeathsSpec
CONSTANTS
  Calls = {i1, i2}
  MaxDeaths = 1
  MaxChanged = 2
  Commands = {c1, c2, c3}
  Custom = {c3}
  MaxTips = 1
  None = None
INVARIANTS AnsweredOnceUnlessDeath NoTrespass NoCommandLost ResultIsLast ListedOwesAnswer
PROPERTIES EveryCallEnds DisconnectEnds
\* with the service up, every call over and the executor released nothing is left to do
CHECK_DEADLOCK FALSE
