SPECIFICATION HarnessSpec
CONSTANTS
  Threads = {t1, t2}
  Traced = {t1}
  Parent = Parent
  MaxCalls = 1
  MaxToggles = 2
  MaxStops = 2
INVARIANT PipeClosesWithChild
