SPECIFICATION FairSpec
CONSTANTS
  a = a
  b = b
  c = c
  Timers = {a, b, c}
  Delays = {0, 1, 2}
  MaxTime = 3
PROPERTIES ImplementsAlarms TimersGoOff
