SPECIFICATION Spec
CONSTANTS
  p1 = p1  p2 = p2  p3 = p3
  Peers = {p1, p2, p3}
  RegistryWait = 3
  EdgeWait = 5
  MaxFaults = 1
  Crashes = TRUE
INVARIANT MonitorSurvives
