SPECIFICATION Spec
CONSTANTS
  Services = {s1}
  Requests = {r1, r2}
  Boot = boot
  Intervals = {30, 60}
  DefaultInterval = 60
  MonitorQuota = 1
  MaxFaults = 1
  Nobody = Nobody
INVARIANTS ScheduleMatches NoBlindSpot
CONSTRAINT FewInFlight
CHECK_DEADLOCK FALSE
SYMMETRY Symmetry
