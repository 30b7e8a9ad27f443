CONSTANTS
  Callers = {c1, c2}
  Settings = {0, 1}
  UserFields = {"CCR0", "BGR", "FCR"}
  SysfsFields = {"CMDR", "FCR", "FSTEL"}
  FcrPorts = {0, 1}
  ClockPorts = {0, 1}
  MaxCalls = 3
  MaxResumes = 1
SPECIFICATION Spec
SYMMETRY Symmetry
INVARIANTS TypeOK SettingsKept FcrKept
CHECK_DEADLOCK FALSE
