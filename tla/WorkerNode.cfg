SPECIFICATION FairSpec
CONSTANTS
  Instances = {i1, i2}
  Edits = {e1}
  Requests = {r1, r2}
  Drivers = {"process", "docker"}
  NumPorts = 2
  MaxCores = 3
  MaxRequests = 3
  MaxFaults = 1
INVARIANTS PortsApart EveryCoreIsTended EditsSurvive KnownIsRegistered
PROPERTIES EditsAreSaved RegisteredIsRelaunched
CHECK_DEADLOCK FALSE
