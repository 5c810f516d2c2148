SPECIFICATION Spec
CONSTANTS
  Q = 5
  Client = {MAS, DOS}
  Id = {2, 3}
  Cap = 2
  MaxQueries = 3
  MaxDkg = 2
  MaxFaults = 2
INVARIANTS TypeOK ServersAgree ServersMetered
PROPERTIES Implements
CHECK_DEADLOCK FALSE
