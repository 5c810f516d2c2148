SPECIFICATION Spec
CONSTANTS
  Proc = {p1, p2}
  Long = {FALSE}
  MaxReports = 3
  MaxFaults = 1
INVARIANTS TamperedMeansTampered
