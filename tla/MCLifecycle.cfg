\* Two commands of disciplined users; one crash.  quit takes the same steps as stop.
\* Two daemons, two users without discipline; three commands, one fault.
SPECIFICATION SumFairSpec
CONSTANTS
  Keepers = {k1, k2}
  Commands = {c1, c2}
  None = None
  Operations = {"start", "interactive", "stop", "restart", "rebootstrap", "kill", "clean"}
  Exclusive = {"start", "interactive", "restart", "rebootstrap", "kill", "clean"}
  MaxCrashes = 1
  Nobody = Nobody
  Daemons = {d1, d2}
  Users = {u1, u2}
  MaxBegun = 3
  MaxFaults = 1
INVARIANTS
  AtMostOneInstance
  RunningIsRecorded
  DaemonIsFound
PROPERTIES
  StaleFileHeals
  SignalEndsDaemon
