\* Two starts at the same time.
SPECIFICATION SumSpec
CONSTANTS
  Keepers = {k1, k2, k3}
  Commands = {c1, c2}
  None = None
  Operations = {"start"}
  Exclusive = {}
  MaxCrashes = 0
  Nobody = Nobody
  Daemons = {d1}
  Users = {u1}
  MaxBegun = 1
  MaxFaults = 0
INVARIANTS AtMostOneInstance
