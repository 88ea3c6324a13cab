SPECIFICATION Spec
CONSTANTS
  Req = {r1}
  Page = {"paths"}
  Value = {v1, v2}
  Base = v1
  BaseXHTTP = v1
  Stub = {v1}
  Unset = unset
  MaxApplies = 2
  MaxFaults = 1
  MaxRestarts = 0
INVARIANT
  AppliedMeansInEffect
