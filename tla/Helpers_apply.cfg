SPECIFICATION FairSpec
CONSTANTS
  Req = {r1, r2}
  Page = {"paths", "admin", "domain", "perf"}
  Value = {v1, v2}
  Base = v1
  BaseXHTTP = unset
  Stub = {v1}
  Unset = unset
  MaxApplies = 2
  MaxFaults = 1
  MaxRestarts = 1
VIEW HelpersView
INVARIANTS
  CopiesAgree
  ShownLoginWorks
PROPERTY
  RotationEndsSessions
CONSTRAINT OneMishap
