SPECIFICATION DashSpec
CONSTANTS
  r1 = r1  r2 = r2
  Req = {r1, r2}
  Host = {h1}
  Pick = {"ws"}
  Seeded = {h1}
  Text = {"443", "x"}
  Number = {"443"}
  Valid = {"443"}
  DefaultPort = "8443"
  Target = {"t1", "t2"}
  ShortID = {"s1"}
  Empty = ""
  Sent <- MCSent
  Installed <- MCInstalled
  MaxForms = 3
  MaxFaults = 1
  MaxRestarts = 2
SYMMETRY MCSymmetry
INVARIANTS DashTypeOK RealityLinkWhole OffStaysOff
