SPECIFICATION FairSpec
CONSTANTS
  User = {u1}
  Tag = {ws, grpc, xhttp}
  Toggle = {ws}
  Static = {ws, grpc, xhttp}
  NoInbound = {xhttp}
  Handler = {h1}
  Loop = loop
  Page = {a1}
  MaxApplies = 0
  MaxFaults = 1
  MaxRestarts = 1
INVARIANTS
  NobodyLockedOut
  NoGhosts
PROPERTIES
  HydrationCompletes
  DisabledEvicted
