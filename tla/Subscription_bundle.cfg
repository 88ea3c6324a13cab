SPECIFICATION SubSpec
CONSTANTS
  User = {u1}
  Tag = {ws, xhttp}
  Toggle = {ws, xhttp}
  Static = {ws}
  NoInbound = {}
  Handler = {}
  Loop = loop
  Page = {a1}
  MaxApplies = 1
  MaxFaults = 1
  MaxRestarts = 0
  Host = {e1}
  Pick = {"ws", "wsxhttp"}
  WSTag = ws
  GRPCTag = grpc
  XHTTPTag = xhttp
INVARIANTS
  SubTypeOK
  BundleWorks
  ClashNamesHosts
CONSTRAINT OneOfBoth
