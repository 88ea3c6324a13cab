SPECIFICATION Spec
CONSTANTS
  User = {u1}
  Tag = {ws, xhttp}
  Toggle = {ws, xhttp}
  Static = {ws}
  NoInbound = {}
  Handler = {h1}
  Loop = loop
  Page = {a1, a2}
  MaxApplies = 2
  MaxFaults = 1
  MaxRestarts = 0
INVARIANTS
  NobodyLockedOut
  NoGhosts
  TagsFollowSettings
PROPERTIES
  ImplementsAccess
SYMMETRY Symmetry
CONSTRAINT InPairs
