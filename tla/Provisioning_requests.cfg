SPECIFICATION Spec
CONSTANTS
  User = {u1, u2}
  Tag = {ws}
  Toggle = {ws}
  Static = {ws}
  NoInbound = {}
  Handler = {h1}
  Loop = loop
  Page = {a1}
  MaxApplies = 0
  MaxFaults = 1
  MaxRestarts = 1
INVARIANTS
  NobodyLockedOut
  NoGhosts
PROPERTIES
  ImplementsAccess
SYMMETRY Symmetry
