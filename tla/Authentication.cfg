CONSTANTS
  c1 = c1
  c2 = c2
  p1 = p1
  p2 = p2
  p3 = p3
  Clients = {c1, c2}
  Passwords = {p1, p2, p3}
  ConfiguredUser = {p1}
  MaxRules = 3
SPECIFICATION Spec
SYMMETRY Symmetry
INVARIANTS SubscribersAuthenticated
PROPERTIES SessionKept SetUserAllOrNothing
