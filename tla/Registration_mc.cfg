SPECIFICATION FairSpec
CONSTANTS
  s = s  d = d  l = l  q = q  c = c  None = None
  Objects = {s, d, l, q}
  Servers = {s}
  Drivers = {d}
  Listeners = {l, d}
  Ctors = {c}
  Makes <- McMakes
  Order <- McOrder
  Calls = {"permanent", "cleanup", "constructor"}
INVARIANTS AllSentOnce GivenOnce NoneLeft
PROPERTIES PassOrder EnableEnds
