SPECIFICATION Spec
CONSTANTS
  s = s  d = d  l = l  q = q  c = c  None = None
  Objects = {s, l, q}
  Servers = {s}
  Drivers = {}
  Listeners = {l}
  Ctors = {c}
  Makes <- McMakes
  Order <- McOrder
  Calls = {"unregister"}
INVARIANT AllSentOnce
