SPECIFICATION Spec
CONSTANTS
  s1 = s1  s2 = s2  t1 = t1  t2 = t2  c1 = c1  c2 = c2  c3 = c3  c4 = c4  c5 = c5
  f = f  g = g  h = h  k = k  None = None
  Signals = {s1, s2}
  Tackers = {t1, t2}
  Clones = {c1, c2, c3, c4, c5}
  Functors = {f, g, h, k}
  functor_of <- McFunctorOf
  tacker_of <- McTackerOf
INVARIANTS NoDangling TackExact
PROPERTY ImplementsSignals
