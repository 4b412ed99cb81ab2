------------------------------- MODULE Signals_mc ------------------------------
\* Two signals, two tackers, and five clones: two equal functors and another one
\* of the first tacker, one functor of the second, and a plain function.
EXTENDS Signals, TLC

CONSTANTS s1, s2, t1, t2, c1, c2, c3, c4, c5, f, g, h, k
McFunctorOf == (c1 :> f) @@ (c2 :> f) @@ (c3 :> g) @@ (c4 :> h) @@ (c5 :> k)
McTackerOf == (c1 :> t1) @@ (c2 :> t1) @@ (c3 :> t1) @@ (c4 :> t2) @@ (c5 :> None)
================================================================================
