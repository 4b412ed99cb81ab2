---------------------------- MODULE Registration_mc ----------------------------
\* A server, a driver that is a listener as well, a listener, and an object of the
\* rest that a constructor may make and that is to come before the listener.
EXTENDS Registration

CONSTANTS s, d, l, q, c
McMakes == [x \in {c} |-> q]
McOrder == <<q, l>>
================================================================================
