------------------------------ MODULE MCFraming ------------------------------
EXTENDS Framing, TLC

CONSTANTS w1, w2, m1, m2, m3

\* encoded lengths
Lengths == (Addr :> 1) @@ (Meta :> 2) @@ (m1 :> 2) @@ (m2 :> 3) @@ (m3 :> 2)

\* the length of m2 does not fit
ShortLimits == [addr |-> 1, meta |-> 2, data |-> 2]
=============================================================================
