------------------------ MODULE MCTunaSessionClient ------------------------
(* Small instances of TunaSessionClient for TLC. *)
EXTENDS TunaSessionClient

CONSTANTS c1, c2, c3,   \* connections
          a0, a1,       \* TCP addresses
          ka, kd,       \* an accepted and a dialed session key
          peer

OneIndex == {0}
TwoIndexes == {0, 1}
OnePeer == [k \in Keys |-> peer]
NoLimit == -1

\* answers to an address request
Both == [i \in {0, 1} |-> IF i = 0 THEN a0 ELSE a1]
OnlyFirst == [i \in {0, 1} |-> IF i = 0 THEN a0 ELSE NoAddr]
Neither == [i \in {0, 1} |-> NoAddr]
NoLists == {}
Short == [i \in {0} |-> a0]
Lists == {Both, OnlyFirst, Neither, Short}
ShortLists == {Both, Short}
=============================================================================
