------------------------------ MODULE MCCncBus ------------------------------
\* Small instances of CncBus.
EXTENDS CncBus, TLC

Symmetry == Permutations(Frags) \cup Permutations(Chains) \cup Permutations(Dispatchers)

\* A message goes to one receiver or to all of them.
OneOrAll == {Receivers} \cup {{r} : r \in Receivers}
=============================================================================
