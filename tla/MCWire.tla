------------------------------- MODULE MCWire --------------------------------
\* Wire for TLC: ids that the client hands out are interchangeable.
EXTENDS Wire, TLC

Symmetry == Permutations(Ids)
=============================================================================
