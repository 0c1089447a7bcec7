------------------------------- MODULE MCAccess -------------------------------
(* Access on small instances: every console is behind one address.         *)
EXTENDS Access, TLC

OneAddress == [c \in Consoles |-> "venue"]

Symmetry == Permutations(Consoles) \cup Permutations(Phones)
=============================================================================
