------------------------- MODULE MCNodeController -------------------------
(* Instances of NodeController for TLC.                                     *)
EXTENDS NodeController, TLC

\* Handlers only compare equal or not.
Symmetry == Permutations(Handlers)

Always == {TRUE}
Either == {TRUE, FALSE}
===========================================================================
