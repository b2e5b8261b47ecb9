--------------------------- MODULE MCCoreEditor ---------------------------
(* Instances of CoreEditor for TLC.                                         *)
EXTENDS CoreEditor, TLC

CONSTANTS A, B, c1, c2, n1, s1, s2

\* An Xray core with and without inbound tags, with two configs, and a
\* WireGuard core without a name whose stored config the editor cannot read.
MCStored ==
  {[kind |-> "xray", config |-> c1, name |-> n1, tags |-> TRUE],
   [kind |-> "xray", config |-> c2, name |-> n1, tags |-> FALSE],
   [kind |-> "wg", config |-> Broken, name |-> NoName, tags |-> FALSE]}

Symmetry == Permutations({A, B}) \cup Permutations({s1, s2})
=============================================================================
