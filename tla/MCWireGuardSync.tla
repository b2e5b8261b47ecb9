--------------------------- MODULE MCWireGuardSync ---------------------------
(* Instances of WireGuardSync for TLC.                                      *)
EXTENDS WireGuardSync

CONSTANTS e1, e2, k1, k2, i1, i2, far

U(e, inb, k, ips, valid) ==
  [email |-> e, inbound |-> inb, key |-> k, ips |-> ips, ipsValid |-> valid]

\* Every kind of user entry: both keys, one or two addresses, an address
\* outside the interface's networks, a user without addresses, an unparsable
\* key, an unparsable address, and a user of another interface.
MCUserMsgs ==
  {U(e, TRUE, k, ips, TRUE) : e \in Emails, k \in Keys, ips \in {{i1}, {i2}}}
  \cup {U(e1, TRUE, k1, {i1, i2}, TRUE), U(e2, TRUE, k2, {i2, far}, TRUE)}
  \cup {U(e2, FALSE, k1, {i1}, TRUE), U(e1, TRUE, BadKey, {i1}, TRUE),
        U(e2, TRUE, k2, {far}, TRUE), U(e1, TRUE, k1, {i2}, FALSE),
        U(e1, TRUE, k1, {}, TRUE)}
=============================================================================
