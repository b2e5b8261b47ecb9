------------------------- MODULE MCOutboundsSection -------------------------
(* Instances of OutboundsSection for TLC.                                   *)
EXTENDS OutboundsSection

CONSTANTS t1, t2, inbound, b0, b1

\* What an administrator may store: one outbound; two, one of which the form
\* does not show; none; and one with the tag of an inbound.
MCStoredLists ==
  {<<[tag |-> t1, body |-> b1]>>,
   <<[tag |-> t2, body |-> b1], [tag |-> t1, body |-> Unmanaged]>>,
   <<>>,
   <<[tag |-> inbound, body |-> b1]>>}
=============================================================================
