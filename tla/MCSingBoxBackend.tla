------------------------- MODULE MCSingBoxBackend -------------------------
(* Instances of SingBoxBackend for TLC.                                     *)
EXTENDS SingBoxBackend, TLC

CONSTANTS e1, e2, k1, k2, vless, ss, api

U(e, v, s, a) == [email |-> e, entry |-> (vless :> v) @@ (ss :> s) @@ (api :> a)]

\* Two users with credentials on an inbound with a user list, on a classic
\* shadowsocks one and on an excluded one, or taken off one or all of them.
MCUserMsgs == {U(e1, k1, k1, None), U(e1, None, None, None), U(e2, k1, None, k1), U(e2, k2, k2, None)}

MCRawUsers == (api :> (e1 :> k2 @@ e2 :> None))
===========================================================================
