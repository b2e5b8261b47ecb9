---------------------------- MODULE MCPanelNode ----------------------------
(* Instances of PanelNode for TLC.                                          *)
EXTENDS PanelNode, TLC

CONSTANTS u1, c1, c2, c3, a1, r1, r2
=============================================================================
