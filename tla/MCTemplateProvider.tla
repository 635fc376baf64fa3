------------------------- MODULE MCTemplateProvider -------------------------
(***************************************************************************)
(* TemplateProvider for TLC: one peer, and the template loop as the one    *)
(* caller of the node.                                                     *)
(***************************************************************************)
EXTENDS TemplateProvider

CONSTANTS p1, loop_, o1, good

MCPeers == {p1}
MCCallers == {loop_}
MCValidSolutions == {good}

=============================================================================
