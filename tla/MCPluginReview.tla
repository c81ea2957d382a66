--------------------------- MODULE MCPluginReview ---------------------------
(* Two plugins of one priority, so that the load order decides.             *)
EXTENDS PluginReview
CONSTANTS a, b
MCPlugin == {a, b}
MCPriority == [p \in MCPlugin |-> 100]
=============================================================================
