----------------------------- MODULE MCPluginRpc -----------------------------
(* Values for the connection of a plugin: an extension call without a limit *)
(* of its own, as the finalizers make it, a limited one that repeats its    *)
(* invocation, as hooks do, and the request of stop().                      *)
EXTENDS PluginRpc
CONSTANTS invoke, retry, halt
MCRequest == {invoke, retry, halt}
MCLimited == {retry, halt}
MCInvocation == [r \in MCRequest |-> IF r = retry THEN invoke ELSE r]
=============================================================================
