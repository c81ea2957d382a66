--------------------------- MODULE MCPluginEvents ---------------------------
(* Values for the events of two plugins: the first subscribes with an empty  *)
(* list, which means every event, and its peer is there with one socket;     *)
(* the peer of the second never comes.                                      *)
EXTENDS PluginEvents
CONSTANT c1
MCClient == {c1}
MCOwner == [c \in MCClient |-> 1]
MCWants == [p \in Plugin |-> IF p = 1 THEN {} ELSE {2}]
=============================================================================
