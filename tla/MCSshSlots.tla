------------------------------- MODULE MCSshSlots -------------------------------
(* Instance of SshSlots for TLC: two calls compete for server a, two for     *)
(* server b, and a terminal dials b on its own.                              *)
EXTENDS SshSlots

CONSTANTS a, b

MCManaged  == {"a1", "a2", "b1", "b2"}
MCCallers  == MCManaged \cup {"terminal"}
MCServerOf == [p \in MCCallers |-> IF p \in {"a1", "a2"} THEN a ELSE b]
OnlyA      == {a}
=============================================================================
