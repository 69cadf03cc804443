------------------------------- MODULE MCTerminal -------------------------------
(* Instances of Terminal for TLC: server a is reached over SSH, server g     *)
(* over gs-netcat.                                                           *)
EXTENDS Terminal

CONSTANTS a, g

MCServers == {a, g}
MCKindOf  == [s \in MCServers |-> IF s = g THEN "gs" ELSE "ssh"]

TwoUsers  == {"u", "v"}

(* One session of each kind where only one is allowed; two sessions on one   *)
(* server where two are.                                                     *)
LimitAndSameServer ==
  {[limit |-> 1, server |-> [p \in TwoUsers |-> IF p = "u" THEN a ELSE g]],
   [limit |-> 2, server |-> [p \in TwoUsers |-> a]]}

LimitOfOne == {[limit |-> 1, server |-> [p \in TwoUsers |-> IF p = "u" THEN a ELSE g]]}
=============================================================================
