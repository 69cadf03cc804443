------------------------------- MODULE MCLogStream -------------------------------
(* Instance of LogStream for TLC: both handlers, a line and a half of output.        *)
EXTENDS LogStream

BothHandlers == {"ssh", "gs"}
=============================================================================
