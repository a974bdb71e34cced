------------------------ MODULE MCClientConnection ------------------------
(* Small instances of ClientConnection: a handler h and other threads. *)
EXTENDS ClientConnection

CONSTANTS h, t1, t2
============================================================================
