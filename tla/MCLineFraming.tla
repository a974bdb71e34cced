--------------------------- MODULE MCLineFraming ---------------------------
(* A small instance of LineFraming; the values are in the configuration. *)
EXTENDS LineFraming
============================================================================
