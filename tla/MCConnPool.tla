----------------------------- MODULE MCConnPool -----------------------------
(* Values of ConnPool's constants for TLC. *)
EXTENDS ConnPool

CONSTANTS r1, r2

=============================================================================
