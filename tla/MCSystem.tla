------------------------------ MODULE MCSystem ------------------------------
(* Values of System's constants for TLC. *)
EXTENDS System

CONSTANTS s1, s2

=============================================================================
