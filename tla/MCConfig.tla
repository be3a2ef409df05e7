------------------------------ MODULE MCConfig ------------------------------
(* Values of Config's constants for TLC. *)
EXTENDS Config

\* The limits of the pause and of the unsigned types, and their neighbours.
Boundaries == {-1, 0, 1, 60, 61, U8 - 1, U8, U8 + 2, U16 - 1, U16, -U16, U32 - 1, U32}

=============================================================================
