------------------------------ MODULE MCDbInit ------------------------------
(* Instances of DbInit for TLC. *)
EXTENDS DbInit

CONSTANTS u1, u2, u3

\* Units none of whose names is part of the name of another.
NoPrefix == {}
=============================================================================
