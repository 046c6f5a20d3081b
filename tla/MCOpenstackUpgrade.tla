------------------------- MODULE MCOpenstackUpgrade -------------------------
(* Instances of OpenstackUpgrade for TLC. *)
EXTENDS OpenstackUpgrade

\* action-managed-upgrade may be switched, or is off.
Switched == BOOLEAN
Off      == {FALSE}
=============================================================================
