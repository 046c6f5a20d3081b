---------------------------- MODULE MCUnitConfig ----------------------------
(* Instances of UnitConfig for TLC. *)
EXTENDS UnitConfig

\* Which sources change, and how often: a relation may be incomplete first.
AllButCeph == [s \in Source |-> CASE s = "ceph"     -> 0
                                  [] s = "relation" -> 2
                                  [] OTHER          -> 1]

EveryOp == Actions \cup UpgradeHooks

\* The operator leaves the unit alone, pauses it at most, or does not care.
JustPause == {"pause"}
=============================================================================
