--------------------------- MODULE MCWorkloadStatus ---------------------------
(* Instances of WorkloadStatus for TLC. *)
EXTENDS WorkloadStatus

\* A resource, its successor, one that does not open and one with a bad file.
FourResources == {[id |-> 1, is |-> "good"], [id |-> 2, is |-> "good"],
                  [id |-> 3, is |-> "unopenable"], [id |-> 4, is |-> "bad-file"]}
=============================================================================
