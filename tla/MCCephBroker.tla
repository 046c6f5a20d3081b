---------------------------- MODULE MCCephBroker ----------------------------
(* Instances of CephBroker for TLC. *)
EXTENDS CephBroker

\* Two units of ceph; restrict-ceph-pools unset and set.
CONSTANTS m1, m2, plain, restricted
=============================================================================
