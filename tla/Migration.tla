----------------------------- MODULE Migration -----------------------------
(***************************************************************************)
(* What the initialisation and the migration of the database promise to    *)
(* the outside, however the units talk about it: services are started on   *)
(* the database of the moment, and a unit acknowledges a sync only when    *)
(* its services, if they run, were started after it.  Having acknowledged  *)
(* one it always acknowledges some.                                        *)
(***************************************************************************)
EXTENDS Integers

CONSTANT Unit

VARIABLES
    schema,       \* number of db syncs that have run
    running,      \* running[u]: the services of u run
    version,      \* version[u]: how many syncs had run when they were started
    acknowledged  \* acknowledged[u]: the syncs that u says it has dealt with

migrationVars == <<schema, running, version, acknowledged>>

MigrationInit ==
    /\ schema = 0
    /\ running = [u \in Unit |-> TRUE]
    /\ version = [u \in Unit |-> 0]
    /\ acknowledged = [u \in Unit |-> {}]

Starts(u, n) == /\ running' = [running EXCEPT ![u] = TRUE]
                /\ version' = [version EXCEPT ![u] = n]

Sync == schema' = schema + 1 /\ UNCHANGED <<running, version, acknowledged>>

Restart(u) == Starts(u, schema) /\ UNCHANGED <<schema, acknowledged>>

Stop(u) ==
    /\ running' = [running EXCEPT ![u] = FALSE]
    /\ UNCHANGED <<schema, version, acknowledged>>

\* A unit says what it has dealt with, and may go back to work as it does.
Acknowledge(u) ==
    /\ \E A \in (SUBSET (0..schema)) \ {{}} :
           /\ acknowledged' = [acknowledged EXCEPT ![u] = A]
           /\ running'[u] => \A n \in A : n <= version'[u]
    /\ Starts(u, schema) \/ UNCHANGED <<running, version>>
    /\ UNCHANGED schema

MigrationNext == Sync \/ \E u \in Unit : Restart(u) \/ Stop(u) \/ Acknowledge(u)

MigrationSpec == MigrationInit /\ [][MigrationNext]_migrationVars
=============================================================================
