---------------------------- MODULE PeerReadiness ----------------------------
(***************************************************************************)
(* The library's notion of an application that is ready.  A unit looks at  *)
(* its database, its flags and the scale that Juju's goal state promises,  *)
(* tells its peers READY or NOTREADY, and calls the application ready if   *)
(* it is ready itself and has heard READY of every peer.  A hook reads all *)
(* that while it runs; what it says comes out at its end.                  *)
(***************************************************************************)
EXTENDS Integers, FiniteSets

CONSTANT PeerUnits

ASSUME PeersAssumption == PeerUnits # {} /\ IsFiniteSet(PeerUnits)

VARIABLES
    goalState,   \* Juju knows goal-state
    expectsHa,   \* expect_ha: a vip is set or hacluster is promised
    expected,    \* the units that the goal state lists
    peers,       \* the units that are in the peer relation
    dependencies, \* the relations shared-db and ha that have a unit
    allowed,     \* allowed_units, of the database
    maintenance, \* a unit of the database says that it is upgraded
    initialised, \* db-initialised in the leader's settings
    pausedPeers, \* the units with the flag unit-paused
    said,        \* said[u]: its unit-state on the peer relation
    claims,      \* the units that call the application ready
    due,         \* the units that have a hook to run
    reading      \* reading[u]: what the hook of u has found, or {}

peerVars == <<goalState, expectsHa, expected, peers, dependencies, allowed, maintenance,
              initialised, pausedPeers, said, claims, due, reading>>
database == <<allowed, maintenance, initialised>>
unitData == <<pausedPeers, said, claims, reading>>

PeersInit ==
    /\ goalState \in BOOLEAN /\ expectsHa \in BOOLEAN
    /\ peers = {CHOOSE u \in PeerUnits : TRUE} /\ expected = peers /\ due = peers
    /\ dependencies = {} /\ allowed = {} /\ maintenance = FALSE /\ initialised = FALSE
    /\ pausedPeers = {} /\ claims = {}
    /\ said = [u \in PeerUnits |-> "UNKNOWN"]
    /\ reading = [u \in PeerUnits |-> {}]

-----------------------------------------------------------------------------
(* What a unit finds. *)

\* expected_peer_units, expected_related_units: Juju without goal-state raises
\* NotImplementedError, which is taken for the right scale.
IsExpectedScale(u) ==
    goalState =>
        /\ Cardinality(peers \ {u}) >= Cardinality(expected \ {u})
        /\ "shared-db" \in dependencies
        /\ expectsHa => "ha" \in dependencies

IsDbReady(u) == "shared-db" \in dependencies /\ u \in allowed

\* get_api_unit_status, whether it is ACTIVE
UnitReady(u) ==
    /\ ~maintenance
    /\ u \notin pausedPeers
    /\ IsDbReady(u)
    /\ initialised
    /\ IsExpectedScale(u)

ArePeersReady(u) == \A p \in peers \ {u} : said[p] = "READY"

-----------------------------------------------------------------------------
(* Hooks. *)

ReadsState(u) ==
    /\ u \in due \cap peers /\ reading[u] = {}
    /\ reading' = [reading EXCEPT ![u] =
          {[ready |-> UnitReady(u), application |-> UnitReady(u) /\ ArePeersReady(u)]}]
    /\ due' = due \ {u}
    /\ UNCHANGED <<goalState, expectsHa, expected, peers, dependencies, database,
                   pausedPeers, said, claims>>

\* Mutant: a unit that is not ready says nothing.
InformPeers_OnlyReady(ready, state) == IF ready THEN "READY" ELSE state

\* inform_peers_if_ready: what the unit says, and said before
InformPeers(ready, state) == IF ready THEN "READY" ELSE "NOTREADY"

\* The peers have a hook for a setting that has changed.
EndsHook(u) ==
    /\ \E found \in reading[u] :
          /\ said' = [said EXCEPT ![u] = InformPeers(found.ready, said[u])]
          /\ claims' = IF found.application THEN claims \cup {u} ELSE claims \ {u}
          /\ due' = IF said'[u] = said[u] THEN due ELSE due \cup (peers \ {u})
    /\ reading' = [reading EXCEPT ![u] = {}]
    /\ UNCHANGED <<goalState, expectsHa, expected, peers, dependencies, database, pausedPeers>>

-----------------------------------------------------------------------------
(* The world. *)

\* Juju: a unit is promised, and comes some time later.
UnitExpected(u) ==
    /\ u \notin expected /\ expected' = expected \cup {u}
    /\ UNCHANGED <<goalState, expectsHa, peers, dependencies, database, unitData, due>>

UnitJoins(u) ==
    /\ u \in expected \ peers /\ peers' = peers \cup {u}
    /\ due' = due \cup peers'
    /\ UNCHANGED <<goalState, expectsHa, expected, dependencies, database, unitData>>

UnitLeaves(u) ==
    /\ u \in peers /\ peers # {u} /\ reading[u] = {}
    /\ peers' = peers \ {u} /\ expected' = expected \ {u}
    /\ due' = peers'
    /\ said' = [said EXCEPT ![u] = "UNKNOWN"]
    /\ claims' = claims \ {u} /\ pausedPeers' = pausedPeers \ {u}
    /\ UNCHANGED <<goalState, expectsHa, dependencies, database, reading>>

\* shared-db and ha come with what their units say, and go with it.
DependencyChanges(d) ==
    /\ dependencies' = (dependencies \cup {d}) \ (dependencies \cap {d})
    /\ IF d \in dependencies /\ d = "shared-db"
       THEN allowed' = {} /\ maintenance' = FALSE ELSE UNCHANGED <<allowed, maintenance>>
    /\ due' = due \cup peers
    /\ UNCHANGED <<goalState, expectsHa, expected, peers, initialised, unitData>>

\* A unit of the database lists units, begins an upgrade or ends it.
DatabaseSays(units, upgrading) ==
    /\ "shared-db" \in dependencies
    /\ <<units, upgrading>> # <<allowed, maintenance>>
    /\ allowed' = units /\ maintenance' = upgrading
    /\ due' = due \cup peers
    /\ UNCHANGED <<goalState, expectsHa, expected, peers, dependencies, initialised, unitData>>

\* set_db_initialised: leader-settings-changed comes on every other unit.
SetDbInitialised ==
    /\ ~initialised /\ allowed # {} /\ initialised' = TRUE
    /\ due' = due \cup peers
    /\ UNCHANGED <<goalState, expectsHa, expected, peers, dependencies, allowed, maintenance, unitData>>

\* The actions pause and resume, which assess the unit like a hook does.
PauseOrResume(u) ==
    /\ u \in peers /\ reading[u] = {}
    /\ pausedPeers' = (pausedPeers \cup {u}) \ (pausedPeers \cap {u})
    /\ due' = due \cup {u}
    /\ UNCHANGED <<goalState, expectsHa, expected, peers, dependencies, database, said, claims, reading>>

PeersNext ==
    \/ \E u \in PeerUnits :
          ReadsState(u) \/ EndsHook(u) \/ UnitExpected(u) \/ UnitJoins(u) \/ UnitLeaves(u)
          \/ PauseOrResume(u)
    \/ \E d \in {"shared-db", "ha"} : DependencyChanges(d)
    \/ \E units \in {{}, peers}, upgrading \in BOOLEAN : DatabaseSays(units, upgrading)
    \/ SetDbInitialised

PeersSpec == PeersInit /\ [][PeersNext]_peerVars

-----------------------------------------------------------------------------
(* Properties. *)

\* Units that have no hook left to run agree: each calls the application ready if
\* and only if every unit is ready, whatever they read of each other on the way and
\* whichever units came, left or were paused.
QuietUnitsAgree ==
    (due \cap peers = {} /\ peers = expected /\ \A u \in peers : reading[u] = {}) =>
        \A u \in peers : u \in claims <=> \A p \in peers : UnitReady(p)
=============================================================================
