------------------------------- MODULE DbInit -------------------------------
(***************************************************************************)
(* Database initialisation across the units of the cinder application.     *)
(*                                                                         *)
(* The elected leader runs `cinder-manage db sync` and publishes a fresh   *)
(* notification id in its settings of the peer relation.  Every other unit *)
(* that sees an id it has not echoed restarts its services and echoes the  *)
(* id in its own settings (hooks/cinder_utils.py, is_db_initialised ..     *)
(* migrate_database).  Hooks of one unit run one at a time; hooks of       *)
(* different units interleave.  What a hook writes with relation_set       *)
(* becomes visible only when the hook ends well: a hook that fails is run  *)
(* again, and everything it set is dropped.                                *)
(***************************************************************************)
EXTENDS Integers, FiniteSets

CONSTANTS
    Unit,        \* the units of the application
    NoUnit,      \* the author of "no notification"
    Prefix,      \* <<u, v>>: the name of u is a substring of the name of v
    Joiners,     \* the units that have not joined the others yet at the start
    Retries,     \* the num_retries of retry_on_exception
    MaxSyncs,    \* bound: successful db syncs
    MaxTerms,    \* bound: changes of leader
    MaxFails,    \* bound: failed hooks
    MaxDeparts,  \* bound: units that leave
    MaxPauses,   \* bound: pause actions
    MaxUpgrades  \* bound: units that are upgraded

ASSUME DbInitAssumption ==
    /\ NoUnit \notin Unit
    /\ Prefix \subseteq Unit \X Unit
    /\ Joiners \subseteq Unit
    /\ Retries \in Nat /\ MaxSyncs \in Nat /\ MaxTerms \in Nat
    /\ MaxFails \in Nat /\ MaxDeparts \in Nat /\ MaxPauses \in Nat
    /\ MaxUpgrades \in Nat

VARIABLES
    leader,      \* the unit for which is_elected_leader holds
    bag,         \* bag[u]: the committed settings of u in the peer relation
    pend,        \* pend[u][v]: what Juju owes to u about the peer v
    hook,        \* hook[u]: the hook or action that u is executing
    paused,      \* paused[u]: the unit-paused flag
    up,          \* up[u]: the services of u are running
    svc,         \* svc[u]: how many syncs had run when they were last started
    schema,      \* number of db syncs that have run
    pkg,         \* pkg[u]: the packages of u are upgraded
    migrated,    \* an upgraded unit has run db sync
    left,        \* the units that have left
    budget       \* what is left of the bounds on terms, failures and pauses

vars == <<leader, bag, pend, hook, paused, up, svc, schema, pkg, migrated,
          left, budget>>

-----------------------------------------------------------------------------
(* Notifications and the settings that carry them. *)

\* `"%s-%s" % (local_unit(), uuid.uuid4())`: its author, and the number of syncs that
\* had run when it was made.
Id   == [by : Unit, n : Nat]
NoId == [by |-> NoUnit, n |-> 0]

\* CINDER_DB_INIT_RKEY and CINDER_DB_INIT_ECHO_RKEY of a unit.
Settings   == [init : Id \cup {NoId}, echo : Id \cup {NoId}]
NoSettings == [init |-> NoId, echo |-> NoId]

Kind == {"none", "db", "upgrade", "joined", "changed", "departing"}
At   == {"idle", "sync", "online", "resync", "announce", "done"}
Hook == [at : At, kind : Kind, from : Unit, tries : Nat, set : Settings]
Due  == {"joined", "changed", "clean", "departing", "gone"}

Idle(u) == [at |-> "idle", kind |-> "none", from |-> u, tries |-> 0,
            set |-> NoSettings]

\* related_units(): the peers whose relation-joined hook has started on u.
Related(u, owed) == {v \in Unit \ {u} : owed[u][v] \in {"changed", "clean"}}

\* Mutant: only the peers are looked at.
DbInitialised_PeersOnly(u, owed) ==
    \E v \in Related(u, owed) : bag[v].init # NoId \/ bag[v].echo # NoId

\* is_db_initialised: some related unit, or u, holds one of the two keys.
DbInitialised(u, owed) ==
    \E v \in Related(u, owed) \cup {u} :
        bag[v].init # NoId \/ bag[v].echo # NoId

\* `local_unit() in init_id` is a substring test on the name of the author.
NamesLocalUnit(u, id) == id.by = u \/ <<u, id.by>> \in Prefix

\* Mutant: any echo counts as the echo of this id.
IsNewNotification_FirstOnly(u, id, echo) ==
    id # NoId /\ ~NamesLocalUnit(u, id) /\ echo = NoId

\* is_new_dbinit_notification
IsNewNotification(u, id, echo) ==
    id # NoId /\ ~NamesLocalUnit(u, id) /\ echo # id

\* Mutant: the id is cleared and nothing is echoed.
Echoed_ClearOnly(u, id) ==
    [init |-> IF leader = u THEN bag[u].init ELSE NoId, echo |-> bag[u].echo]

\* The settings after the echo: a unit that does not lead clears its own id.
Echoed(u, id) ==
    [init |-> IF leader = u THEN bag[u].init ELSE NoId, echo |-> id]

-----------------------------------------------------------------------------
Init ==
    /\ leader \in Unit
    /\ bag = [u \in Unit |-> NoSettings]
    /\ pend = [u \in Unit |-> [v \in Unit |->
                  IF {u, v} \cap Joiners = {} THEN "clean" ELSE "joined"]]
    /\ hook = [u \in Unit |-> Idle(u)]
    /\ paused = [u \in Unit |-> FALSE]
    /\ up = [u \in Unit |-> TRUE]
    /\ svc = [u \in Unit |-> 0]
    /\ schema = 0
    /\ pkg = [u \in Unit |-> FALSE]
    /\ migrated = FALSE
    /\ left = {}
    /\ budget = [terms |-> MaxTerms, fails |-> MaxFails,
                 pauses |-> MaxPauses]

Free(u) == u \notin left /\ hook[u].at = "idle"

\* Mutant: the upgrade flag is not looked at.
Syncs_IgnoreFlag(u, upgrade) == leader = u /\ ~DbInitialised(u, pend)

\* Whether migrate_database(upgrade) runs db sync, called on the leader only.
Syncs(u, upgrade) == leader = u /\ (upgrade \/ ~DbInitialised(u, pend))

\* Bound: the syncs that have run and those that are under way.
Migrating(u) == hook[u].at \in {"sync", "online", "resync"}
MaySync == schema + Cardinality({u \in Unit : Migrating(u)}) < MaxSyncs

\* Mutant: the restart is forgotten.
RestartUnlessPaused_Never(u, n) == UNCHANGED <<up, svc>>

\* service_restart of every service, skipped on a paused unit.
RestartUnlessPaused(u, n) ==
    /\ up'  = [up  EXCEPT ![u] = IF paused[u] THEN @ ELSE TRUE]
    /\ svc' = [svc EXCEPT ![u] = IF paused[u] THEN @ ELSE n]

\* db_changed on the leader, once shared-db is complete and the unit is in the
\* access list: migrate_database() goes on to the sync if nobody has done it.
DbChanged(u) ==
    /\ Free(u)
    /\ Syncs(u, FALSE)
    /\ MaySync
    /\ hook' = [hook EXCEPT ![u] = [at |-> "sync", kind |-> "db", from |-> u,
                                    tries |-> Retries, set |-> bag[u]]]
    /\ UNCHANGED <<leader, bag, pend, paused, up, svc, schema, pkg, migrated,
                   left, budget>>

\* do_openstack_upgrade up to the sync: new packages, new configuration, all
\* services stopped; the leader goes on to db sync, the others start again.
StartUpgrade(u) ==
    /\ Free(u)
    /\ ~pkg[u]
    /\ Syncs(u, TRUE) => MaySync
    /\ Cardinality({w \in Unit : pkg[w]}) < MaxUpgrades
    /\ pkg' = [pkg EXCEPT ![u] = TRUE]
    /\ up' = [up EXCEPT ![u] = ~Syncs(u, TRUE) /\ ~paused[u]]
    /\ svc' = [svc EXCEPT ![u] = IF up'[u] THEN schema ELSE @]
    /\ hook' = [hook EXCEPT ![u] =
                   [at |-> IF Syncs(u, TRUE) THEN "sync" ELSE "done",
                    kind |-> "upgrade", from |-> u, tries |-> Retries,
                    set |-> bag[u]]]
    /\ UNCHANGED <<leader, bag, pend, paused, schema, migrated, left, budget>>

\* `cinder-manage db sync` succeeds.
SyncOk(u) ==
    /\ hook[u].at \in {"sync", "resync"}
    /\ schema' = schema + 1
    /\ migrated' = (migrated \/ pkg[u])
    /\ hook' = [hook EXCEPT ![u].at = "announce"]
    /\ UNCHANGED <<leader, bag, pend, paused, up, svc, pkg, left, budget>>

\* Then the services are restarted, and a new id is set, to be published when the hook
\* ends.  Another leader may have run a sync in between.
Announce(u) ==
    /\ hook[u].at = "announce"
    /\ RestartUnlessPaused(u, schema)
    /\ hook' = [hook EXCEPT ![u].at = "done",
                            ![u].set.init = [by |-> u, n |-> schema]]
    /\ UNCHANGED <<leader, bag, pend, paused, schema, pkg, migrated, left, budget>>

\* The sync of an upgrade fails because online data migrations must run first.
SyncNeedsOnlineMigrations(u) ==
    /\ hook[u].at = "sync"
    /\ hook[u].kind = "upgrade"
    /\ hook' = [hook EXCEPT ![u].at = "online"]
    /\ UNCHANGED <<leader, bag, pend, paused, up, svc, schema, pkg, migrated,
                   left, budget>>

\* The loop over online_data_migrations ends with an exit code other than 1
\* and 2.  (Exit code 1 runs the command again and changes nothing here.)
OnlineMigrationsDone(u) ==
    /\ hook[u].at = "online"
    /\ hook' = [hook EXCEPT ![u].at = "resync"]
    /\ UNCHANGED <<leader, bag, pend, paused, up, svc, schema, pkg, migrated,
                   left, budget>>

\* db sync, online_data_migrations (exit code 2) or the second db sync raises
\* CalledProcessError: retry_on_exception runs migrate_database again.
Retry(u) ==
    /\ Migrating(u)
    /\ hook[u].tries > 0
    /\ hook' = [hook EXCEPT ![u].at = "sync", ![u].tries = @ - 1]
    /\ UNCHANGED <<leader, bag, pend, paused, up, svc, schema, pkg, migrated,
                   left, budget>>

\* The event that Juju owes to u about v is used up.
Taken(u, v) == [pend EXCEPT ![u][v] = CASE @ = "joined" -> "changed"
                                        [] @ = "changed" -> "clean"
                                        [] OTHER -> "gone"]

\* The settings of v carry a notification that u has to act on.
Notified(u, v) == /\ DbInitialised(u, Taken(u, v))
                  /\ IsNewNotification(u, bag[v].init, bag[u].echo)

\* cluster_joined, and cluster_changed for relation-changed and -departed:
\* check_local_db_actions_complete() on the settings of the peer v.  The event
\* is owed again if the hook fails.
ClusterHook(u, v) ==
    /\ Free(u)
    /\ v # u
    /\ pend[u][v] \in {"joined", "changed", "departing"}
    /\ pend[u][v] # "joined" \/ v \notin left
    /\ pend' = Taken(u, v)
    /\ hook' = [hook EXCEPT ![u] =
           [at |-> "done", kind |-> pend[u][v], from |-> v, tries |-> 0,
            set |-> IF Notified(u, v) THEN Echoed(u, bag[v].init)
                                      ELSE bag[u]]]
    /\ IF Notified(u, v)
       THEN RestartUnlessPaused(u, schema)
       ELSE UNCHANGED <<up, svc>>
    /\ UNCHANGED <<leader, bag, paused, schema, pkg, migrated, left, budget>>

\* The hook succeeds: its settings are published, and every peer that has seen
\* u join is owed a relation-changed if they differ.  The upgrade action also
\* resumes a paused unit.
HookEnds(u) ==
    LET set     == hook[u].set
        resumes == hook[u].kind = "upgrade" /\ paused[u]
    IN  /\ hook[u].at = "done"
        /\ bag' = [bag EXCEPT ![u] = set]
        /\ pend' = [w \in Unit |-> [pend[w] EXCEPT ![u] =
                        IF @ = "clean" /\ set # bag[u] THEN "changed" ELSE @]]
        /\ hook' = [hook EXCEPT ![u] = Idle(u)]
        /\ paused' = [paused EXCEPT ![u] = @ /\ ~resumes]
        /\ up' = [up EXCEPT ![u] = @ \/ resumes]
        /\ svc' = [svc EXCEPT ![u] = IF resumes THEN schema ELSE @]
        /\ UNCHANGED <<leader, schema, pkg, migrated, left, budget>>

\* The hook fails, in migrate_database after its last retry, between the sync and
\* the restart or the notification, or in anything that follows: what it set is
\* dropped and the event is owed again.
HookFails(u) ==
    LET h == hook[u]
    IN  /\ h.at # "idle"
        /\ budget.fails > 0
        /\ budget' = [budget EXCEPT !.fails = @ - 1]
        /\ pend' = IF h.kind \in {"joined", "changed", "departing"}
                   THEN [pend EXCEPT ![u][h.from] =
                           IF @ = "departing" THEN @ ELSE h.kind]
                   ELSE pend
        /\ hook' = [hook EXCEPT ![u] = Idle(u)]
        /\ UNCHANGED <<leader, bag, paused, up, svc, schema, pkg, migrated,
                       left>>

\* The pause and resume actions, as far as the services are concerned.
Pause(u) ==
    /\ Free(u)
    /\ ~paused[u]
    /\ budget.pauses > 0
    /\ budget' = [budget EXCEPT !.pauses = @ - 1]
    /\ paused' = [paused EXCEPT ![u] = TRUE]
    /\ up' = [up EXCEPT ![u] = FALSE]
    /\ UNCHANGED <<leader, bag, pend, hook, svc, schema, pkg, migrated,
                   left>>

Resume(u) ==
    /\ Free(u)
    /\ paused[u]
    /\ paused' = [paused EXCEPT ![u] = FALSE]
    /\ up' = [up EXCEPT ![u] = TRUE]
    /\ svc' = [svc EXCEPT ![u] = schema]
    /\ UNCHANGED <<leader, bag, pend, hook, schema, pkg, migrated, left,
                   budget>>

\* Juju elects another leader, at any moment.
ElectLeader(u) ==
    /\ u \notin left
    /\ u # leader
    /\ budget.terms > 0
    /\ budget' = [budget EXCEPT !.terms = @ - 1]
    /\ leader' = u
    /\ UNCHANGED <<bag, pend, hook, paused, up, svc, schema, pkg, migrated,
                   left>>

\* A unit that does not lead is removed: its peers are owed a departed hook.
Depart(v) ==
    /\ Free(v)
    /\ v # leader
    /\ Cardinality(left) < MaxDeparts
    /\ left' = left \cup {v}
    /\ pend' = [u \in Unit |-> [pend[u] EXCEPT ![v] =
                    CASE @ \in {"changed", "clean"} -> "departing"
                      [] @ = "joined" -> "gone"
                      [] OTHER -> @]]
    /\ UNCHANGED <<leader, bag, hook, paused, up, svc, schema, pkg, migrated,
                   budget>>

Migrate(u) == \/ SyncOk(u)
              \/ SyncNeedsOnlineMigrations(u)
              \/ OnlineMigrationsDone(u)
              \/ Announce(u)

Next == \E u \in Unit :
            \/ DbChanged(u) \/ StartUpgrade(u)
            \/ Migrate(u) \/ Retry(u)
            \/ \E v \in Unit : ClusterHook(u, v)
            \/ HookEnds(u) \/ HookFails(u)
            \/ Pause(u) \/ Resume(u)
            \/ ElectLeader(u) \/ Depart(u)

Spec == Init /\ [][Next]_vars

\* Juju dispatches every event it owes and a hook that started goes on; the
\* commands it runs are retried a bounded number of times.
Fairness == \A u \in Unit :
                /\ WF_vars(Migrate(u))
                /\ WF_vars(HookEnds(u))
                /\ \A v \in Unit : WF_vars(ClusterHook(u, v))

FairSpec == Spec /\ Fairness

-----------------------------------------------------------------------------
(* Properties. *)

TypeOK ==
    /\ leader \in Unit
    /\ bag \in [Unit -> Settings]
    /\ pend \in [Unit -> [Unit -> Due]]
    /\ hook \in [Unit -> Hook]
    /\ paused \in [Unit -> BOOLEAN]
    /\ up \in [Unit -> BOOLEAN]
    /\ svc \in [Unit -> Nat]
    /\ schema \in Nat
    /\ pkg \in [Unit -> BOOLEAN]
    /\ migrated \in BOOLEAN
    /\ left \subseteq Unit
    /\ budget \in [terms : Nat, fails : Nat, pauses : Nat]

\* The syncs whose ids a unit has published or echoed.
Acknowledged ==
    [u \in Unit |-> {id.n : id \in {bag[u].init, bag[u].echo} \ {NoId}}]

Promise == INSTANCE Migration WITH running <- up, version <- svc,
                                   acknowledged <- Acknowledged

\* The protocol of ids and echoes keeps the promise of Migration: whichever
\* hooks fail, whoever leads, leaves, is paused or upgraded, services start on
\* the database of the moment, and no unit says more than it did or forgets.
MigrationIsKept == Promise!MigrationSpec

\* A unit never says more than it did: while its services run, they were
\* started after the sync of every notification it has published or echoed.
AnnouncedMeansRestarted ==
    \A u \in Unit : up[u] => /\ svc[u] >= bag[u].init.n
                             /\ svc[u] >= bag[u].echo.n

\* No peer protocol step starts services on a paused unit.
PausedMeansDown == \A u \in Unit : paused[u] => ~up[u]

\* Once u has dealt with what Juju owes it about v, the running services of u
\* are not older than the notification v publishes.
DeliveredMeansRestarted ==
    \A u, v \in Unit : pend[u][v] = "clean" /\ up[u]
                            => svc[u] >= bag[v].init.n

\* A unit that knows of an initialised database never forgets it, whoever
\* leads and whatever fails: it keeps an id of its own or an echo.
KnowledgeIsKept ==
    [][\A u \in Unit : bag[u] # NoSettings => bag'[u] # NoSettings]_vars

\* With one leader throughout and no failures, the database of a deployment
\* is initialised once: every other sync belongs to an upgrade.
InitialisedOnce ==
    schema <= 1 + Cardinality({u \in Unit : pkg[u]})

\* Nothing is running and no event is owed.
Quiescent == \A u \in Unit : /\ hook[u].at = "idle"
                             /\ \A v \in Unit \ {u} :
                                    pend[u][v] \in {"clean", "gone"}

\* Once every event has been handled, no services run that were started before
\* the last db sync ("restarts services to ensure that the changes are picked
\* up", docstring of migrate_database).
QuiescentMeansRestarted ==
    Quiescent => \A u \in Unit \ left : up[u] => svc[u] = schema

\* Upgrading all units of a deployment whose database is initialised includes
\* "database migration" (docstring of do_openstack_upgrade).
UpgradeMigrates ==
    /\ Quiescent
    /\ \A u \in Unit \ left : pkg[u]
    /\ \E u \in Unit \ left : bag[u] # NoSettings
    => migrated

\* After every sync all units come to run services started after it, but for
\* those that are paused or gone.
EverySyncIsPickedUp ==
    \A k \in 1..MaxSyncs :
        schema >= k ~> \A u \in Unit : \/ up[u] /\ svc[u] >= k
                                      \/ paused[u] \/ u \in left
=============================================================================
