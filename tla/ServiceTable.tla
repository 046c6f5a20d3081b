----------------------------- MODULE ServiceTable -----------------------------
(***************************************************************************)
(* remove-services, rename-volume-host and volume-host-add-driver.  The    *)
(* table of services and that of volumes are in the database, shared by    *)
(* all units; an action reads the services once, and then removes one      *)
(* after the other or gives volumes another host.  Operators may run       *)
(* actions on several units at a time, while services register.            *)
(***************************************************************************)
EXTENDS Integers, FiniteSets

CONSTANTS
    Operated,       \* the units on which actions run
    ServiceHosts,   \* the hosts of services
    MaxTimes        \* how often a service registers
ASSUME ServiceTableAssumption == MaxTimes \in Nat

VARIABLES
    services,    \* the hosts in the table of services
    volumeHost,  \* volumeHost[v]: the host of a volume
    action,      \* action[u]: what runs on u
    failed,      \* the units whose last action has failed
    registered,  \* registered[h]: how often h has registered (history)
    removed,     \* removed[h]: how often h was removed (history)
    reported,    \* reported[h]: how often an action says so (history)
    named        \* the hosts that some operator has named (history)

tableVars == <<services, volumeHost, action, failed, registered, removed, reported, named>>
history   == <<registered, removed, reported, named>>

DefaultServices == {"cinder", "cinder@cinder-ceph"}
Volumes == {"v"}
NoAction == [kind |-> "none"]

\* A host of volumes is that of a service, with a pool after "#" or without.
Host(h, pool) == [service |-> h, pool |-> pool]

TableInit ==
    /\ services = ServiceHosts
    /\ volumeHost \in [Volumes -> {Host(h, FALSE) : h \in ServiceHosts}]
    /\ action = [u \in Operated |-> NoAction] /\ failed = {}
    /\ registered = [h \in ServiceHosts |-> 1]
    /\ removed = [h \in ServiceHosts |-> 0] /\ reported = [h \in ServiceHosts |-> 0]
    /\ named = {}

-----------------------------------------------------------------------------
(* remove-services *)

\* What an action sets out to remove, "unused" being the default.
ToRemove(host) ==
    IF host = "unused" THEN services \ DefaultServices ELSE services \cap {host}

BeginRemove(u, host) ==
    /\ action[u] = NoAction
    /\ action' = [action EXCEPT ![u] = [kind |-> "remove", todo |-> ToRemove(host)]]
    /\ failed' = failed \ {u}
    /\ named' = named \cup {host}
    /\ UNCHANGED <<services, volumeHost, registered, removed, reported>>

\* Mutant: what could not be removed is reported too.
Reports_All(h) == TRUE

\* The "else" of the try: nothing was raised.  Releases before liberty, which are
\* reported although nothing is done, are none that the charm supports.
Reports(h) == h \in services

\* cinder-manage service remove raises for a service that is not there any more.
RemoveOne(u) ==
    /\ action[u].kind = "remove"
    /\ \E h \in action[u].todo :
          /\ action' = [action EXCEPT ![u].todo = @ \ {h}]
          /\ services' = services \ {h}
          /\ removed' = [removed EXCEPT ![h] = IF h \in services \ services' THEN @ + 1 ELSE @]
          /\ reported' = [reported EXCEPT ![h] = IF Reports(h) THEN @ + 1 ELSE @]
          /\ failed' = IF h \in services THEN failed ELSE failed \cup {u}
    /\ UNCHANGED <<volumeHost, registered, named>>

EndsRemove(u) ==
    /\ action[u] = [kind |-> "remove", todo |-> {}]
    /\ action' = [action EXCEPT ![u] = NoAction]
    /\ UNCHANGED <<services, volumeHost, failed, history>>

-----------------------------------------------------------------------------
(* rename-volume-host, volume-host-add-driver *)

\* _rename_volume_host looks for the service of the new host, the part of its name
\* before the last "#".
BeginRename(u, current, new) ==
    /\ action[u] = NoAction
    /\ IF new.service \in services
       THEN /\ action' = [action EXCEPT ![u] = [kind |-> "rename", current |-> current, new |-> new]]
            /\ failed' = failed \ {u}
       ELSE failed' = failed \cup {u} /\ UNCHANGED action
    /\ UNCHANGED <<services, volumeHost, history>>

\* cinder-manage volume update_host, which may raise.
UpdateHost(u) ==
    /\ action[u].kind = "rename"
    /\ \/ /\ volumeHost' = [v \in Volumes |-> IF volumeHost[v] = action[u].current
                                              THEN action[u].new ELSE volumeHost[v]]
          /\ UNCHANGED failed
       \/ failed' = failed \cup {u} /\ UNCHANGED volumeHost
    /\ action' = [action EXCEPT ![u] = NoAction]
    /\ UNCHANGED <<services, history>>

-----------------------------------------------------------------------------
(* The services of cinder register when they start. *)

Registers(h) ==
    /\ h \notin services /\ registered[h] < MaxTimes
    /\ services' = services \cup {h}
    /\ registered' = [registered EXCEPT ![h] = @ + 1]
    /\ UNCHANGED <<volumeHost, action, failed, removed, reported, named>>

TableNext ==
    \/ \E u \in Operated : RemoveOne(u) \/ EndsRemove(u) \/ UpdateHost(u)
    \/ \E u \in Operated, host \in ServiceHosts \cup {"unused"} : BeginRemove(u, host)
    \/ \E u \in Operated, c, h \in ServiceHosts, pool \in BOOLEAN :
          BeginRename(u, Host(c, FALSE), Host(h, pool))
    \/ \E h \in ServiceHosts : Registers(h)

TableSpec == TableInit /\ [][TableNext]_tableVars

-----------------------------------------------------------------------------
(* Properties. *)

\* Two operators who clean the table up at once are told the truth: as often as a
\* service was removed, one action reports it, and none reports what another one
\* has removed.  A service is missing from the table only if it was removed since it
\* registered, and no action removes one of the two default names unless it is
\* told to.
RemovalsAreReported ==
    \A h \in ServiceHosts :
        /\ reported[h] = removed[h]
        /\ registered[h] - removed[h] = IF h \in services THEN 1 ELSE 0
        /\ h \in DefaultServices /\ h \notin named => removed[h] = 0
=============================================================================
