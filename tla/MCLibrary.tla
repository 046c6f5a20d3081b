------------------------------ MODULE MCLibrary ------------------------------
(* The parts of the library that the charm uses, each explored on its own: a
   behaviour is of one part, and the others stay as they were. *)
EXTENDS Contexts,
        HookEnv,
        DeferredEvents,
        Hardening,
        Nrpe,
        Sources,
        HaResources,
        CephPools,
        RbdStorage,
        PeerReadiness,
        Addresses,
        ServiceTable,
        Templating,
        ServiceManager,
        ServiceRoles,
        ApiFrontend

VARIABLE part

\* What the environment touches together: one templated file and what is audited
\* along with it.
ExposedSets == {{}, {"sysctl", "limits.d"}, {"alias"},
                {"apache_dir", "other"}, {"packages", "bin", "suid"},
                {"shadow", "modules", "index"}}

\* One unit has one interface for both, the other for the first and perhaps the second.
LibWirings == {w \in [{"u1", "u2"} -> [{"vip1", "vip2"} -> {"eth0", "none"}]] :
                  \A u \in {"u1", "u2"} : w[u]["vip1"] = "eth0" /\ (u = "u1" => w[u]["vip2"] = "eth0")}

\* One file has a template in every directory or in some, the other is found by its
\* path, and by its base name from a later release on or never.
LibShipments ==
    {[conf |-> {[dir |-> d, name |-> "base"] : d \in C},
      site |-> {[dir |-> d, name |-> "path"] : d \in S} \cup {[dir |-> d, name |-> "base"] : d \in B}] :
        C \in {{0}, {0, 2}, {1, 3}, {0, 1, 2, 3}}, S \in {{0}, {3}}, B \in {{}, {2}}}

\* The backup subordinate brings its own package, and from the last release on
\* wants those of python 2 gone.
LibPackages == [r \in {1, 3} |-> [install |-> {"cinder-backup"}, purge |-> r = 3]]

LibRoles == {{"api", "volume", "scheduler", "backup"}, {"api", "scheduler"}, {"volume", "backup"}}

LibraryInit ==
    /\ part \in {"contexts", "hookenv", "deferred", "hardening", "nrpe", "sources",
                 "ha", "pools", "rbd", "peers", "addresses", "table",
                 "templates", "manager", "roles", "frontend"}
    /\ ContextsInit /\ (part = "contexts" \/ interface = "shared")
    /\ HookEnvInit /\ (part = "hookenv" \/ option = "a")
    /\ DeferredInit
    /\ HardeningInit /\ (part = "hardening" \/ exposed = {})
    /\ NrpeInit /\ (part = "nrpe" \/ nagiosName = "h1")
    /\ SourcesInit
    /\ HaInit /\ (part = "ha" \/ wiring = CHOOSE w \in Wirings : TRUE)
    /\ PoolsInit /\ (part = "pools" \/ (expectedOsds = 0 /\ osds = 0 /\ nautilus))
    /\ RbdInit /\ (part = "rbd" \/ (poolExists /\ serviceUp))
    /\ PeersInit /\ (part = "peers" \/ (goalState /\ expectsHa /\ peers = {"p1"}))
    /\ AddressesInit /\ (part = "addresses" \/ (networkGet = "bound" /\ privateIs = "host" /\ \A u \in Addressed : attached[u] = {"n1"}))
    /\ TableInit /\ (part = "table" \/ \A v \in Volumes : volumeHost[v] = Host("h1", FALSE))
    /\ TemplatingInit /\ (part = "templates" \/ (installedRelease = 1 /\ shipped = CHOOSE s \in Shipments : TRUE))
    /\ ManagerInit /\ (part = "manager" \/ \A s \in ManagedServices : definedPorts[s] = {80})
    /\ RolesInit /\ (part = "roles" \/ (enabled = (CHOOSE E \in EnabledChoices : TRUE) /\ osRelease = 2 /\ ~python2))
    /\ FrontInit /\ (part = "frontend" \/ (port = DefaultPort /\ apiInApache))

LibraryNext ==
    /\ UNCHANGED part
    /\ IF part = "contexts" THEN ContextsNext ELSE UNCHANGED contextVars
    /\ IF part = "hookenv" THEN HookEnvNext ELSE UNCHANGED hookVars
    /\ IF part = "deferred" THEN DeferredNext ELSE UNCHANGED deferredVars
    /\ IF part = "hardening" THEN HardeningNext ELSE UNCHANGED hardeningVars
    /\ IF part = "nrpe" THEN NrpeNext ELSE UNCHANGED nrpeVars
    /\ IF part = "sources" THEN SourcesNext ELSE UNCHANGED sourceVars
    /\ IF part = "ha" THEN HaNext ELSE UNCHANGED haVars
    /\ IF part = "pools" THEN PoolsNext ELSE UNCHANGED poolVars
    /\ IF part = "rbd" THEN RbdNext ELSE UNCHANGED rbdVars
    /\ IF part = "peers" THEN PeersNext ELSE UNCHANGED peerVars
    /\ IF part = "addresses" THEN AddressesNext ELSE UNCHANGED addressVars
    /\ IF part = "table" THEN TableNext ELSE UNCHANGED tableVars
    /\ IF part = "templates" THEN TemplatingNext ELSE UNCHANGED templateVars
    /\ IF part = "manager" THEN ManagerNext ELSE UNCHANGED managerVars
    /\ IF part = "roles" THEN RolesNext ELSE UNCHANGED rolesVars
    /\ IF part = "frontend" THEN FrontNext ELSE UNCHANGED frontVars

libraryVars == <<part, contextVars, hookVars, deferredVars, hardeningVars,
                 nrpeVars, sourceVars, haVars, poolVars,
                 rbdVars, peerVars, addressVars, tableVars,
                 templateVars, managerVars, rolesVars, frontVars>>

Spec == LibraryInit /\ [][LibraryNext]_libraryVars
=============================================================================
