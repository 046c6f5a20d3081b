---------------------------- MODULE ServiceManager ----------------------------
(***************************************************************************)
(* ServiceManager of charmhelpers.core.services.  A hook goes through the  *)
(* services one by one: a service that has its data is configured and      *)
(* (re)started and its ports opened, any other has its ports closed and is *)
(* stopped.  What was opened is remembered in a file of ports for each     *)
(* service, who was ready in another; Juju takes opened and closed ports   *)
(* when the hook succeeds, the files are written at once.  Services share  *)
(* no port: the code closes a port for one that another one has opened.    *)
(***************************************************************************)
EXTENDS Integers, FiniteSets

CONSTANTS
    ManagedServices,   \* the services
    PortChoices        \* what the definition of a service may list as ports

VARIABLES
    definedPorts,   \* definedPorts[s]: ports of s in the charm that is installed
    dataReady,      \* the services with all their required_data
    readyFile,      \* READY-SERVICES.json
    portFile,       \* portFile[s]: the file of ports of s
    openedPorts,    \* the ports that Juju has opened, as <<service, port>>
    portChanges,    \* the same as the hook will have them
    runs,           \* the services that run
    todoServices,   \* the services that the hook has still to see
    inService,      \* the service it is at and what comes next, or NoService
    manages,        \* which hook runs: "", "stop" or any "other"
    settled,        \* the last hook was not "stop", succeeded, and nothing changed since
    forgotten       \* ports that a failed hook dropped from a file (history)

managerVars == <<definedPorts, dataReady, readyFile, portFile, openedPorts, portChanges, runs,
                 todoServices, inService, manages, settled, forgotten>>
files == <<readyFile, portFile>>

NoService == <<>>
PortsOf(s, P) == {<<s, p>> : p \in P}

ManagerInit ==
    /\ definedPorts \in [ManagedServices -> PortChoices]
    /\ dataReady = {} /\ readyFile = {} /\ runs = {}
    /\ portFile = [s \in ManagedServices |-> {}]
    /\ openedPorts = {} /\ portChanges = {}
    /\ todoServices = {} /\ inService = NoService /\ manages = ""
    /\ settled = FALSE /\ forgotten = {}

-----------------------------------------------------------------------------
(* A hook. *)

BeginManage(hook) ==
    /\ manages = "" /\ manages' = hook
    /\ todoServices' = ManagedServices /\ portChanges' = openedPorts
    /\ settled' = FALSE
    /\ UNCHANGED <<definedPorts, dataReady, files, openedPorts, runs, inService, forgotten>>

Starts(s) == manages = "other" /\ s \in dataReady

\* The service that is next: restarted and then its ports, or its ports and then
\* stopped.
NextService(s) ==
    /\ manages # "" /\ inService = NoService /\ s \in todoServices
    /\ todoServices' = todoServices \ {s}
    /\ inService' = <<s, "ports">>
    /\ runs' = IF Starts(s) THEN runs \cup {s} ELSE runs
    /\ UNCHANGED <<definedPorts, dataReady, files, openedPorts, portChanges, manages, settled, forgotten>>

\* Mutant: the file is written before it is read.
OldPorts_New(s) == definedPorts[s]

\* The ports that the file of s lists.
OldPorts(s) == portFile[s]

\* PortManagerCallback: it closes what is in the file and not in the definition,
\* writes the file, and opens or closes what the definition lists.
ManagePorts ==
    /\ inService # NoService /\ inService[2] = "ports"
    /\ LET s      == inService[1]
           closed == portChanges \ PortsOf(s, OldPorts(s) \ definedPorts[s])
       IN  /\ portFile' = [portFile EXCEPT ![s] = definedPorts[s]]
           /\ portChanges' = IF Starts(s) THEN closed \cup PortsOf(s, definedPorts[s])
                             ELSE closed \ PortsOf(s, definedPorts[s])
           /\ forgotten' = forgotten \cup PortsOf(s, OldPorts(s) \ definedPorts[s])
           /\ inService' = <<s, "save">>
    /\ UNCHANGED <<definedPorts, dataReady, readyFile, openedPorts, runs, todoServices, manages, settled>>

\* service_stop, then save_ready or save_lost, which a hook "stop" does not do.
SaveService ==
    /\ inService # NoService /\ inService[2] = "save"
    /\ LET s == inService[1]
       IN  /\ runs' = IF Starts(s) THEN runs ELSE runs \ {s}
           /\ readyFile' = IF manages = "stop" THEN readyFile
                           ELSE IF Starts(s) THEN readyFile \cup {s} ELSE readyFile \ {s}
    /\ inService' = NoService
    /\ UNCHANGED <<definedPorts, dataReady, portFile, openedPorts, portChanges, todoServices,
                   manages, settled, forgotten>>

\* The hook succeeds; what its ports forgot is closed by now.
EndManage ==
    /\ manages # "" /\ todoServices = {} /\ inService = NoService
    /\ manages' = "" /\ settled' = (manages = "other")
    /\ openedPorts' = portChanges
    /\ forgotten' = forgotten \cap portChanges
    /\ UNCHANGED <<definedPorts, dataReady, files, portChanges, runs, todoServices, inService>>

\* A callback raises: the ports stay as Juju has them.
FailManage ==
    /\ manages # "" /\ manages' = ""
    /\ todoServices' = {} /\ inService' = NoService /\ portChanges' = openedPorts
    /\ UNCHANGED <<definedPorts, dataReady, files, openedPorts, runs, settled, forgotten>>

-----------------------------------------------------------------------------
(* Between hooks. *)

DataChanges(s) ==
    /\ manages = "" /\ settled' = FALSE
    /\ dataReady' = (dataReady \cup {s}) \ (dataReady \cap {s})
    /\ UNCHANGED <<definedPorts, files, openedPorts, portChanges, runs, todoServices, inService, manages, forgotten>>

\* upgrade-charm brings another definition.
DefinitionChanges(s, P) ==
    /\ manages = "" /\ settled' = FALSE
    /\ P # definedPorts[s] /\ definedPorts' = [definedPorts EXCEPT ![s] = P]
    /\ UNCHANGED <<dataReady, files, openedPorts, portChanges, runs, todoServices, inService, manages, forgotten>>

ManagerNext ==
    \/ \E hook \in {"stop", "other"} : BeginManage(hook)
    \/ \E s \in ManagedServices : NextService(s) \/ DataChanges(s)
    \/ ManagePorts \/ SaveService \/ EndManage \/ FailManage
    \/ \E s \in ManagedServices, P \in PortChoices : DefinitionChanges(s, P)

ManagerSpec == ManagerInit /\ [][ManagerNext]_managerVars

-----------------------------------------------------------------------------
(* Properties. *)

\* After a hook the services that have their data are the ones that run, are noted
\* as ready and have all their ports open; no other port is open, but for those that
\* a hook dropped from the file of ports before it failed.
PortsFollowServices ==
    settled =>
        LET due == UNION {PortsOf(s, definedPorts[s]) : s \in dataReady}
        IN  /\ runs = dataReady /\ readyFile = dataReady
            /\ due \subseteq openedPorts
            /\ openedPorts \ due \subseteq forgotten
=============================================================================
