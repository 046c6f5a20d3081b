---------------------------- MODULE ServiceRoles ----------------------------
(***************************************************************************)
(* The services of a unit follow from enabled-services, the release and    *)
(* the backup-backend relation, anew in every hook and action.  Pause      *)
(* stops and masks those of its moment, resume those of its own; between   *)
(* them services join and leave, and packages come that start theirs.      *)
(* Hooks are whole here; UnitConfig has what happens inside them.          *)
(***************************************************************************)
EXTENDS Integers, FiniteSets, FiniteSetsExt

CONSTANTS
    EnabledChoices,  \* values of enabled-services: sets of roles
    PackagesMap      \* releases-packages-map of the backup subordinate

Role     == {"api", "volume", "scheduler", "backup"}     \* all of them: "all"
UnitServices == {"cinder-api", "cinder-volume", "cinder-scheduler", "cinder-backup",
             "haproxy", "apache2", "memcached"}

\* mitaka, where the api is a service; ocata, where it runs in apache; rocky,
\* which has no packages of python 2
RoleReleases == 1..3

ASSUME ServiceRolesAssumption ==
    /\ EnabledChoices \subseteq SUBSET Role
    /\ PackagesMap \in [DOMAIN PackagesMap -> [install : SUBSET UnitServices, purge : BOOLEAN]]
    /\ DOMAIN PackagesMap \subseteq RoleReleases

VARIABLES
    enabled,     \* enabled-services
    osRelease,
    backup,      \* backup-backend is related
    present,     \* the services whose packages are installed
    python2,     \* packages of python 2 are installed
    running,     \* the services that run
    maskedUnits, \* those that systemd refuses to start
    unitPaused,
    changeOwed,  \* Juju owes config-changed
    dropped,        \* stopped by a pause, and not of the unit at some time since (history)
    newcomers    \* of the unit since the last pause only (history)

rolesVars == <<enabled, osRelease, backup, present, python2, running, maskedUnits,
               unitPaused, changeOwed, dropped, newcomers>>
inputs    == <<enabled, osRelease, backup>>
packages  == <<present, python2>>

-----------------------------------------------------------------------------
(* What is managed. *)

ServiceEnabled(role) == role \in enabled

\* deps in filter_services, and what lstrip leaves of the name of a service
RoleOf == [s \in UnitServices \ {"memcached"} |->
              CASE s \in {"haproxy", "apache2", "cinder-api"} -> "api"
                [] s = "cinder-volume" -> "volume"
                [] s = "cinder-scheduler" -> "scheduler"
                [] s = "cinder-backup" -> "backup"]

FilterServices(svcs) == {s \in svcs : ServiceEnabled(RoleOf[s])}

RunInApache == osRelease >= 2
InApache(svcs) == IF RunInApache /\ "cinder-api" \in svcs
                  THEN (svcs \ {"cinder-api"}) \cup {"apache2"} ELSE svcs

\* restart_map, for the files whose services differ
FilesOf == [conf      |-> {"cinder-api", "cinder-volume", "cinder-scheduler", "haproxy"}
                            \cup (IF backup THEN {"cinder-backup"} ELSE {}),
            paste     |-> {"cinder-api"},
            haproxy   |-> {"haproxy"},
            site      |-> {"apache2"}]
RestartMapOf == [f \in DOMAIN FilesOf \cup {"memcached"} |->
                    IF f = "memcached" THEN {"memcached"}
                                       ELSE InApache(FilterServices(FilesOf[f]))]

\* services()
Managed == UNION {RestartMapOf[f] : f \in DOMAIN RestartMapOf}

\* get_subordinate_release_packages: the entry of the latest release that is
\* not later than the unit's
SubordinatePackages ==
    LET earlier == {r \in DOMAIN PackagesMap : r <= osRelease}
    IN  IF backup /\ earlier # {} THEN PackagesMap[Max(earlier)]
                                  ELSE [install |-> {}, purge |-> FALSE]

DeterminePackages ==
    {"memcached"} \cup SubordinatePackages.install
    \cup (IF ServiceEnabled("api") THEN {"haproxy", "apache2"} \cup
                                        (IF RunInApache THEN {} ELSE {"cinder-api"})
                                   ELSE {})
    \cup {s \in {"cinder-volume", "cinder-scheduler"} : ServiceEnabled(RoleOf[s])}

Purges == osRelease >= 3 \/ SubordinatePackages.purge

-----------------------------------------------------------------------------
(* Hooks and actions. *)

\* A unit that has been installed and configured.
RolesInit ==
    /\ enabled \in EnabledChoices /\ osRelease \in RoleReleases /\ backup = FALSE
    /\ present = DeterminePackages
    /\ python2 \in BOOLEAN
    /\ running = Managed
    /\ maskedUnits = {} /\ unitPaused = FALSE /\ changeOwed = FALSE
    /\ dropped = {} /\ newcomers = {}

\* The services are no longer the same.
Follow ==
    /\ dropped' = dropped \cup (maskedUnits \ Managed')
    /\ newcomers' = (newcomers \cup (Managed' \ Managed)) \cap Managed'

ChangeEnabled(E) ==
    /\ E # enabled /\ enabled' = E /\ changeOwed' = TRUE
    /\ UNCHANGED <<osRelease, backup, packages, running, maskedUnits, unitPaused>>
    /\ Follow

\* The package of the subordinate, which it installs itself, starts the service.
RelateBackup ==
    /\ backup' = ~backup
    /\ present' = present \cup (IF backup' THEN {"cinder-backup"} ELSE {})
    /\ running' = running \cup ((present' \ present) \ maskedUnits)
    /\ UNCHANGED <<enabled, osRelease, python2, maskedUnits, unitPaused, changeOwed>>
    /\ Follow

CanStart(S) == (S \cap present') \ maskedUnits

\* config-changed; the wrapper restarts the services of files that differ, and
\* cinder-volume is restarted for the option overwrite, enabled or not.
RolesConfigChanged ==
    /\ changeOwed /\ changeOwed' = FALSE
    /\ UNCHANGED packages
    /\ IF unitPaused THEN UNCHANGED running
       ELSE \E F \in SUBSET DOMAIN RestartMapOf, overwrite \in {{}, {"cinder-volume"}} :
                running' = running \cup CanStart(UNION {RestartMapOf[f] : f \in F}
                                                 \cup overwrite)
    /\ UNCHANGED <<inputs, maskedUnits, unitPaused, dropped, newcomers>>

\* upgrade-charm: packages that are missing are installed and start; if any was
\* purged all services are restarted, on a paused unit too.
RolesUpgradeCharm ==
    /\ present' = present \cup DeterminePackages
    /\ python2' = (python2 /\ ~Purges)
    /\ running' = running \cup CanStart(present' \ present)
                          \cup (IF python2 /\ Purges THEN CanStart(Managed) ELSE {})
    /\ UNCHANGED <<inputs, maskedUnits, unitPaused, changeOwed, dropped, newcomers>>

PauseRoles ==
    /\ running' = running \ Managed
    /\ maskedUnits' = maskedUnits \cup Managed
    /\ unitPaused' = TRUE /\ newcomers' = {}
    /\ dropped' = dropped \ Managed
    /\ UNCHANGED <<inputs, packages, changeOwed>>

\* Mutant: what no role needs is not resumed.
ToResume_Filtered == FilterServices(Managed \ {"memcached"})

\* services() again, not what was paused
ToResume == Managed

ResumeRoles ==
    /\ maskedUnits' = maskedUnits \ ToResume
    /\ running' = running \cup (ToResume \cap present)
    /\ unitPaused' = FALSE
    /\ dropped' = dropped \ ToResume
    /\ UNCHANGED <<inputs, packages, changeOwed, newcomers>>

RolesNext ==
    \/ RelateBackup \/ RolesConfigChanged \/ RolesUpgradeCharm
    \/ PauseRoles \/ ResumeRoles
    \/ \E E \in EnabledChoices : ChangeEnabled(E)

RolesSpec == RolesInit /\ [][RolesNext]_rolesVars

-----------------------------------------------------------------------------
(* Properties. *)

\* Pause and resume reach the services of the unit though they change between:
\* on a paused unit only those run that joined since, and on one that is not
\* paused all that are installed run, but those that had left in a pause and
\* came back after it, which no hook unmasks.
PauseReachesServices ==
    IF unitPaused
    THEN Managed \cap running \subseteq newcomers
    ELSE /\ maskedUnits \subseteq dropped
         /\ (Managed \cap present) \ dropped \subseteq running
=============================================================================
