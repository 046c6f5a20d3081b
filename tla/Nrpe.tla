-------------------------------- MODULE Nrpe --------------------------------
(***************************************************************************)
(* The checks of the unit.  update_nrpe_config writes a command for each   *)
(* check into the configuration of the nrpe server, a definition of its    *)
(* service for nagios, and the names of all checks as "monitors" on the    *)
(* relation, merged into those that are there.  Checks that do not apply   *)
(* any more are deleted at once, and taken out of the monitors at the end. *)
(* The hook may fail at every step; the server is installed, and the name  *)
(* of the host is told, by the subordinate charm in its own time.          *)
(***************************************************************************)
EXTENDS FiniteSets

CONSTANT HostNames  \* the names that nagios may know the unit by

ApiChecks     == {"haproxy_servers", "haproxy_queue"}
ServiceChecks == {"cinder-volume", "cinder-api", "haproxy"}
Checks        == ApiChecks \cup ServiceChecks

VARIABLES
    api,        \* enabled-services has the api
    crm,        \* json_resources on the ha relation has lsb:haproxy
    installed,  \* the user nagios and the directories are there
    nagiosName, \* nagios_hostname on the relation
    commands,   \* the checks in nrpe.d
    exported,   \* <<check, host name>> of the service definitions
    loaded,     \* the checks that the server has read
    monitors,   \* what Juju has as monitors of the unit
    \* The hook:
    at,         \* "idle", "remove", "write", "publish" or "end"
    hostname,   \* NRPE.hostname
    checks,     \* the checks still to write
    added,      \* all the checks of NRPE.checks
    queue,      \* remove_check_queue
    told,       \* the monitors that relation_set has been given
    restarted   \* the hook has restarted the server, and systemd has done it

outside == <<api, crm, installed, nagiosName>>
disk    == <<commands, exported>>
nrpeVars == <<outside, disk, loaded, monitors,
              at, hostname, checks, added, queue, told, restarted>>

NrpeInit ==
    /\ api = TRUE /\ crm = FALSE /\ installed = FALSE
    /\ nagiosName \in HostNames
    /\ commands = {} /\ exported = {} /\ loaded = {} /\ monitors = {}
    /\ at = "idle" /\ hostname = "none"
    /\ checks = {} /\ added = {} /\ queue = {} /\ told = {} /\ restarted = FALSE

-----------------------------------------------------------------------------
(* What is monitored. *)

\* services()
Services == IF api THEN ServiceChecks ELSE {"cinder-volume"}

\* add_init_service_checks: haproxy is left to crm when it is a resource there.
ServicesToCheck == IF crm THEN Services \ {"haproxy"} ELSE Services

\* add_haproxy_checks
HaproxyChecks == IF api THEN ApiChecks ELSE {}

\* remove_deprecated_check
Deprecated == IF api THEN {} ELSE ApiChecks

-----------------------------------------------------------------------------
(* The hook. *)

\* NRPE(), with the checks that apply.
Begin ==
    /\ at = "idle"
    /\ at' = "remove"
    /\ hostname' = nagiosName
    /\ added' = ServicesToCheck \cup HaproxyChecks
    /\ checks' = added'
    /\ queue' = {}
    /\ told' = monitors
    /\ restarted' = FALSE
    /\ UNCHANGED <<outside, disk, loaded, monitors>>

\* _remove_service_files: whatever host name they are for.
WithoutServiceFiles(files, c) == {f \in files : f[1] # c}

\* remove_check: Check.remove, and the check is queued.
RemoveCheck(c) ==
    /\ at = "remove"
    /\ c \in Deprecated \ queue
    /\ commands' = commands \ {c}
    /\ exported' = WithoutServiceFiles(exported, c)
    /\ queue' = queue \cup {c}
    /\ UNCHANGED <<outside, loaded, monitors, at, hostname, checks, added, told, restarted>>

\* NRPE.write, which does nothing before the server is installed.
BeginWrite ==
    /\ at = "remove"
    /\ Deprecated \subseteq queue
    /\ at' = IF installed THEN "write" ELSE "end"
    /\ UNCHANGED <<outside, disk, loaded, monitors, hostname, checks, added, queue, told, restarted>>

\* Check.write and write_service_config
WriteCheck(c) ==
    /\ at = "write"
    /\ c \in checks
    /\ c \in ApiChecks => checks \subseteq ApiChecks
    /\ checks' = checks \ {c}
    /\ commands' = commands \cup {c}
    /\ exported' = WithoutServiceFiles(exported, c) \cup {<<c, hostname>>}
    /\ UNCHANGED <<outside, loaded, monitors, at, hostname, added, queue, told, restarted>>

\* service('restart', 'nagios-nrpe-server'), but not in update-status; and nobody looks
\* at the False of a server that could not be restarted, which has what it had read or
\* is down.
RestartServer ==
    /\ at = "write"
    /\ checks = {}
    /\ at' = "publish"
    /\ \/ loaded' = commands /\ restarted' = TRUE
       \/ loaded' \in {loaded, {}} /\ restarted' = FALSE
    /\ UNCHANGED <<outside, disk, monitors, hostname, checks, added, queue, told>>

\* Mutant: the monitors that are there are kept, the removed ones too.
Merged_All(old) == old \cup added

\* The old monitors without the queue, updated with the new.
Merged(old) == (old \ queue) \cup added

\* relation_set of the monitors, on each relation.
PublishMonitors ==
    /\ at = "publish"
    /\ at' = "end"
    /\ told' = Merged(monitors)
    /\ queue' = {}
    /\ UNCHANGED <<outside, disk, loaded, monitors, hostname, checks, added, restarted>>

\* The object, and what relation_set was given, end with the process.
Gone ==
    /\ at' = "idle" /\ hostname' = "none"
    /\ checks' = {} /\ added' = {} /\ queue' = {} /\ told' = {} /\ restarted' = FALSE

End == at = "end" /\ Gone /\ monitors' = told /\ UNCHANGED <<outside, disk, loaded>>

NrpeHookFails == at # "idle" /\ Gone /\ UNCHANGED <<outside, disk, loaded, monitors>>

-----------------------------------------------------------------------------
(* The others: options and hacluster between hooks, the subordinate any time. *)

EnableApi(b) ==
    /\ at = "idle" /\ api # b
    /\ api' = b
    /\ UNCHANGED <<crm, installed, nagiosName, disk, loaded, monitors,
                   at, hostname, checks, added, queue, told, restarted>>

ManageHaproxy(b) ==
    /\ at = "idle" /\ crm # b
    /\ crm' = b
    /\ UNCHANGED <<api, installed, nagiosName, disk, loaded, monitors,
                   at, hostname, checks, added, queue, told, restarted>>

InstallServer ==
    /\ ~installed
    /\ installed' = TRUE
    /\ UNCHANGED <<api, crm, nagiosName, disk, loaded, monitors,
                   at, hostname, checks, added, queue, told, restarted>>

TellHostName(h) ==
    /\ nagiosName # h
    /\ nagiosName' = h
    /\ UNCHANGED <<api, crm, installed, disk, loaded, monitors,
                   at, hostname, checks, added, queue, told, restarted>>

NrpeNext ==
    \/ Begin \/ BeginWrite \/ RestartServer \/ PublishMonitors \/ End \/ NrpeHookFails
    \/ \E c \in Checks : RemoveCheck(c) \/ WriteCheck(c)
    \/ \E b \in BOOLEAN : EnableApi(b) \/ ManageHaproxy(b)
    \/ InstallServer
    \/ \E h \in HostNames : TellHostName(h)

NrpeSpec == NrpeInit /\ [][NrpeNext]_nrpeVars

-----------------------------------------------------------------------------
(* Properties. *)

\* After a hook that ran to its end with the server installed, each monitor that
\* nagios is told of has a command, and the server of the unit has read it if the hook
\* could restart it, whatever hooks failed or were too early before: the old monitors
\* into which the new ones are merged can be stale, and a check may have been deleted
\* by a hook that told nobody.  And no check is defined under two host names.
MonitoredIsDefined ==
    /\ (at = "end" /\ checks = {}) =>
          /\ told \subseteq commands
          /\ restarted => told \subseteq loaded
    /\ \A f, g \in exported : f[1] = g[1] => f = g
=============================================================================
