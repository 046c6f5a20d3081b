--------------------------- MODULE OpenstackUpgrade ---------------------------
(***************************************************************************)
(* The OpenStack release upgrade of one unit.                              *)
(*                                                                         *)
(* Whether an upgrade is due is read off the packages: the release of the  *)
(* installation source against that of the package openstack-release, or   *)
(* of cinder-common where the archive has no such package.  config-changed *)
(* and the openstack-upgrade action perform it in do_openstack_upgrade:    *)
(* source, apt, configuration files, services, database.  The hook that    *)
(* fails half way is run again, and decides again.                         *)
(***************************************************************************)
EXTENDS Integers, FiniteSets

CONSTANTS
    MaxRelease,  \* the releases are 1..MaxRelease, in order
    Py3,         \* "rocky": the first release without the python 2 packages
    Retries,     \* CMD_RETRY_COUNT: a failing apt command is tried again
    MaxSets,     \* bound: changes of the two options
    MaxOps,      \* bound: actions, upgrades of the charm and other hooks
    MaxFails,    \* bound: hooks and actions that fail
    MaxFlaky,    \* bound: apt-get update that does not reach the archive
    MaxRefused,  \* bound: services that systemd fails to stop or start
    Managed      \* the values that action-managed-upgrade takes

Release == 1..MaxRelease
Unknown == 0     \* "a deb url sources entry" that names no release
Backend == {"storage", "backup"}

ASSUME OpenstackUpgradeAssumption ==
    /\ MaxRelease \in Nat /\ MaxRelease >= 1 /\ Py3 \in Nat /\ Retries \in Nat
    /\ MaxSets \in Nat /\ MaxOps \in Nat /\ MaxFails \in Nat
    /\ MaxFlaky \in Nat /\ MaxRefused \in Nat /\ Managed \subseteq BOOLEAN

VARIABLES
    origin,      \* option openstack-origin: a release, or Unknown
    managed,     \* option action-managed-upgrade
    owed,        \* Juju owes config-changed
    failed,      \* config-changed is in error
    marked,      \* the archive has the package openstack-release
    leader,      \* the unit is the leader
    paused,      \* the unit-paused flag
    index,       \* the release that apt has the package lists of
    marker,      \* the release of openstack-release
    code,        \* the release of the cinder packages
    leftover,    \* python 2 packages are left that the release has no use for
    file,        \* the release whose templates the files on disk were made from
    up,          \* the services run
    ran,         \* code and file when they were last started
    refused,     \* systemd did not carry out the last command to them
    schema,      \* the release that this leader migrated the database to
    told,        \* told[b]: the release of the last upgrade backend b heard of
    run,         \* the hook or action that is executing
    writer,      \* the kind of process that wrote the files last
    cut,         \* an upgrade was interrupted and has not been done over
    budget

vars == <<origin, managed, owed, failed, marked, leader, paused, index, marker,
          code, leftover, file, up, ran, refused, schema, told, run, writer,
          cut, budget>>
options  == <<origin, managed, owed, failed>>
place    == <<marked, leader>>
packages == <<index, marker, code, leftover>>
services == <<up, ran, refused>>

-----------------------------------------------------------------------------
(* What a process knows: options and the release are read once. *)

Kind == {"none", "config-changed", "action", "other"}
Step == {"idle", "begin", "source", "apt", "purge", "render", "stop",
         "migrate", "start", "tell", "write", "restart"}
Run  == [kind : Kind, step : Step, src : Release \cup {Unknown},
         managed : BOOLEAN, configs : Release, before : {0} \cup Release,
         tries : Nat, upgraded : BOOLEAN, told : [Backend -> Release]]

NoRun == [kind |-> "none", step |-> "idle", src |-> Unknown, managed |-> FALSE,
          configs |-> 1, before |-> 0, tries |-> 0, upgraded |-> FALSE,
          told |-> [b \in Backend |-> 1]]

\* os_release('cinder-common'), with the cache reset.
OsRelease == IF marked THEN marker ELSE code

\* Mutant: compares with the package lists.
UpgradeAvailable_Lists(src) == src > index

\* openstack_upgrade_available for a source that names a release.
UpgradeAvailable(src) == src > OsRelease

\* A process starts; CONFIGS = register_configs() when the module is imported,
\* and the wrapper, unless the unit is paused, hashes the files.
Started(kind, step) ==
    [kind |-> kind, step |-> step, src |-> origin, managed |-> managed,
     configs |-> OsRelease, before |-> IF paused THEN 0 ELSE file,
     tries |-> Retries, upgraded |-> FALSE, told |-> told]

Idle == run.step = "idle"
At(s) == run.step = s
Goto(s) == run' = [run EXCEPT !.step = s]

-----------------------------------------------------------------------------
Init ==
    /\ origin = 1 /\ managed \in Managed /\ owed = FALSE /\ failed = FALSE
    /\ marked \in BOOLEAN /\ leader \in BOOLEAN /\ paused = FALSE
    /\ index = 1 /\ marker = 1 /\ code = 1 /\ leftover = FALSE
    /\ file = 1 /\ up = TRUE /\ ran = [code |-> 1, file |-> 1] /\ refused = FALSE
    /\ schema = 1 /\ told = [b \in Backend |-> 1]
    /\ run = NoRun /\ writer = "none" /\ cut = FALSE
    /\ budget = [sets |-> MaxSets, ops |-> MaxOps, fails |-> MaxFails,
                 flaky |-> MaxFlaky, refused |-> MaxRefused]

Spend(b) == budget[b] > 0 /\ budget' = [budget EXCEPT ![b] = @ - 1]

\* The commands to the services, all of which fare alike.  service() returns
\* False if systemctl fails, which nobody looks at.  b is what is left of the
\* bounds.
Obeys(obeyed, b) ==
    /\ obeyed \/ b.refused > 0
    /\ budget' = IF obeyed THEN b ELSE [b EXCEPT !.refused = @ - 1]
    /\ refused' = ~obeyed

Latest == [code |-> code, file |-> file]

Stop(b) ==
    \E obeyed \in BOOLEAN :
        /\ Obeys(obeyed, b)
        /\ up' = (up /\ ~obeyed)
        /\ UNCHANGED ran

\* A service that did not stop is running already.
Start(b) ==
    \/ up /\ budget' = b /\ UNCHANGED services
    \/ ~up /\ \E obeyed \in BOOLEAN :
                 /\ Obeys(obeyed, b)
                 /\ up' = obeyed
                 /\ ran' = IF obeyed THEN Latest ELSE ran

\* service_restart, or a stop and a start: it may end where either fails.
Restart(b) ==
    \E obeyed \in BOOLEAN :
        /\ Obeys(obeyed, b)
        /\ up' = obeyed \/ (~obeyed /\ up' = up)
        /\ ran' = IF obeyed THEN Latest ELSE ran

\* The operator sets an option, at any time.
SetOption ==
    /\ Spend("sets")
    /\ \/ \E r \in Release \cup {Unknown} : r # origin /\ origin' = r
                                             /\ UNCHANGED managed
       \/ {~managed} \subseteq Managed /\ managed' = ~managed
          /\ UNCHANGED origin
    /\ owed' = TRUE
    /\ UNCHANGED <<failed, place, paused, packages, file, services, schema,
                   told, run, writer, cut>>

StartConfigChanged ==
    /\ Idle /\ owed
    /\ owed' = FALSE /\ failed' = FALSE
    /\ run' = IF paused THEN NoRun ELSE Started("config-changed", "begin")
    /\ UNCHANGED <<origin, managed, place, paused, packages, file, services,
                   schema, told, writer, cut, budget>>

StartAction ==
    /\ Idle /\ Spend("ops")
    /\ run' = Started("action", "begin")
    /\ UNCHANGED <<options, place, paused, packages, file, services, schema,
                   told, writer, cut>>

\* A relation-changed: it writes the files and restarts what they concern.
StartOther ==
    /\ Idle /\ ~failed /\ Spend("ops")
    /\ run' = Started("other", "write")
    /\ UNCHANGED <<options, place, paused, packages, file, services, schema,
                   told, writer, cut>>

\* upgrade-charm: packages that the release needs are installed, the others
\* purged, and all services restarted if there were any.
UpgradeCharm ==
    /\ Idle /\ ~failed /\ budget.ops > 0
    /\ LET purged == leftover /\ OsRelease >= Py3
           b      == [budget EXCEPT !.ops = @ - 1]
       IN  /\ leftover' = (leftover /\ ~purged)
           /\ IF purged /\ ~paused THEN Restart(b)
              ELSE budget' = b /\ UNCHANGED services
    /\ UNCHANGED <<options, place, paused, index, marker, code, file, schema,
                   told, run, writer, cut>>

\* Either sets the flag, and reports a service that does not follow.
PauseOrResume ==
    /\ Idle /\ budget.ops > 0
    /\ paused' = ~paused
    /\ LET b == [budget EXCEPT !.ops = @ - 1]
       IN  IF paused THEN Start(b) ELSE Stop(b)
    /\ UNCHANGED <<options, place, packages, file, schema, told, run, writer,
                   cut>>

-----------------------------------------------------------------------------
(* The decision. *)

\* Whether the process looks for an upgrade at all.
Asks == run.kind = "action" \/ ~run.managed

\* config_changed upgrades if the option is off, the action if it is on.
Upgrades == /\ Asks
            /\ UpgradeAvailable(run.src)
            /\ run.kind = "action" => run.managed

Decide ==
    /\ At("begin")
    /\ Asks => run.src # Unknown
    /\ run' = CASE Upgrades -> [run EXCEPT !.step = "source"]
                [] run.kind = "action" -> NoRun
                [] OTHER -> [run EXCEPT !.step = "write"]
    /\ UNCHANGED <<options, place, paused, packages, file, services, schema,
                   told, writer, cut, budget>>

\* error_out: get_os_version_codename(None) ends the process with sys.exit,
\* which `except Exception` in openstack_upgrade_available does not catch.
DecideUnknown ==
    /\ At("begin") /\ Asks /\ run.src = Unknown
    /\ failed' = (run.kind = "config-changed")
    /\ owed' = (owed \/ run.kind = "config-changed")
    /\ run' = NoRun
    /\ UNCHANGED <<origin, managed, place, paused, packages, file, services,
                   schema, told, writer, cut, budget>>

-----------------------------------------------------------------------------
(* do_openstack_upgrade, step by step. *)

\* configure_installation_source and apt_update, whose result is not looked at.
ConfigureSource ==
    /\ At("source")
    /\ \/ index' = run.src /\ UNCHANGED budget
       \/ Spend("flaky") /\ UNCHANGED index
    /\ Goto("apt")
    /\ UNCHANGED <<options, place, paused, marker, code, leftover, file,
                   services, schema, told, writer, cut>>

\* dist-upgrade raises a package to what the lists of the source have: nothing
\* if they could not be fetched, and never an older version.
Raised(r) == IF index = run.src /\ index > r THEN index ELSE r

\* dpkg has unpacked new versions of some packages.
Unpacked(m, c) ==
    /\ marker' = IF m /\ marked THEN Raised(marker) ELSE marker
    /\ code' = IF c THEN Raised(code) ELSE code
    /\ leftover' = (leftover \/ (code < Py3 /\ code' >= Py3))

\* apt_upgrade and apt_install, fatal: the command succeeds, or it fails
\* having upgraded some packages and is tried again.
AptUpgrade ==
    /\ At("apt")
    /\ Unpacked(TRUE, TRUE)
    /\ Goto("purge")
    /\ UNCHANGED <<options, place, paused, index, file, services, schema, told,
                   writer, cut, budget>>

AptRetry ==
    /\ At("apt") /\ run.tries > 0
    /\ \E m, c \in BOOLEAN : Unpacked(m, c)
    /\ run' = [run EXCEPT !.tries = @ - 1]
    /\ UNCHANGED <<options, place, paused, index, file, services, schema, told,
                   writer, cut, budget>>

\* remove_old_packages
Purge ==
    /\ At("purge")
    /\ leftover' = (leftover /\ OsRelease < Py3)
    /\ Goto("render")
    /\ UNCHANGED <<options, place, paused, index, marker, code, file, services,
                   schema, told, writer, cut, budget>>

\* The local configs, registered afresh and set to the release of the source.
Render ==
    /\ At("render")
    /\ file' = run.src
    /\ writer' = run.kind
    /\ Goto("stop")
    /\ UNCHANGED <<options, place, paused, packages, services, schema, told,
                   cut, budget>>

\* Mutant: the leader does not migrate.
StopServices_NoMigration ==
    /\ At("stop")
    /\ Stop(budget)
    /\ Goto("start")
    /\ UNCHANGED <<options, place, paused, packages, file, schema, told,
                   writer, cut>>

StopServices ==
    /\ At("stop")
    /\ Stop(budget)
    /\ Goto(IF leader THEN "migrate" ELSE "start")
    /\ UNCHANGED <<options, place, paused, packages, file, schema, told,
                   writer, cut>>

\* migrate_database(upgrade=True), of which DbInit has the retries.
MigrateDatabase ==
    /\ At("migrate")
    /\ schema' = code
    /\ Goto("start")
    /\ UNCHANGED <<options, place, paused, packages, file, services, told,
                   writer, cut, budget>>

\* Mutant: only the leader, which has migrated, starts its services.
StartServices_LeaderOnly ==
    /\ At("start")
    /\ IF leader /\ ~paused THEN Start(budget) ELSE UNCHANGED <<services, budget>>
    /\ Goto("tell")
    /\ UNCHANGED <<options, place, paused, packages, file, schema, told,
                   writer, cut>>

StartServices ==
    /\ At("start")
    /\ IF paused THEN UNCHANGED <<services, budget>> ELSE Start(budget)
    /\ Goto("tell")
    /\ UNCHANGED <<options, place, paused, packages, file, schema, told,
                   writer, cut>>

\* The action resumes a paused unit, and goes on if the services start.
Resumes == run.kind = "action" /\ paused
Resumed ==
    /\ paused' = (paused /\ ~Resumes)
    /\ IF Resumes THEN Start(budget) /\ up' ELSE UNCHANGED <<services, budget>>

\* "Couldn't resume": the exception ends the action, with the flag cleared.
ResumeFails ==
    /\ At("tell") /\ Resumes
    /\ paused' = FALSE
    /\ Start(budget) /\ ~up'
    /\ cut' = TRUE
    /\ run' = NoRun
    /\ UNCHANGED <<options, place, packages, file, schema, told, writer>>

\* Mutant: the action works on with the CONFIGS of its import.
TellBackends_OldConfigs ==
    /\ At("tell")
    /\ run' = [run EXCEPT !.step = "write", !.upgraded = TRUE,
                          !.told = [b \in Backend |-> OsRelease],
                          !.before = file]
    /\ Resumed
    /\ UNCHANGED <<options, place, packages, file, schema, told, writer, cut>>

\* Mutant: the action tells nobody.
TellBackends_HookOnly ==
    LET action == run.kind = "action"
    IN  /\ At("tell")
        /\ run' = [run EXCEPT
               !.step = "write", !.upgraded = TRUE,
               !.told = IF action THEN @ ELSE [b \in Backend |-> OsRelease],
               !.configs = IF action THEN OsRelease ELSE @,
               !.before = IF action THEN file ELSE @]
        /\ Resumed
        /\ UNCHANGED <<options, place, packages, file, schema, told, writer, cut>>

\* The hook goes on with the CONFIGS it was imported with.  The action tells
\* the storage backends only, registers CONFIGS anew, resumes a paused unit and
\* calls config_changed, decorated as it is.
TellBackends ==
    LET action == run.kind = "action"
    IN  /\ At("tell")
        /\ run' = [run EXCEPT
               !.step = "write", !.upgraded = TRUE,
               !.told = [b \in Backend |->
                            IF action /\ b = "backup" THEN @[b] ELSE OsRelease],
               !.configs = IF action THEN OsRelease ELSE @,
               !.before = IF action THEN file ELSE @]
        /\ Resumed
        /\ UNCHANGED <<options, place, packages, file, schema, told, writer, cut>>

-----------------------------------------------------------------------------
(* The rest of a hook. *)

\* CONFIGS.write_all
Write ==
    /\ At("write")
    /\ file' = run.configs
    /\ writer' = IF run.upgraded THEN run.kind ELSE "other"
    /\ Goto("restart")
    /\ UNCHANGED <<options, place, paused, packages, services, schema, told,
                   cut, budget>>

\* The wrapper restarts the services of files that differ, the hook succeeds
\* and its settings are published.
Finish ==
    /\ At("restart")
    /\ IF run.before \in {0, file} THEN UNCHANGED <<services, budget>>
                                   ELSE Restart(budget)
    /\ told' = run.told
    /\ cut' = (cut /\ ~(run.upgraded /\ code = OsRelease))
    /\ run' = NoRun
    /\ UNCHANGED <<options, place, paused, packages, file, schema, writer>>

\* A command fails: the hook is owed again.  What it set is dropped; what it
\* did to the machine is not.  The action catches the exception and reports it.
Fail ==
    /\ ~Idle /\ Spend("fails")
    /\ owed' = (owed \/ run.kind = "config-changed")
    /\ failed' = (failed \/ run.kind = "config-changed")
    /\ \/ At("apt") /\ \E m, c \in BOOLEAN : Unpacked(m, c)
       \/ UNCHANGED <<marker, code, leftover>>
    /\ cut' = (cut \/ run.upgraded
                   \/ run.step \in {"apt", "purge", "render", "stop",
                                    "migrate", "start", "tell"})
    /\ run' = NoRun
    /\ UNCHANGED <<origin, managed, place, paused, index, file, services,
                   schema, told, writer>>

Upgrade == \/ ConfigureSource \/ AptUpgrade \/ Purge \/ Render \/ StopServices
           \/ MigrateDatabase \/ StartServices \/ TellBackends \/ ResumeFails

Proceed == Decide \/ DecideUnknown \/ Upgrade \/ Write \/ Finish

Next == \/ SetOption \/ StartConfigChanged \/ StartAction \/ StartOther
        \/ UpgradeCharm \/ PauseOrResume \/ Proceed \/ AptRetry \/ Fail

Spec == Init /\ [][Next]_vars

\* Juju dispatches the hook that it owes, and a process that started goes on.
FairSpec == Spec /\ WF_vars(StartConfigChanged) /\ WF_vars(Proceed)

-----------------------------------------------------------------------------
(* Properties. *)

TypeOK ==
    /\ origin \in Release \cup {Unknown}
    /\ managed \in BOOLEAN /\ owed \in BOOLEAN /\ failed \in BOOLEAN
    /\ marked \in BOOLEAN /\ leader \in BOOLEAN /\ paused \in BOOLEAN
    /\ index \in Release /\ marker \in Release /\ code \in Release
    /\ leftover \in BOOLEAN
    /\ file \in Release
    /\ up \in BOOLEAN /\ ran \in [code : Release, file : Release] /\ refused \in BOOLEAN
    /\ schema \in Release
    /\ told \in [Backend -> Release]
    /\ run \in Run
    /\ writer \in Kind
    /\ cut \in BOOLEAN
    /\ budget \in [sets : Nat, ops : Nat, fails : Nat, flaky : Nat,
                  refused : Nat]

\* No unit that leads goes back to work on a database older than its code: the
\* migration comes before the start, unless an upgrade was interrupted.
MigratedBeforeServing ==
    Idle /\ leader /\ up /\ ~cut => ran.code <= schema

\* A config-changed that upgrades goes on with the CONFIGS of its import and
\* writes the old files again over the new.
OldFilesWritten == writer = "config-changed"

\* No hook has failed between a write and the restart that it calls for, and
\* no upgrade ran on package lists that could not be fetched.
NoMishap == budget.fails = MaxFails /\ budget.flaky = MaxFlaky

\* Otherwise the files on disk are those of the release that is installed, and
\* the services run its code and have read them, unless systemd refused the last
\* command to them: whoever wrote the files last, and whichever of hook and
\* action upgraded.  A service that did not stop for the upgrade goes on with
\* the old code until a restart succeeds; that it fits from then on is said too.
FilesFitPackages ==
    Idle /\ ~cut /\ ~OldFilesWritten
        => /\ file = OsRelease
           /\ up /\ ~refused => ran.code = code
           /\ up /\ ~refused /\ NoMishap => ran.file = file

\* "must do this after packages have been upgraded so that we ensure that
\* correct configs are selected for the target release" (comment in
\* do_openstack_upgrade).
CorrectConfigsSelected == Idle /\ ~cut => file = OsRelease

\* Only an interrupted upgrade leaves packages of the old release behind, for
\* upgrade-charm to purge.
NothingLeftOver == Idle /\ leftover => cut

\* Every upgrade that ended well was announced to the storage backends, though
\* what a hook says is lost if any later part of it fails.
BackendsAreTold == Idle /\ ~cut => told["storage"] = OsRelease

\* What an upgrade that was not cut short leaves to do: nothing, in the files, the
\* packages and what the backends know.
UpgradeIsWhole == FilesFitPackages /\ NothingLeftOver /\ BackendsAreTold

\* A source set while the charm may upgrade by itself is upgraded to, however
\* often the hook fails: as far as the package that decides is concerned.
SourceIsTaken ==
    \A r \in Release :
        origin = r /\ owed /\ ~managed
            ~> \/ OsRelease >= r
               \/ origin # r \/ managed \/ paused
               \/ budget.flaky < MaxFlaky

\* The services that an upgrade stops come back, if systemd starts them.
ServicesComeBack == ~up ~> up \/ paused \/ cut \/ refused

\* An upgrade that is asked for goes through, and the unit serves after it.
UpgradeGoesThrough == SourceIsTaken /\ ServicesComeBack
=============================================================================
