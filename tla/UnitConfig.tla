----------------------------- MODULE UnitConfig -----------------------------
(***************************************************************************)
(* One unit: configuration files, the services that read them, and the     *)
(* pause, resume, upgrade and series-upgrade operations.                   *)
(*                                                                         *)
(* A hook renders files from the configuration and relation data it saw    *)
(* when it started.  restart_on_change hashes the files of the restart map *)
(* before and after the hook body and restarts the services of the files   *)
(* that differ; on a paused unit it only runs the body.  A hook that fails *)
(* is run again, on the files that the failed attempt has left behind.     *)
(***************************************************************************)
EXTENDS Integers, FiniteSets

CONSTANTS
    MaxChanges,  \* bound: MaxChanges[s] is the number of changes of source s
    MaxTotal,    \* bound: changes of all the sources together
    MaxFails,    \* bound: failed hooks and actions
    MaxOps,      \* bound: operator actions and upgrades
    MaxFlaky,    \* bound: services that systemd fails to stop or start
    Ops,         \* the operator actions and upgrades that happen
    MidUpgrade   \* the actions that the operator runs amid a series upgrade

\* Sources of what the files say: charm options, the relations rendered into
\* cinder.conf alone (amqp, shared-db, image-service, the backends), the
\* identity and certificate data, and the removal of the ceph relation, which
\* is in no file yet: relation_ids lists it until its broken hook is over.
Source  == {"config", "relation", "https", "ceph"}

\* Those whose hooks return when the context is not complete: amqp and shared-db
\* of the relations, and identity-service.
Guarded == {"relation", "https"}
File    == {"cinder.conf", "site"}
Service == {"cinder-volume", "apache2"}

Actions == {"pause", "resume", "openstack-upgrade"}
UpgradeHooks == {"upgrade-charm", "pre-series-upgrade", "post-series-upgrade"}

ASSUME UnitConfigAssumption ==
    /\ MaxChanges \in [Source -> Nat]
    /\ MaxTotal \in Nat /\ MaxFails \in Nat /\ MaxOps \in Nat /\ MaxFlaky \in Nat
    /\ Ops \subseteq Actions \cup UpgradeHooks
    /\ MidUpgrade \subseteq Actions

VARIABLES
    want,      \* want[s]: the version of source s
    partial,   \* the sources whose data are not complete now
    owed,      \* the hooks that Juju owes to the unit
    failed,    \* the hook in error: no other hook runs before it succeeds
    file,      \* file[f][s]: the version of source s that file f was made from
    up,        \* up[x]: service x is running
    masked,    \* masked[x]: systemd refuses to start service x
    loaded,    \* loaded[x][f]: the contents of f that service x has read
    paused,    \* the unit-paused flag
    upgrading, \* the unit-upgrading flag
    run,       \* the hook or action that is executing
    budget     \* what is left of the bounds

vars == <<want, partial, owed, failed, file, up, masked, loaded, paused,
          upgrading, run, budget>>
services == <<up, masked, loaded>>

-----------------------------------------------------------------------------
(* Tables. *)

\* BASE_RESOURCE_MAP, contexts: the sources that go into a file.
Reads == [f \in File |-> IF f = "cinder.conf"
                         THEN {"config", "relation"}
                         ELSE {"config", "https"}]

\* restart_map(): the services of a file; the api runs in apache.
RestartMap == [f \in File |-> IF f = "cinder.conf" THEN Service
                                                    ELSE {"apache2"}]

Hooks == {"config-changed", "relation-changed", "identity-changed",
          "ceph-broken"}
HookOf == [s \in Source |-> CASE s = "config"   -> "config-changed"
                              [] s = "relation" -> "relation-changed"
                              [] s = "https"    -> "identity-changed"
                              [] s = "ceph"     -> "ceph-broken"]

\* The files that an operation writes: CONFIGS.write(CINDER_CONF) or write_all.
Writes(op) == IF op = "relation-changed" THEN {"cinder.conf"} ELSE File

\* The hooks under @restart_on_change: all of these but ceph_broken.
Decorated(op) == op \in Hooks \ {"ceph-broken"}

\* Those that call configure_https, and that stop and start (stopstart=True).
Https(op) == op \in {"config-changed", "identity-changed"}

Step == {"idle", "write", "post", "restart", "stop", "flag", "cycle", "start",
         "clear"}
Contents == [Source -> Nat]

\* What a file says when it is made from the data in snap.
Rendered(f, snap) == [s \in Source |-> IF s \in Reads[f] THEN snap[s] ELSE 0]

\* What executes: its data, the hashes of the wrapper, the services to restart.
Run == [op : Hooks \cup UpgradeHooks \cup Actions \cup {"none"}, step : Step,
        action : BOOLEAN, snap : Contents, partial : SUBSET Guarded,
        before : [File -> Contents], wrapped : BOOLEAN, todo : SUBSET Service]

NoFiles == [f \in File |-> [s \in Source |-> 0]]
NoRun == [op |-> "none", step |-> "idle", action |-> FALSE,
          snap |-> [s \in Source |-> 0], partial |-> {},
          before |-> NoFiles, wrapped |-> FALSE, todo |-> {}]

\* An operation starts, in an action of the operator or not: it reads the data of
\* now, and the wrapper, if any, hashes the files.
Started(op, step, wrapped) ==
    [op |-> op, step |-> step, action |-> op \in Actions,
     snap |-> want, partial |-> partial,
     before |-> IF wrapped THEN file ELSE NoFiles,
     wrapped |-> wrapped, todo |-> {}]

-----------------------------------------------------------------------------
Init ==
    /\ want = [s \in Source |-> 0]
    /\ partial = {}
    /\ owed = {}
    /\ failed = "none"
    /\ file = NoFiles
    /\ up = [x \in Service |-> TRUE]
    /\ masked = [x \in Service |-> FALSE]
    /\ loaded = [x \in Service |-> NoFiles]
    /\ paused = FALSE
    /\ upgrading = FALSE
    /\ run = NoRun
    /\ budget = [fails |-> MaxFails, ops |-> MaxOps, flaky |-> MaxFlaky]

Idle == run.step = "idle"

\* A charm option is set or a relation changes, in one that may have part of its
\* data only; Juju owes the hook.
Change(s) ==
    /\ want[s] < MaxChanges[s]
    /\ want["config"] + want["relation"] + want["https"] + want["ceph"] < MaxTotal
    /\ want' = [want EXCEPT ![s] = @ + 1]
    /\ \E p \in SUBSET ({s} \cap Guarded) : partial' = (partial \ {s}) \cup p
    /\ owed' = owed \cup {HookOf[s]}
    /\ UNCHANGED <<failed, file, services, paused, upgrading, run, budget>>

\* Mutant: a paused unit skips every hook.
SkipsWhenPaused_Always(op) == paused

\* config_changed: "if we are paused, delay doing any config changed hooks".
SkipsWhenPaused(op) == op = "config-changed" /\ paused

\* Juju runs h next: a hook in error is run again before any other.
Dispatch(h) ==
    /\ Idle
    /\ h \in owed
    /\ failed \in {"none", h}
    /\ owed' = owed \ {h}
    /\ failed' = "none"

\* pausable_restart_on_change: on a paused unit the wrapper is not there.
StartHook(h) ==
    /\ h \in Hooks
    /\ Dispatch(h)
    /\ run' = IF SkipsWhenPaused(h) THEN NoRun
              ELSE Started(h, "write", Decorated(h) /\ ~paused)
    /\ UNCHANGED <<want, partial, file, services, paused, upgrading, budget>>

\* Mutant: a handler returns when any context is not complete.
ReturnsEarly_Any(op) == op \in Hooks /\ run.partial # {}

\* "amqp relation incomplete. Peer not ready?": the handler asks for the context
\* of its own relation.
ReturnsEarly(op) == \E s \in run.partial : op = HookOf[s]

\* Nothing has been written, and the wrapper finds nothing changed.
Return ==
    /\ run.step = "write"
    /\ ReturnsEarly(run.op)
    /\ run' = NoRun
    /\ UNCHANGED <<want, partial, owed, failed, file, services, paused, upgrading,
                   budget>>

\* CONFIGS.write or CONFIGS.write_all: a section whose context is not complete is
\* left out.
Write ==
    /\ run.step = "write"
    /\ ~ReturnsEarly(run.op)
    /\ file' = [f \in File |-> IF f \in Writes(run.op)
                               THEN Rendered(f, run.snap) ELSE file[f]]
    /\ run' = [run EXCEPT !.step =
                  CASE run.op = "post-series-upgrade" -> "start"
                    [] run.op = "openstack-upgrade" -> "cycle"
                    [] OTHER -> "post"]
    /\ UNCHANGED <<want, partial, owed, failed, services, paused, upgrading, budget>>

\* service('restart', x) or stop and start: a masked service does not start.
Restarted(S, stopstart) ==
    /\ up' = [x \in Service |->
                IF x \in S THEN ~masked[x] \/ (up[x] /\ ~stopstart)
                           ELSE up[x]]
    /\ loaded' = [x \in Service |->
                    IF x \in S /\ ~masked[x] THEN file ELSE loaded[x]]
    /\ UNCHANGED masked

\* After the hook body: configure_https reloads apache unless paused, and the
\* wrapper collects the services of the files that are not what they were.
Post ==
    /\ run.step = "post"
    /\ IF Https(run.op) /\ ~paused THEN Restarted({"apache2"}, FALSE)
                                   ELSE UNCHANGED services
    /\ LET changed == {f \in File : run.wrapped /\ file[f] # run.before[f]}
           todo    == UNION {RestartMap[f] : f \in changed}
       IN  run' = IF todo = {} THEN NoRun
                  ELSE [run EXCEPT !.step = "restart", !.todo = todo]
    /\ UNCHANGED <<want, partial, owed, failed, file, paused, upgrading, budget>>

\* _post_restart_on_change_helper: one service after the other.
Restart(x) ==
    /\ run.step = "restart"
    /\ x \in run.todo
    /\ Restarted({x}, Https(run.op))
    /\ run' = IF run.todo = {x} THEN NoRun
              ELSE [run EXCEPT !.todo = @ \ {x}]
    /\ UNCHANGED <<want, partial, owed, failed, file, paused, upgrading, budget>>

\* upgrade_charm restarts all services if packages were purged.
UpgradeCharm ==
    /\ Dispatch("upgrade-charm")
    /\ Restarted(Service, FALSE) \/ UNCHANGED services
    /\ UNCHANGED <<want, partial, file, paused, upgrading, run, budget>>

\* Mutant: sets the flag and leaves the services alone.
PreSeriesUpgrade_NoPause ==
    /\ Dispatch("pre-series-upgrade")
    /\ upgrading' = TRUE
    /\ UNCHANGED <<want, partial, file, services, paused, run, budget>>

\* series_upgrade_prepare
PreSeriesUpgrade ==
    /\ Dispatch("pre-series-upgrade")
    /\ upgrading' = TRUE
    /\ run' = IF paused THEN NoRun
              ELSE Started("pre-series-upgrade", "stop", FALSE)
    /\ UNCHANGED <<want, partial, file, services, paused, budget>>

\* Mutant: clears the flags and resumes nothing.
PostSeriesUpgrade_NoResume ==
    /\ Dispatch("post-series-upgrade")
    /\ paused' = FALSE
    /\ upgrading' = FALSE
    /\ file' = [f \in File |-> Rendered(f, want)]
    /\ UNCHANGED <<want, partial, services, run, budget>>

\* series_upgrade_complete: the flags go first, then write_all and resume.
PostSeriesUpgrade ==
    /\ Dispatch("post-series-upgrade")
    /\ paused' = FALSE
    /\ upgrading' = FALSE
    /\ run' = Started("post-series-upgrade", "write", FALSE)
    /\ UNCHANGED <<want, partial, file, services, budget>>

\* The operator upgrades the charm, or the series of the host; between the two
\* series hooks the host boots, and only services that are not masked start.
Request(o) ==
    /\ o \in Ops \cap UpgradeHooks
    /\ o \notin owed
    /\ budget.ops > 0
    /\ budget' = [budget EXCEPT !.ops = @ - 1]
    /\ owed' = owed \cup {o}
    /\ IF o = "post-series-upgrade"
       THEN /\ Idle /\ upgrading /\ owed \cap UpgradeHooks = {}
            /\ Restarted(Service, TRUE)
       ELSE /\ ~upgrading /\ owed \cap UpgradeHooks = {}
            /\ UNCHANGED services
    /\ UNCHANGED <<want, partial, failed, file, paused, upgrading, run>>

\* The pause, resume and openstack-upgrade actions; they also run on a unit
\* with a hook in error.
StartAction(o) ==
    /\ Idle
    /\ o \in Ops \cap Actions
    /\ upgrading => o \in MidUpgrade
    /\ budget.ops > 0
    /\ budget' = [budget EXCEPT !.ops = @ - 1]
    /\ run' = Started(o, CASE o = "pause"  -> "stop"
                           [] o = "resume" -> "start"
                           [] OTHER        -> "write", FALSE)
    /\ UNCHANGED <<want, partial, owed, failed, file, services, paused, upgrading>>

\* Services that systemd fails to stop or to start.
Flaky(S) == /\ Cardinality(S) <= budget.flaky
            /\ budget' = [budget EXCEPT !.flaky = @ - Cardinality(S)]

\* Mutant: stops without masking.
StopServices_NoMask ==
    /\ run.step = "stop"
    /\ up' = [x \in Service |-> FALSE]
    /\ run' = [run EXCEPT !.step = "flag"]
    /\ UNCHANGED <<want, partial, owed, failed, file, masked, loaded, paused, upgrading,
                   budget>>

\* manage_payload_services('pause'): stop if running, disable and mask.  A
\* service that does not stop is masked and reported, no more.
StopServices ==
    /\ run.step = "stop"
    /\ \E S \in SUBSET {x \in Service : up[x]} :
           Flaky(S) /\ up' = [x \in Service |-> x \in S]
    /\ masked' = [x \in Service |-> TRUE]
    /\ run' = [run EXCEPT !.step = "flag"]
    /\ UNCHANGED <<want, partial, owed, failed, file, loaded, paused, upgrading>>

SetUnitPaused ==
    /\ run.step = "flag"
    /\ paused' = TRUE
    /\ run' = NoRun
    /\ UNCHANGED <<want, partial, owed, failed, file, services, upgrading, budget>>

\* Mutant: starts without unmasking.
StartServices_NoUnmask ==
    /\ run.step = "start"
    /\ Restarted({x \in Service : ~up[x]}, FALSE)
    /\ run' = [run EXCEPT !.step = "clear"]
    /\ UNCHANGED <<want, partial, owed, failed, file, paused, upgrading, budget>>

\* manage_payload_services('resume'): unmask, enable, and start what is not
\* running already.
StartServices ==
    /\ run.step = "start"
    /\ masked' = [x \in Service |-> FALSE]
    /\ \E S \in SUBSET {x \in Service : ~up[x]} :
           /\ Flaky(S)
           /\ up' = [x \in Service |-> x \notin S]
           /\ loaded' = [x \in Service |-> IF up[x] \/ x \in S
                                           THEN loaded[x] ELSE file]
    /\ run' = [run EXCEPT !.step = "clear"]
    /\ UNCHANGED <<want, partial, owed, failed, file, paused, upgrading>>

\* Juju runs a hook that has failed again, not an action.
Retried == run.op \in Hooks \cup UpgradeHooks /\ ~run.action

\* config_changed as the openstack-upgrade action calls it, decorated as it is.
ActionGoesOn == [Started("config-changed", "write", TRUE) EXCEPT !.action = TRUE]

\* resume_unit clears the flag, and raises if a service has not started: Juju runs
\* the series hook again, and the openstack-upgrade action ends there.
ClearUnitPaused ==
    LET raises == \E x \in Service : ~up[x]
    IN  /\ run.step = "clear"
        /\ paused' = FALSE
        /\ IF raises /\ Retried
           THEN owed' = owed \cup {run.op} /\ failed' = run.op
           ELSE UNCHANGED <<owed, failed>>
        /\ run' = IF run.op = "openstack-upgrade" /\ ~raises THEN ActionGoesOn
                                                             ELSE NoRun
        /\ UNCHANGED <<want, partial, file, services, upgrading, budget>>

\* do_openstack_upgrade stops all services, and starts them unless paused.
CycleServices ==
    /\ run.step = "cycle"
    /\ IF paused
       THEN up' = [x \in Service |-> FALSE] /\ UNCHANGED <<masked, loaded>>
       ELSE Restarted(Service, TRUE)
    /\ run' = IF paused THEN [run EXCEPT !.step = "start"]
              ELSE ActionGoesOn
    /\ UNCHANGED <<want, partial, owed, failed, file, paused, upgrading, budget>>

\* A command raises, or the agent dies.
Fail ==
    /\ ~Idle
    /\ budget.fails > 0
    /\ budget' = [budget EXCEPT !.fails = @ - 1]
    /\ IF Retried
       THEN owed' = owed \cup {run.op} /\ failed' = run.op
       ELSE UNCHANGED <<owed, failed>>
    /\ run' = NoRun
    /\ UNCHANGED <<want, partial, file, services, paused, upgrading>>

Proceed == \/ Return \/ Write \/ Post \/ (\E x \in Service : Restart(x))
           \/ StopServices \/ SetUnitPaused
           \/ StartServices \/ ClearUnitPaused \/ CycleServices

Hook == \/ \E h \in Hooks : StartHook(h)
        \/ UpgradeCharm \/ PreSeriesUpgrade \/ PostSeriesUpgrade

Next == \/ \E s \in Source : Change(s)
        \/ \E o \in Ops : Request(o) \/ StartAction(o)
        \/ Hook \/ Proceed \/ Fail

Spec == Init /\ [][Next]_vars

\* Juju dispatches the hooks it owes, and a hook that has started goes on.
FairSpec == Spec /\ WF_vars(Hook) /\ WF_vars(Proceed)

-----------------------------------------------------------------------------
(* Properties. *)

TypeOK ==
    /\ want \in [Source -> Nat]
    /\ partial \subseteq Guarded
    /\ owed \subseteq Hooks \cup UpgradeHooks
    /\ failed \in Hooks \cup UpgradeHooks \cup {"none"}
    /\ file \in [File -> Contents]
    /\ up \in [Service -> BOOLEAN]
    /\ masked \in [Service -> BOOLEAN]
    /\ loaded \in [Service -> [File -> Contents]]
    /\ paused \in BOOLEAN
    /\ upgrading \in BOOLEAN
    /\ run \in Run
    /\ budget \in [fails : Nat, ops : Nat, flaky : Nat]

\* No operation has been cut short and systemd has done what it was told.
Undisturbed == budget.fails = MaxFails /\ budget.flaky = MaxFlaky

\* "services that should be restarted when file changes" (docstring of
\* restart_map): between hooks, the services of an active unit have read what
\* their files say.
RunsWhatIsOnDisk ==
    Undisturbed /\ Idle /\ ~paused =>
        \A f \in File : \A x \in RestartMap[f] :
            up[x] => loaded[x][f] = file[f]

\* When all hooks have run, every file says what the relations say, and those
\* of an active unit what the options say.
UpToDate(S) == \A f \in File : \A s \in Reads[f] \cap S : file[f][s] = want[s]

\* "if we are paused, delay doing any config changed hooks.  It is forced on
\* the resume." (comment in config_changed): the files of an active unit say
\* what the options say.  It does not hold: resume does not run config_changed, and
\* an option that changes amid a pause waits for the next hook that writes.
OptionsAreRendered == Idle /\ ~paused /\ owed = {} => UpToDate({"config"})

\* No hook brings a service of a paused unit up.
PausedStaysDown ==
    Undisturbed /\ Idle /\ paused => \A x \in Service : ~up[x]

\* An active unit has all its services up: whatever the order of pause, resume
\* and upgrades, nothing stays masked.
ActiveIsUp ==
    Undisturbed /\ Idle /\ ~paused /\ owed \cap UpgradeHooks = {}
        => \A x \in Service : up[x] /\ ~masked[x]

\* Every change of a relation reaches the files, on a paused unit too: the handler
\* that returned while the data were not complete is not needed later, and those of
\* other relations pass nothing over.  Data that have become incomplete again may
\* wait.
ChangesAreRendered ==
    \A s \in Guarded : \A k \in 1..MaxChanges[s] :
        want[s] >= k /\ s \notin partial
            ~> s \in partial \/ \A f \in File : s \in Reads[f] => file[f][s] >= k
=============================================================================
