---------------------------- MODULE WorkloadStatus ----------------------------
(***************************************************************************)
(* The workload status that a unit shows, with what it depends on: the     *)
(* relations, the services, the pause and upgrade flags, the configuration *)
(* of the cluster and, for its prefix, the policy overrides of Policyd.    *)
(*                                                                         *)
(* The status is assessed at the end of every hook that succeeds, and by   *)
(* the pause and resume helpers, which fail if it is neither active nor    *)
(* maintenance: an action reports that, a series-upgrade hook is in error. *)
(***************************************************************************)
EXTENDS Policyd

CONSTANTS
    Required   \* the relations without which the unit does not work

\* REQUIRED_INTERFACES: a database, a message queue and, with the api, identity.
ASSUME WorkloadStatusAssumption == Required # {}

VARIABLES
    relation,  \* relation[r]: what a hook finds of relation r
    due,       \* due[r]: the hook that Juju owes for relation r
    about,     \* the relation of the hook that is executing
    ha,        \* the unit is related to hacluster; a vip is set
    up,        \* the services of the unit run
    paused,    \* the unit-paused flag
    upgrading, \* the unit-upgrading flag
    status,    \* what juju status shows
    drift      \* something has changed that no hook is owed for

relationVars == <<relation, due, about, ha>>
serviceVars  == <<up, paused, upgrading>>
vars == <<policydVars, relationVars, serviceVars, owed, failed, run, left,
          status, drift>>

States        == {"active", "maintenance", "waiting", "blocked"}
Seen          == {"absent", "empty", "partial", "complete"}
RelationHooks == {"joined", "changed", "departed", "broken"}
Reasons       == {"missing", "incomplete", "vip", "services", "running",
                  "ready", "paused"}
OtherHooks    == {"ha-joined", "pre-series-upgrade", "post-series-upgrade"}

Init ==
    /\ PolicydInit
    /\ relation = [r \in Required |-> "absent"]
    /\ due = [r \in Required |-> "none"]
    /\ about = "none"
    /\ ha = [related |-> FALSE, vip |-> FALSE]
    /\ up = TRUE /\ paused = FALSE /\ upgrading = FALSE
    /\ owed = {} /\ failed = "none" /\ run = NoRun
    /\ left = [events |-> MaxEvents, faults |-> MaxFaults]
    /\ status = [state |-> "blocked", why |-> {"missing"}]
    /\ drift = FALSE

-----------------------------------------------------------------------------
(* _determine_os_workload_status *)

Undecided == [state |-> "none", why |-> {}]
Blocked(why) == [state |-> "blocked", why |-> why]

\* check_actually_paused, of the services: ports are not given.
ActuallyPaused == ~up

\* _ows_check_if_paused
IfPaused ==
    CASE (upgrading \/ paused) /\ ~ActuallyPaused -> Blocked({"running"})
      [] upgrading /\ ActuallyPaused -> Blocked({"ready"})
      [] paused /\ ~upgrading /\ ActuallyPaused ->
             [state |-> "maintenance", why |-> {"paused"}]
      [] OTHER -> Undecided

\* incomplete_relation_data: no context of the interface is complete.
Incomplete == {r \in Required : relation[r] # "complete"}

\* "Edge case - relation ID exists but departings".
Missing == {r \in Incomplete :
              \/ relation[r] = "absent"
              \/ /\ relation[r] = "empty" /\ r = about
                 /\ run.op \in {"departed", "broken"}}

\* _ows_check_generic_interfaces.  The optional interfaces (image, storage
\* backend, ha) have contexts that are never incomplete.
Interfaces ==
    CASE Missing # {} -> Blocked({"missing"} \cup
                                 {w \in {"incomplete"} : Incomplete # Missing})
      [] Missing = {} /\ Incomplete # {} ->
             [state |-> "waiting", why |-> {"incomplete"}]
      [] OTHER -> Undecided

\* check_optional_relations: get_hacluster_config raises.
HaMissing == ha.related /\ ~ha.vip

\* workload_state_compare: the state of the higher priority
StateCompare(current, new) ==
    LET rank == [none |-> 0, active |-> 1, maintenance |-> 2, waiting |-> 3, blocked |-> 4]
    IN  IF rank[current] > rank[new] THEN current ELSE new

\* _ows_check_charm_func
CharmFunc(s) == IF s.state # "maintenance" /\ HaMissing
                THEN [state |-> StateCompare(s.state, "blocked"), why |-> s.why \cup {"vip"}]
                ELSE s

\* Mutant: services are looked at only if the unit had been blocked.
ServicesRunning_Skipped(s) ==
    IF s = Undecided THEN [state |-> "active", why |-> {}] ELSE s

\* ows_check_services_running, "Unit is ready".
ServicesRunning(s) ==
    CASE s = Undecided /\ ~up -> Blocked({"services"})
      [] s = Undecided /\ up  -> [state |-> "active", why |-> {}]
      [] OTHER -> s

Determine == ServicesRunning(CharmFunc(IF IfPaused = Undecided THEN Interfaces
                                                               ELSE IfPaused))

\* assess_status with its function
AssessStatus == status' = Determine

\* assess_status at the end; resume_unit raises unless the unit is active or
\* still in maintenance.  A broken relation is gone after its hook.
Assess ==
    /\ run.step = "assess"
    /\ AssessStatus
    /\ drift' = FALSE
    /\ relation' = [r \in Required |-> IF r = about /\ run.op = "broken"
                                       THEN "absent" ELSE relation[r]]
    /\ IF /\ run.op = "post-series-upgrade"
          /\ status'.state \notin {"active", "maintenance"}
       THEN owed' = owed \cup {run.op} /\ failed' = run.op
       ELSE UNCHANGED <<owed, failed>>
    /\ run' = NoRun /\ about' = "none"
    /\ UNCHANGED <<policydVars, due, ha, serviceVars, left>>

-----------------------------------------------------------------------------
(* Hooks and actions: what they change, up to the assessment. *)

\* config_changed ends in ha_joined if the unit is related, which raises.
HaJoinedRaises(h) ==
    HaMissing /\ (h = "ha-joined" \/ (h = "config-changed" /\ ~paused))

HookRaises(h) ==
    /\ Idle
    /\ h \in owed /\ failed = "none"
    /\ HaJoinedRaises(h)
    /\ failed' = h
    /\ UNCHANGED <<policydVars, relationVars, serviceVars, owed, run, left,
                   status,
                   drift>>

ConfigOrCharm(h) ==
    /\ ~HaJoinedRaises(h)
    /\ PolicyHook(h, paused)
    /\ UNCHANGED <<relationVars, serviceVars, status, drift>>

PolicyOverrides ==
    PolicyStep /\ UNCHANGED <<relationVars, serviceVars, status,
                                             drift>>

HaJoined ==
    /\ ~HaJoinedRaises("ha-joined")
    /\ Dispatch("ha-joined")
    /\ run' = Executes("ha-joined", "assess")
    /\ UNCHANGED <<policydVars, relationVars, serviceVars, left, status, drift>>

\* A relation hook: new data is written and the services are restarted.
RelationHook(r) ==
    /\ Idle /\ failed = "none"
    /\ due[r] # "none"
    /\ relation' = [relation EXCEPT
                        ![r] = IF due[r] = "joined" THEN "empty" ELSE @]
    /\ up' = (up \/ (due[r] = "changed" /\ ~paused))
    /\ due' = [due EXCEPT ![r] = "none"]
    /\ about' = r
    /\ run' = Executes(due[r], "assess")
    /\ UNCHANGED <<policydVars, ha, paused, upgrading, owed, failed, left,
                   status, drift>>

UpdateStatus ==
    /\ Idle /\ failed = "none" /\ drift
    /\ run' = Executes("update-status", "assess")
    /\ UNCHANGED <<policydVars, relationVars, serviceVars, owed, failed, left,
                   status, drift>>

\* Services that are stopped and masked, or unmasked and started; a service may
\* fail to.
Switched(on) ==
    \/ up' = on /\ UNCHANGED left
    \/ up' = up /\ up # on /\ Spend("faults")

\* set_unit_upgrading, clear_unit_upgrading
SetUpgrading(on) == upgrading' = on

\* pause_unit on behalf of the hook: the flag is set after the services.
PreSeriesUpgrade ==
    /\ Dispatch("pre-series-upgrade")
    /\ SetUpgrading(TRUE)
    /\ IF paused THEN UNCHANGED <<up, paused, left>>
                 ELSE Switched(FALSE) /\ paused' = TRUE
    /\ run' = Executes("pre-series-upgrade", "assess")
    /\ UNCHANGED <<policydVars, relationVars, status, drift>>

\* Mutant: the upgrading flag stays.
PostSeriesUpgrade_KeepsFlag ==
    /\ Dispatch("post-series-upgrade")
    /\ paused' = FALSE
    /\ Switched(TRUE)
    /\ run' = Executes("post-series-upgrade", "assess")
    /\ UNCHANGED <<policydVars, relationVars, upgrading, status, drift>>

\* series_upgrade_complete
PostSeriesUpgrade ==
    /\ Dispatch("post-series-upgrade")
    /\ SetUpgrading(FALSE)
    /\ paused' = FALSE
    /\ Switched(TRUE)
    /\ run' = Executes("post-series-upgrade", "assess")
    /\ UNCHANGED <<policydVars, relationVars, status, drift>>

\* Mutant: the helper assesses what the unit was.
PauseOrResume_AssessFirst(on) ==
    /\ Idle
    /\ left.events > 0
    /\ up' = on
    /\ paused' = ~on
    /\ status' = Determine
    /\ left' = [left EXCEPT !.events = @ - 1]
    /\ UNCHANGED <<policydVars, relationVars, upgrading, owed, failed, run,
                   drift>>

\* The actions; they run on a unit in error too.
PauseOrResume(on) ==
    /\ Idle
    /\ left.events > 0
    /\ \/ up' = on /\ left' = [left EXCEPT !.events = @ - 1]
       \/ /\ up' = up /\ up # on /\ left.faults > 0
          /\ left' = [left EXCEPT !.events = @ - 1, !.faults = @ - 1]
    /\ paused' = ~on
    /\ run' = Executes(IF on THEN "resume" ELSE "pause", "assess")
    /\ UNCHANGED <<policydVars, relationVars, upgrading, owed, failed, status,
                   drift>>

\* A hook is killed, amid the overrides or before its assessment.
Killed == KilledAmidPolicy /\ UNCHANGED <<relationVars, serviceVars, status,
                                          drift>>

-----------------------------------------------------------------------------
(* The operator, the other charms, the host. *)

UnitKept == UNCHANGED <<policydVars, about, serviceVars, failed, run, status,
                        drift>>

\* juju add-relation; nothing is seen of it before its first hook.
Relate(r) ==
    /\ relation[r] = "absent" /\ due[r] = "none"
    /\ Spend("events")
    /\ due' = [due EXCEPT ![r] = "joined"]
    /\ UnitKept /\ UNCHANGED <<relation, ha, owed>>

\* The other charm answers what the joined hook has asked.
RemoteSets(r) ==
    /\ relation[r] \in {"empty", "partial"}
    /\ due[r] \in {"none", "changed"} /\ about # r
    /\ \E seen \in {"partial", "complete"} \ {relation[r]} :
           relation' = [relation EXCEPT ![r] = seen]
    /\ due' = [due EXCEPT ![r] = "changed"]
    /\ UnitKept /\ UNCHANGED <<ha, owed, left>>

Departs(r) ==
    /\ relation[r] \in {"partial", "complete"} /\ about # r
    /\ Spend("events")
    /\ relation' = [relation EXCEPT ![r] = "empty"]
    /\ due' = [due EXCEPT ![r] = "departed"]
    /\ UnitKept /\ UNCHANGED <<ha, owed>>

Breaks(r) ==
    /\ relation[r] = "empty" /\ due[r] = "none" /\ about # r
    /\ Spend("events")
    /\ due' = [due EXCEPT ![r] = "broken"]
    /\ UnitKept /\ UNCHANGED <<relation, ha, owed>>

RelateHa ==
    /\ ~ha.related /\ failed = "none"
    /\ Spend("events")
    /\ ha' = [ha EXCEPT !.related = TRUE]
    /\ owed' = owed \cup {"ha-joined"}
    /\ UnitKept /\ UNCHANGED <<relation, due>>

SetVip ==
    /\ Spend("events")
    /\ ha' = [ha EXCEPT !.vip = ~@]
    /\ owed' = owed \cup {"config-changed"}
    /\ UnitKept /\ UNCHANGED <<relation, due>>

ServiceDies ==
    /\ up /\ ~paused
    /\ Spend("faults")
    /\ up' = FALSE
    /\ drift' = TRUE
    /\ UNCHANGED <<policydVars, relationVars, paused, upgrading, owed, failed,
                   run, status>>

\* juju upgrade-series prepare and complete
UpgradeSeries ==
    /\ Spend("events")
    /\ owed \cap {"pre-series-upgrade", "post-series-upgrade"} = {}
    /\ owed' = owed \cup {IF upgrading THEN "post-series-upgrade"
                                        ELSE "pre-series-upgrade"}
    /\ UnitKept /\ UNCHANGED <<relation, due, ha>>

Options == Operator /\ UNCHANGED <<relationVars, serviceVars, status, drift>>

Hook == \/ \E h \in PolicyHooks : ConfigOrCharm(h)
        \/ HaJoined \/ UpdateStatus \/ PreSeriesUpgrade \/ PostSeriesUpgrade
        \/ \E r \in Required : RelationHook(r)
        \/ \E h \in {"config-changed", "ha-joined"} : HookRaises(h)

Proceed == PolicyOverrides \/ Assess

Environment == \/ \E r \in Required :
                      Relate(r) \/ RemoteSets(r) \/ Departs(r) \/ Breaks(r)
               \/ RelateHa \/ SetVip \/ ServiceDies \/ UpgradeSeries \/ Options

Next == \/ Hook \/ Proceed \/ Killed \/ Environment
        \/ \E on \in BOOLEAN : PauseOrResume(on)

Spec == Init /\ [][Next]_vars

\* Juju dispatches the hooks that it owes, update-status among them, and a hook
\* that has started goes on.
FairSpec == Spec /\ WF_vars(Hook) /\ WF_vars(Proceed)

-----------------------------------------------------------------------------
(* Properties. *)

TypeOK ==
    /\ PolicydTypeOK
    /\ relation \in [Required -> Seen]
    /\ due \in [Required -> RelationHooks \cup {"none"}]
    /\ about \in Required \cup {"none"}
    /\ ha \in [related : BOOLEAN, vip : BOOLEAN]
    /\ up \in BOOLEAN /\ paused \in BOOLEAN /\ upgrading \in BOOLEAN
    /\ owed \subseteq PolicyHooks \cup OtherHooks
    /\ failed \in owed \cup {"none"}
    /\ run.step \in PolicySteps \cup {"idle", "assess"}
    /\ status \in [state : States, why : SUBSET Reasons]
    /\ drift \in BOOLEAN

\* The unit can do its work.
Ready == /\ ~paused /\ ~upgrading /\ up
         /\ \A r \in Required : relation[r] = "complete"
         /\ ~HaMissing

AllDone == /\ Idle /\ owed = {} /\ failed = "none"
           /\ \A r \in Required : due[r] = "none"

\* However pause, resume, series upgrades, relations and failures follow each
\* other: when all hooks have run, the unit shows active if and only if it can
\* do its work, and maintenance if and only if it is down because of a pause.
StatusIsTrue ==
    AllDone /\ ~drift =>
        /\ status.state = "active" <=> Ready
        /\ status.state = "maintenance" <=> paused /\ ~upgrading /\ ~up

\* A status that is out of date is corrected, by update-status if by nothing
\* else, unless a hook is in error.
StatusCatchesUp ==
    (status.state = "active") # Ready
        ~> (status.state = "active") = Ready \/ failed # "none"

\* A hook in error succeeds when it is run again, unless a vip or a relation is
\* missing: Juju runs no relation hook before, and the error then stays.
ErrorsEnd ==
    failed # "none"
        ~> (Idle /\ failed = "none") \/ HaMissing \/ Incomplete # {}

\* Neither an outdated status nor a hook in error lasts, if nothing is missing.
StatusRecovers == StatusCatchesUp /\ ErrorsEnd
=============================================================================
