---------------------------- MODULE DeferredEvents ----------------------------
(***************************************************************************)
(* Restarts that wait for the operator.  With enable-auto-restarts off the *)
(* charm restarts no service whose files change, and the policy script     *)
(* that it installs keeps the scripts of packages from doing it; each of   *)
(* the two writes an event for a restart that it did not do.  Events go    *)
(* when the charm restarts the service, by a hook or by the action         *)
(* restart-services, or when it finds that the service was started since.  *)
(*                                                                         *)
(* The library is copied whole.  No hook of this charm calls configure_    *)
(* deferred_restarts or check_restart_timestamps, and restarts are always  *)
(* permitted; the model has the hooks of a charm that uses the library.    *)
(* Time goes on with every event: no two things happen in the same second. *)
(***************************************************************************)
EXTENDS Integers, FiniteSets

CONSTANTS
    DeferredServices,  \* the services of the charm
    MaxTime            \* the bound of the clock

ASSUME DeferredAssumption == MaxTime \in Nat

Files    == {"file1", "file2"}   \* what a hook may find changed
Requests == {"restart", "stop"}  \* what the script of a package asks for

VARIABLES
    now,         \* the clock
    permitted,   \* enable-auto-restarts
    blocked,     \* the services in the policy file
    events,      \* the files of deferred events
    started,     \* started[s]: ActiveEnterTimestamp of s
    changed,     \* changed[s]: when a file of s changed last
    restarting,  \* what restart-services does: a step and the services
    missed       \* history: the services whose last change came when the code does
                 \* not keep track of it

deferredVars == <<now, permitted, blocked, events, started, changed, restarting, missed>>

Event == [time : 1..MaxTime, service : DeferredServices, action : Requests,
          reason : Files \cup {"Package update"}]

Idle == [step |-> "none", services |-> {}]

DeferredInit ==
    /\ now = 1
    /\ permitted = TRUE
    /\ blocked = {}
    /\ events = {}
    /\ started = [s \in DeferredServices |-> 1]
    /\ changed = [s \in DeferredServices |-> 0]
    /\ restarting = Idle
    /\ missed = {}

\* No hook runs while an action does.
Quiet == restarting = Idle

Tick == now < MaxTime /\ now' = now + 1

-----------------------------------------------------------------------------
(* The files of events. *)

\* duplicate_event_files, with matching_request: the time is not compared.
Duplicates(E, e) ==
    {d \in E : <<d.service, d.action, d.reason>> = <<e.service, e.action, e.reason>>}

\* save_event
Saved(E, e) == IF Duplicates(E, e) = {} THEN E \cup {e} ELSE E

\* Mutant: all the events go with those of the services that were restarted.
Cleared_All(E, services) == IF services = {} THEN E ELSE {}

\* clear_deferred_events, which does not look at the action.
Cleared(E, services) == {e \in E : e.service \notin services}

\* get_deferred_restarts
DeferredRestarts == {e \in events : e.action = "restart"}

\* get_service_start_time, and the comparison of check_restart_timestamps.
RestartedSince(e) == ~(started[e.service] < e.time)

Stale(s) == \E e \in DeferredRestarts : e.service = s /\ RestartedSince(e)

-----------------------------------------------------------------------------
(* The charm. *)

\* check_restart_timestamps: for a restart that is older than the start of its
\* service all events of the service go.
CheckRestartTimestamps ==
    /\ Quiet
    /\ events' = Cleared(events, {s \in DeferredServices : Stale(s)})
    /\ UNCHANGED <<now, permitted, blocked, started, changed, restarting, missed>>

\* configure_deferred_restarts, in the hook that follows the option: the policy
\* file is removed, or each service is added to it.
ConfigureDeferredRestarts(p) ==
    /\ Quiet
    /\ permitted # p
    /\ permitted' = p
    /\ blocked' = IF p THEN {} ELSE blocked \cup DeferredServices
    /\ UNCHANGED <<now, events, started, changed, restarting, missed>>

Changes(s) == Tick /\ changed' = [changed EXCEPT ![s] = now']

StartedAgain(services) ==
    /\ started' = [s \in DeferredServices |-> IF s \in services THEN now' ELSE started[s]]
    /\ missed' = missed \ services

\* A hook that changes files of s and may restart it: process_svc_restart clears its
\* events, also if systemd could not restart it, of which nobody looks at the False.
HookRestarts(s) ==
    /\ Quiet
    /\ permitted
    /\ Changes(s)
    /\ events' = Cleared(events, {s})
    /\ \/ StartedAgain({s})
       \/ missed' = missed \cup {s} /\ UNCHANGED started
    /\ UNCHANGED <<permitted, blocked, restarting>>

\* One that may not: check_and_record_restart_request saves an event.  One that is
\* there with the start of s after it will take the new one along.
HookDefers(s, f) ==
    /\ Quiet
    /\ ~permitted
    /\ Changes(s)
    /\ events' = Saved(events, [time |-> now', service |-> s, action |-> "restart", reason |-> f])
    /\ missed' = IF Stale(s) THEN missed \cup {s} ELSE missed
    /\ UNCHANGED <<permitted, blocked, started, restarting>>

\* One that fails after it has written, before restart_on_change_helper compares.
HookFailsAfterWrite(s) ==
    /\ Quiet
    /\ Changes(s)
    /\ missed' = missed \cup {s}
    /\ UNCHANGED <<permitted, blocked, events, started, restarting>>

\* restart-services, with the services given by the operator or, deferred-only,
\* those with a deferred restart.
BeginRestart(services) ==
    /\ Quiet
    /\ services # {}
    /\ restarting' = [step |-> "begun", services |-> services]
    /\ UNCHANGED <<now, permitted, blocked, events, started, changed, missed>>

\* All are stopped and all are started; or one does not stop cleanly and none is
\* started, or some do not start, and the action fails.
StopAndStart(done) ==
    /\ restarting.step = "begun"
    /\ Tick
    /\ restarting' = IF done = restarting.services THEN [restarting EXCEPT !.step = "started"]
                     ELSE Idle
    /\ StartedAgain(done)
    /\ UNCHANGED <<permitted, blocked, events, changed>>

EndRestart ==
    /\ restarting.step = "started"
    /\ restarting' = Idle
    /\ events' = Cleared(events, restarting.services)
    /\ UNCHANGED <<now, permitted, blocked, started, changed, missed>>

-----------------------------------------------------------------------------
(* Packages and the operator, at any time. *)

\* get_blocking_policies: what the policy file has of the service.
Blocks(s) == s \in blocked

\* A package brings new files of s and asks policy-rc.d whether it may restart
\* it (or stop it, and start it afterwards): process_action_request refuses and
\* records an event, or permits it.  The action restart-services, if it has just
\* started s, will take the event along.
PackageUpdate(s, request) ==
    /\ Changes(s)
    /\ IF Blocks(s)
       THEN /\ events' = events \cup {[time |-> now', service |-> s, action |-> request,
                                       reason |-> "Package update"]}
            /\ missed' = IF Stale(s) \/ (restarting.step = "started" /\ s \in restarting.services)
                         THEN missed \cup {s} ELSE missed
            /\ UNCHANGED started
       ELSE StartedAgain({s}) /\ UNCHANGED events
    /\ UNCHANGED <<permitted, blocked, restarting>>

\* systemctl restart by hand.
OperatorRestarts(s) ==
    /\ Tick
    /\ StartedAgain({s})
    /\ UNCHANGED <<permitted, blocked, events, changed, restarting>>

DeferredNext ==
    \/ CheckRestartTimestamps \/ EndRestart
    \/ \E p \in BOOLEAN : ConfigureDeferredRestarts(p)
    \/ \E done \in SUBSET restarting.services : StopAndStart(done)
    \/ \E s \in DeferredServices :
          \/ HookRestarts(s) \/ HookFailsAfterWrite(s) \/ OperatorRestarts(s)
          \/ \E f \in Files : HookDefers(s, f)
          \/ \E r \in Requests : PackageUpdate(s, r)
    \/ \E services \in SUBSET DeferredServices \cup {{e.service : e \in DeferredRestarts}} :
          BeginRestart(services)

DeferredSpec == DeferredInit /\ [][DeferredNext]_deferredVars

-----------------------------------------------------------------------------
(* Properties. *)

\* A service that runs with files from before a change has an event that says
\* so, whoever made the change, whatever is restarted in between and however
\* often the option is switched: the operator's list misses no restart, but for
\* changes of four kinds: of a hook that failed after it had written; of a hook whose
\* restart failed without a word; of a package between the start of the service by
\* restart-services and the clearing of its events; and one that is made while the
\* list still has an event from before the service was last restarted, as
\* check_restart_timestamps clears both.
RestartIsRecorded ==
    \A s \in DeferredServices \ missed :
        changed[s] > started[s] => \E e \in events : e.service = s
=============================================================================
