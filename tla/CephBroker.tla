----------------------------- MODULE CephBroker -----------------------------
(***************************************************************************)
(* A unit that keeps its volumes in ceph (the ceph relation).              *)
(*                                                                         *)
(* The unit asks for a pool in a broker request, whose id is a hash of     *)
(* what it asks for; each ceph unit sees the request some time later and   *)
(* may answer it.  The handler of ceph-relation-changed sends the request  *)
(* unless an equal one is there, and restarts cinder-volume once the pool  *)
(* is known to exist.  Options change, ceph units come and go, hooks fail  *)
(* and the unit is paused while requests and answers are on their way.     *)
(* Every unit of ceph answers with the id of the request.                  *)
(***************************************************************************)
EXTENDS Naturals

CONSTANTS
    Mon,        \* the units of ceph
    Request,    \* the requests that the options can call for
    NoRequest,
    MaxSets,    \* bound: changes of the options
    MaxTroubles \* bound: hooks that fail, requests that ceph refuses, units of
                \* ceph or relations that go, and pauses, taken together

ASSUME CephBrokerAssumption ==
    /\ NoRequest \notin Request
    /\ MaxSets \in Nat /\ MaxTroubles \in Nat

VARIABLES
    opts,     \* the request that the charm options call for
    related,  \* relation_ids('ceph') lists the relation
    joined,   \* the ceph units in it
    ready,    \* those that have published the key and the authentication
    seen,     \* seen[m]: the request that m has last been shown
    answer,   \* answer[m]: what m has published about a request
    done,     \* the requests that ceph has carried out
    sent,     \* broker_req: the request that the unit has published
    keyring,  \* the keyring of the service is on disk
    backend,  \* cinder.conf names the ceph backend
    hosts,    \* the units of ceph that ceph.conf names
    up,       \* cinder-volume is running
    saw,      \* the requests that had been carried out when it was started
    paused,   \* the unit-paused flag
    owed,     \* the hooks that Juju owes to the unit
    again,    \* the hook in error: no other hook runs before it succeeds
    run,      \* the hook that is executing
    budget    \* what is left of the bounds

vars == <<opts, related, joined, ready, seen, answer, done, sent, keyring,
          backend, hosts, up, saw, paused, owed, again, run, budget>>
ceph == <<related, joined, ready, seen, answer, done>>
files == <<backend, hosts>>
unit == <<sent, keyring, files, up, saw, paused>>

Hooks == {"ceph-changed", "ceph-broken", "config-changed"}

\* fresh: history, the answer was given after the unit last sent a request.
Answer   == [id : Request \cup {NoRequest}, ok : BOOLEAN, fresh : BOOLEAN]
NoAnswer == [id |-> NoRequest, ok |-> FALSE, fresh |-> FALSE]

\* ask: the request that the hook has computed; hosts: the units in the context
\* of ceph.conf; changed: the files differ from those at the start.
Run   == [hook : Hooks \cup {"none"}, ask : Request \cup {NoRequest},
          step : {"idle", "send", "write", "restart", "post"},
          hosts : SUBSET Mon, changed : BOOLEAN]
NoRun == [hook |-> "none", ask |-> NoRequest, step |-> "idle",
          hosts |-> {}, changed |-> FALSE]

Init ==
    /\ opts \in Request
    /\ related = FALSE /\ joined = {} /\ ready = {}
    /\ seen = [m \in Mon |-> NoRequest]
    /\ answer = [m \in Mon |-> NoAnswer]
    /\ done = {}
    /\ sent = NoRequest
    /\ keyring = FALSE
    /\ backend = FALSE /\ hosts = {}
    /\ up = TRUE /\ saw = {}
    /\ paused = FALSE
    /\ owed = {} /\ again = "none"
    /\ run = NoRun
    /\ budget = [sets |-> MaxSets, troubles |-> MaxTroubles]

Idle  == run.step = "idle"
Quiet == Idle /\ again = "none" /\ owed = {}

-----------------------------------------------------------------------------
(* Ceph and the operator. *)

\* An option that the request is made from changes; a hook that executes has
\* read the options already.
SetOptions(r) ==
    /\ Idle /\ r # opts
    /\ budget.sets > 0
    /\ budget' = [budget EXCEPT !.sets = @ - 1]
    /\ opts' = r
    /\ owed' = owed \cup {"config-changed"}
    /\ UNCHANGED <<ceph, unit, again, run>>

\* A unit of ceph enters the relation; a new relation is not made before the
\* broken hook of the old one has run.
Join(m) ==
    /\ Idle /\ "ceph-broken" \notin owed \cup {again}
    /\ m \notin joined
    /\ related' = TRUE
    /\ joined' = joined \cup {m}
    /\ owed' = owed \cup {"ceph-changed"}
    /\ UNCHANGED <<opts, ready, seen, answer, done, unit, again, run, budget>>

\* It publishes the key and its address.
Publish(m) ==
    /\ m \in joined \ ready
    /\ ready' = ready \cup {m}
    /\ owed' = owed \cup {"ceph-changed"}
    /\ UNCHANGED <<opts, related, joined, seen, answer, done, unit, again, run,
                   budget>>

\* Juju shows it the request of the unit.
Deliver(m) ==
    /\ m \in joined /\ sent # NoRequest
    /\ seen' = [seen EXCEPT ![m] = sent]
    /\ UNCHANGED <<opts, related, joined, ready, answer, done, unit, owed,
                   again, run, budget>>

\* It carries out the request it was shown, or fails to; it does so once.
Reply(m, ok) ==
    /\ m \in joined \cap ready
    /\ seen[m] # NoRequest /\ answer[m].id # seen[m]
    /\ ok \/ budget.troubles > 0
    /\ budget' = IF ok THEN budget ELSE [budget EXCEPT !.troubles = @ - 1]
    /\ done' = IF ok THEN done \cup {seen[m]} ELSE done
    /\ answer' = [answer EXCEPT ![m] =
                     [id |-> seen[m], ok |-> ok, fresh |-> seen[m] = sent]]
    /\ owed' = owed \cup {"ceph-changed"}
    /\ UNCHANGED <<opts, related, joined, ready, seen, unit, again, run>>

\* The units M leave the relation: it has no handler for that.
Gone(M) ==
    /\ Idle /\ again = "none"
    /\ budget.troubles > 0
    /\ budget' = [budget EXCEPT !.troubles = @ - 1]
    /\ joined' = joined \ M
    /\ ready' = ready \ M
    /\ seen' = [m \in Mon |-> IF m \in M THEN NoRequest ELSE seen[m]]
    /\ answer' = [m \in Mon |-> IF m \in M THEN NoAnswer ELSE answer[m]]

Leave(m) ==
    /\ m \in joined
    /\ Gone({m})
    /\ UNCHANGED <<opts, related, done, unit, owed, again, run>>

\* The relation is removed; it is listed until the broken hook has run.
RemoveRelation ==
    /\ related /\ "ceph-broken" \notin owed
    /\ Gone(Mon)
    /\ owed' = (owed \ {"ceph-changed"}) \cup {"ceph-broken"}
    /\ UNCHANGED <<opts, related, done, unit, again, run>>

Pause ==
    /\ Idle /\ ~paused
    /\ budget.troubles > 0
    /\ budget' = [budget EXCEPT !.troubles = @ - 1]
    /\ paused' = TRUE /\ up' = FALSE
    /\ UNCHANGED <<opts, ceph, sent, keyring, files, saw, owed, again, run>>

Resume ==
    /\ Idle /\ paused
    /\ paused' = FALSE /\ up' = TRUE /\ saw' = done
    /\ UNCHANGED <<opts, ceph, sent, keyring, files, owed, again, run, budget>>

-----------------------------------------------------------------------------
(* The hooks. *)

\* The context is complete: some unit has published key and authentication.
CredsComplete == joined \cap ready # {}

\* Mutant: whatever ceph has answered counts.
IsRequestComplete_AnyId(r) ==
    sent = r /\ \E m \in joined : answer[m].id # NoRequest /\ answer[m].ok

\* An equal request has been sent, and some unit has carried it out.
IsRequestComplete(r) ==
    sent = r /\ \E m \in joined : answer[m].id = r /\ answer[m].ok

\* Juju starts h; a hook in error is run again first.
Dispatch(h) ==
    /\ Idle
    /\ IF again = "none" THEN h \in owed ELSE h = again
    /\ again' = "none"
    /\ owed' = IF again = "none" THEN owed \ {h} ELSE owed

Started(h, step) ==
    [hook |-> h, ask |-> opts, step |-> step,
     hosts |-> IF CredsComplete THEN joined ELSE {}, changed |-> FALSE]

\* ceph_changed up to its decision: nothing without key and authentication; a
\* keyring; then the end of the request, or the request.
CephChanged ==
    /\ Dispatch("ceph-changed")
    /\ keyring' = (keyring \/ CredsComplete)
    /\ run' = IF ~CredsComplete THEN NoRun
              ELSE Started("ceph-changed",
                           IF IsRequestComplete(opts) THEN "write" ELSE "send")
    /\ UNCHANGED <<opts, ceph, sent, files, up, saw, paused, budget>>

\* config_changed, as far as it bears on ceph: it writes the files, and is
\* skipped on a paused unit.
ConfigChanged ==
    /\ Dispatch("config-changed")
    /\ run' = IF paused THEN NoRun ELSE Started("config-changed", "write")
    /\ UNCHANGED <<opts, ceph, unit, budget>>

\* Mutant: the keyring stays.
CephBroken_Keeps ==
    /\ Dispatch("ceph-broken")
    /\ run' = Started("ceph-broken", "write")
    /\ UNCHANGED <<opts, ceph, unit, budget>>

\* ceph_broken: the keyring is deleted, then all files are written.
CephBroken ==
    /\ Dispatch("ceph-broken")
    /\ keyring' = FALSE
    /\ run' = Started("ceph-broken", "write")
    /\ UNCHANGED <<opts, ceph, sent, files, up, saw, paused, budget>>

\* cinder.conf names the backend as soon as the relation is listed, with or
\* without a key; ceph.conf is not written by ceph_broken.
Write ==
    /\ run.step = "write"
    /\ backend' = related
    /\ hosts' = IF related /\ run.hook # "ceph-broken" THEN run.hosts ELSE hosts
    /\ run' = [run EXCEPT !.changed = (files' # files),
                          !.step = IF run.hook = "ceph-changed" THEN "restart"
                                                                ELSE "post"]
    /\ UNCHANGED <<opts, ceph, sent, keyring, up, saw, paused, owed, again,
                   budget>>

Restarted == up' = TRUE /\ saw' = done

\* Mutant: the restart is left to the changed files.
RestartVolume_IfChanged ==
    /\ run.step = "restart"
    /\ UNCHANGED <<up, saw>>
    /\ run' = [run EXCEPT !.step = "post"]
    /\ UNCHANGED <<opts, ceph, sent, keyring, files, paused, owed, again,
                   budget>>

\* service_restart('cinder-volume'), whether the files have changed or not.
RestartVolume ==
    /\ run.step = "restart"
    /\ IF paused THEN UNCHANGED <<up, saw>> ELSE Restarted
    /\ run' = [run EXCEPT !.step = "post"]
    /\ UNCHANGED <<opts, ceph, sent, keyring, files, paused, owed, again,
                   budget>>

\* restart_on_change restarts the services of changed files.
Post ==
    /\ run.step = "post" /\ run.hook # "ceph-broken"
    /\ IF run.changed /\ ~paused THEN Restarted ELSE UNCHANGED <<up, saw>>
    /\ run' = NoRun
    /\ UNCHANGED <<opts, ceph, sent, keyring, files, paused, owed, again,
                   budget>>

\* ceph_broken is not decorated with it.  The relation is gone when it ends, and
\* with it what the unit has published.
PostBroken ==
    /\ run.step = "post" /\ run.hook = "ceph-broken"
    /\ related' = FALSE /\ sent' = NoRequest
    /\ run' = NoRun
    /\ UNCHANGED <<opts, joined, ready, seen, answer, done, keyring, files, up,
                   saw, paused, owed, again, budget>>

\* The request is published when the hook ends; one that is there already and
\* equal stays, whether ceph has answered it or not.
Send ==
    /\ run.step = "send"
    /\ sent' = run.ask
    /\ answer' = [m \in Mon |->
                     [answer[m] EXCEPT !.fresh = @ /\ sent = run.ask]]
    /\ run' = NoRun
    /\ UNCHANGED <<opts, related, joined, ready, seen, done, keyring, files, up,
                   saw, paused, owed, again, budget>>

\* A command fails or the agent dies: the hook is run again.
Fail ==
    /\ ~Idle
    /\ budget.troubles > 0
    /\ budget' = [budget EXCEPT !.troubles = @ - 1]
    /\ again' = run.hook
    /\ run' = NoRun
    /\ UNCHANGED <<opts, ceph, unit, owed>>

Unit == \/ CephChanged \/ ConfigChanged \/ CephBroken
        \/ Write \/ RestartVolume \/ Post \/ PostBroken \/ Send

Next == \/ Unit \/ Fail \/ Pause \/ Resume \/ RemoveRelation
        \/ \E m \in Mon : \/ Join(m) \/ Publish(m) \/ Deliver(m) \/ Leave(m)
                          \/ \E ok \in BOOLEAN : Reply(m, ok)
        \/ \E r \in Request : SetOptions(r)

Spec == Init /\ [][Next]_vars

\* Juju runs the hooks that it owes and shows ceph what the unit publishes; the
\* units of ceph publish the key, and answer or refuse what they are shown.
FairSpec ==
    /\ Spec
    /\ WF_vars(Unit)
    /\ \A m \in Mon : /\ WF_vars(Publish(m))
                      /\ WF_vars(Deliver(m))
                      /\ WF_vars(Reply(m, TRUE) \/ Reply(m, FALSE))

-----------------------------------------------------------------------------
(* Properties. *)

TypeOK ==
    /\ opts \in Request
    /\ related \in BOOLEAN
    /\ joined \subseteq Mon
    /\ ready \subseteq joined
    /\ seen \in [Mon -> Request \cup {NoRequest}]
    /\ answer \in [Mon -> Answer]
    /\ done \subseteq Request
    /\ sent \in Request \cup {NoRequest}
    /\ keyring \in BOOLEAN
    /\ backend \in BOOLEAN /\ hosts \subseteq Mon
    /\ up \in BOOLEAN /\ paused \in BOOLEAN
    /\ saw \subseteq done
    /\ owed \subseteq Hooks
    /\ again \in Hooks \cup {"none"}
    /\ run \in Run
    /\ budget \in [sets : Nat, troubles : Nat]

\* "Ensure that cinder-volume is restarted since only now can we guarantee that
\* ceph resources are ready" (ceph_changed): once ceph has answered what the
\* unit asks for and no hook is left, cinder-volume was started after ceph had
\* carried it out, whatever failed, changed or was paused in between.
AnsweredMeansRestarted ==
    Quiet /\ ~paused =>
        \A m \in joined : answer[m].ok /\ answer[m].fresh /\ answer[m].id = sent
                              => up /\ sent \in saw

\* The hook takes a request for complete only when ceph has carried out what the
\* options of now call for, however old the answers are that it reads.
CompleteMeansDone == run.step = "restart" => run.ask \in done

\* cinder-volume runs on what ceph has made ready, in the hook and after it.
CephIsAwaited == CompleteMeansDone /\ AnsweredMeansRestarted

\* Between hooks, the keyring is there whenever ceph can be reached, and it does
\* not outlive the relation, however hooks fail and relations come and go.
KeyringFollowsRelation ==
    Quiet => (CredsComplete => keyring) /\ (keyring => related)

Refused == \E m \in joined : answer[m].id = sent /\ ~answer[m].ok
Stale   == \E m \in joined : answer[m].id = sent /\ ~answer[m].fresh

\* A request that is not refused, and that no older answer fits, is carried out
\* and picked up by cinder-volume, unless another takes its place, ceph goes or
\* the unit is paused.
EveryRequestIsServed ==
    \A r \in Request :
        sent = r /\ ~Stale ~> \/ r \in saw
                              \/ sent # r \/ joined = {} \/ Refused \/ paused
=============================================================================
