------------------------- MODULE CephBroker_proofs --------------------------
(***************************************************************************)
(* What holds of CephBroker for any units of ceph, any requests and any    *)
(* number of changes, failures, refusals, departures and pauses.           *)
(***************************************************************************)
EXTENDS CephBroker, TLAPS

\* Juju owes the handler of ceph-relation-changed, or runs it again.
ChangedIsOwed == "ceph-changed" \in owed \cup {again}

\* The hook that executes restarts cinder-volume, or replaces the request.
Handles == /\ run.hook = "ceph-changed"
           /\ \/ run.step \in {"write", "restart"}
              \/ run.step = "send" /\ run.ask # sent

\* Every answer to the present request has been picked up or will be.
Pending ==
    \A m \in joined : answer[m].ok /\ answer[m].fresh /\ answer[m].id = sent
        => sent \in saw \/ paused \/ ChangedIsOwed \/ Handles

\* What a hook that executes has established.
RunInv ==
    /\ Idle => run.hook = "none"
    /\ ~Idle => run.hook # "none" /\ again = "none"
    /\ run.step \in {"send", "restart"} => run.hook = "ceph-changed"
    /\ run.step # "idle" => run.ask \in Request
    /\ run.hook = "ceph-changed" /\ run.step \in {"write", "restart"}
           => run.ask \in done

\* The relation, the keyring and the hook that deletes it.
KeyInv ==
    /\ joined # {} => related
    /\ "ceph-broken" \in owed \cup {again, run.hook} => joined = {}
    /\ run.hook = "ceph-broken" => ~keyring
    /\ keyring => related
    /\ CredsComplete => keyring \/ ChangedIsOwed

BrokerInv ==
    /\ TypeOK
    /\ \A m \in Mon : answer[m].ok => answer[m].id \in done /\ m \in ready
    /\ up \/ paused
    /\ RunInv
    /\ KeyInv
    /\ Pending

LEMMA NoRunIsRun == NoRun \in Run /\ NoRun.step = "idle" /\ NoRun.hook = "none"
BY DEF NoRun, Run, Hooks

\* What a hook starts with.
LEMMA StartedIsRun ==
    ASSUME TypeOK, NEW h \in Hooks, NEW s \in {"write", "send"}
    PROVE  /\ Started(h, s) \in Run
           /\ Started(h, s).hook = h /\ Started(h, s).step = s
           /\ Started(h, s).ask = opts
BY DEF Started, Run, TypeOK

\* The events of ceph and of the operator preserve the types and the invariant.
LEMMA WorldPreserves ==
    ASSUME BrokerInv,
           \/ \E m \in Mon : \/ Join(m) \/ Publish(m) \/ Deliver(m) \/ Leave(m)
                             \/ \E ok \in BOOLEAN : Reply(m, ok)
           \/ RemoveRelation \/ Pause \/ Resume
           \/ \E r \in Request : SetOptions(r)
    PROVE  BrokerInv'
<1> USE CephBrokerAssumption
<1>1. ASSUME NEW m \in Mon, Join(m) PROVE BrokerInv'
  <2>1. TypeOK'
    BY <1>1 DEF Join, BrokerInv, TypeOK, unit, files, Hooks
  <2>2. RunInv' /\ KeyInv'
    BY <1>1 DEF Join, BrokerInv, RunInv, KeyInv, TypeOK, CredsComplete,
                ChangedIsOwed, Idle, unit, files
  <2>3. Pending'
    BY <1>1 DEF Join, Pending, ChangedIsOwed, unit, files
  <2> QED BY <1>1, <2>1, <2>2, <2>3 DEF Join, BrokerInv, unit, files
<1>2. ASSUME NEW m \in Mon, Publish(m) PROVE BrokerInv'
  <2>1. TypeOK'
    BY <1>2 DEF Publish, BrokerInv, TypeOK, unit, files, Hooks
  <2>2. RunInv' /\ KeyInv'
    BY <1>2 DEF Publish, BrokerInv, RunInv, KeyInv, TypeOK, CredsComplete,
                ChangedIsOwed, Idle, unit, files
  <2>3. Pending'
    BY <1>2 DEF Publish, Pending, ChangedIsOwed, unit, files
  <2> QED BY <1>2, <2>1, <2>2, <2>3 DEF Publish, BrokerInv, unit, files
<1>3. ASSUME NEW m \in Mon, Deliver(m) PROVE BrokerInv'
  <2>1. TypeOK'
    BY <1>3 DEF Deliver, BrokerInv, TypeOK, unit, files
  <2>2. UNCHANGED <<opts, related, joined, ready, answer, done, unit, owed,
                    again, run>>
    BY <1>3 DEF Deliver
  <2> QED BY <2>1, <2>2 DEF BrokerInv, RunInv, KeyInv, Pending, Handles,
                            CredsComplete, ChangedIsOwed, Idle, unit, files
<1>4. ASSUME NEW m \in Mon, Leave(m) PROVE BrokerInv'
  <2>1. TypeOK'
    BY <1>4 DEF Leave, Gone, BrokerInv, TypeOK, Answer, NoAnswer, unit, files
  <2>2. RunInv' /\ KeyInv'
    BY <1>4 DEF Leave, Gone, BrokerInv, RunInv, KeyInv, TypeOK, CredsComplete,
                ChangedIsOwed, Idle, unit, files
  <2>3. \A n \in Mon : answer'[n].ok => n # m /\ answer'[n] = answer[n]
    BY <1>4 DEF Leave, Gone, NoAnswer
  <2>4. Pending'
    BY <1>4, <2>3 DEF Leave, Gone, BrokerInv, TypeOK, Pending, Handles,
                      ChangedIsOwed, unit, files
  <2> QED BY <1>4, <2>1, <2>2, <2>3, <2>4 DEF Leave, Gone, BrokerInv, unit,
                                              files
<1>5. ASSUME NEW m \in Mon, NEW ok \in BOOLEAN, Reply(m, ok) PROVE BrokerInv'
  <2>1. seen[m] \in Request
    BY <1>5 DEF Reply, BrokerInv, TypeOK
  <2>2. answer'[m] = [id |-> seen[m], ok |-> ok, fresh |-> seen[m] = sent]
        /\ \A n \in Mon \ {m} : answer'[n] = answer[n]
    BY <1>5 DEF Reply, BrokerInv, TypeOK
  <2>3. done' \subseteq Request /\ done \subseteq done' /\ (ok => seen[m] \in done')
    BY <1>5, <2>1 DEF Reply, BrokerInv, TypeOK
  <2>4. TypeOK'
    <3>1. answer' \in [Mon -> Answer]
      BY <1>5, <2>1 DEF Reply, BrokerInv, TypeOK, Answer
    <3>2. budget' \in [sets : Nat, troubles : Nat]
      BY <1>5 DEF Reply, BrokerInv, TypeOK
    <3> QED BY <1>5, <2>3, <3>1, <3>2 DEF Reply, BrokerInv, TypeOK, unit, files,
                                          Hooks
  <2>5. RunInv' /\ KeyInv'
    BY <1>5, <2>3 DEF Reply, BrokerInv, RunInv, KeyInv, CredsComplete,
                      ChangedIsOwed, Idle, unit, files
  <2>6. Pending'
    BY <1>5 DEF Reply, Pending, ChangedIsOwed
  <2>7. \A n \in Mon : answer'[n].ok => answer'[n].id \in done' /\ n \in ready'
    BY <1>5, <2>2, <2>3 DEF Reply, BrokerInv
  <2> QED BY <1>5, <2>4, <2>5, <2>6, <2>7 DEF Reply, BrokerInv, unit
<1>6. CASE RemoveRelation
  <2>1. TypeOK'
    BY <1>6 DEF RemoveRelation, Gone, BrokerInv, TypeOK, Answer, NoAnswer, unit,
                files, Hooks
  <2>2. joined' = {} /\ ready' = {}
    BY <1>6 DEF RemoveRelation, Gone, BrokerInv, TypeOK
  <2>3. RunInv' /\ KeyInv'
    BY <1>6, <2>2 DEF RemoveRelation, Gone, BrokerInv, RunInv, KeyInv,
                      CredsComplete, Idle, unit, files
  <2>4. \A n \in Mon : ~answer'[n].ok
    BY <1>6 DEF RemoveRelation, Gone, NoAnswer
  <2>5. Pending'
    BY <2>2 DEF Pending
  <2> QED BY <1>6, <2>1, <2>3, <2>4, <2>5 DEF RemoveRelation, BrokerInv, unit
<1>7. CASE Pause
  <2>1. TypeOK'
    <3>1. budget' \in [sets : Nat, troubles : Nat]
      BY <1>7 DEF Pause, BrokerInv, TypeOK
    <3>2. UNCHANGED <<opts, related, joined, ready, seen, answer, done, sent,
                      keyring, backend, hosts, saw, owed, again, run>>
          /\ up' = FALSE /\ paused' = TRUE
      BY <1>7 DEF Pause, ceph, files
    <3> QED BY <3>1, <3>2 DEF BrokerInv, TypeOK
  <2>3. RunInv' /\ KeyInv'
    BY <1>7 DEF Pause, BrokerInv, RunInv, KeyInv, CredsComplete,
                ChangedIsOwed, Idle, ceph
  <2>2. Pending'
    BY <1>7 DEF Pause, Pending
  <2> QED BY <1>7, <2>1, <2>2, <2>3 DEF Pause, BrokerInv, ceph
<1>8. CASE Resume
  <2>1. TypeOK' /\ RunInv' /\ KeyInv'
    BY <1>8 DEF Resume, BrokerInv, TypeOK, RunInv, KeyInv, CredsComplete,
                ChangedIsOwed, Idle, ceph, files
  <2>2. Pending'
    BY <1>8 DEF Resume, BrokerInv, TypeOK, Pending, ceph
  <2> QED BY <1>8, <2>1, <2>2 DEF Resume, BrokerInv, ceph
<1>9. ASSUME NEW r \in Request, SetOptions(r) PROVE BrokerInv'
  <2>1. TypeOK'
    BY <1>9 DEF SetOptions, BrokerInv, TypeOK, ceph, unit, files, Hooks
  <2>2. RunInv' /\ KeyInv' /\ Pending'
    BY <1>9 DEF SetOptions, BrokerInv, RunInv, KeyInv, Pending, Handles,
                CredsComplete, ChangedIsOwed, Idle, ceph, unit, files
  <2> QED BY <1>9, <2>1, <2>2 DEF SetOptions, BrokerInv, ceph, unit
<1> QED BY <1>1, <1>2, <1>3, <1>4, <1>5, <1>6, <1>7, <1>8, <1>9

\* Which hook Juju starts, and what it owes afterwards.
LEMMA DispatchTakesOne ==
    ASSUME BrokerInv, NEW h \in Hooks, Dispatch(h)
    PROVE  /\ Idle /\ run.hook = "none" /\ h \in owed \cup {again}
           /\ again' = "none" /\ owed' \subseteq owed
           /\ ChangedIsOwed /\ h # "ceph-changed" => ChangedIsOwed'
           /\ "ceph-broken" \in owed' => "ceph-broken" \in owed
BY DEF Dispatch, BrokerInv, RunInv, ChangedIsOwed, Hooks

\* The hooks preserve the types and the invariant.
LEMMA HooksPreserve ==
    ASSUME BrokerInv, Unit \/ Fail
    PROVE  BrokerInv'
<1> USE CephBrokerAssumption
<1>0. run \in Run /\ opts \in Request /\ Hooks = {"ceph-changed", "ceph-broken",
                                                  "config-changed"}
  BY DEF BrokerInv, TypeOK, Hooks
<1>1. CASE CephChanged
  <2>1. /\ Idle /\ run.hook = "none" /\ "ceph-changed" \in owed \cup {again}
        /\ again' = "none" /\ owed' \subseteq owed
    BY <1>1, <1>0, DispatchTakesOne DEF CephChanged
  <2>2. UNCHANGED <<opts, related, joined, ready, seen, answer, done, sent,
                    backend, hosts, up, saw, paused, budget>>
    BY <1>1 DEF CephChanged, ceph, files
  <2>3. CASE ~CredsComplete
    <3>1. run' = NoRun /\ keyring' = keyring
      BY <1>1, <2>3 DEF CephChanged, BrokerInv, TypeOK
    <3>2. TypeOK'
      BY <2>1, <2>2, <3>1, NoRunIsRun DEF BrokerInv, TypeOK
    <3>3. RunInv' /\ KeyInv'
      BY <2>1, <2>2, <2>3, <3>1, NoRunIsRun
         DEF BrokerInv, RunInv, KeyInv, CredsComplete, Idle
    <3>4. Pending'
      BY <2>2, <2>3 DEF BrokerInv, TypeOK, Pending, CredsComplete
    <3> QED BY <2>2, <3>2, <3>3, <3>4 DEF BrokerInv
  <2>4. CASE CredsComplete
    <3> DEFINE step == IF IsRequestComplete(opts) THEN "write" ELSE "send"
    <3>1. run' = Started("ceph-changed", step) /\ keyring' = TRUE
      BY <1>1, <2>4 DEF CephChanged
    <3>2. /\ run' \in Run /\ run'.hook = "ceph-changed" /\ run'.step = step
          /\ run'.ask = opts
      BY <1>0, <3>1, StartedIsRun DEF BrokerInv
    <3>3. TypeOK'
      BY <2>1, <2>2, <3>1, <3>2 DEF BrokerInv, TypeOK
    <3>4. IsRequestComplete(opts) => opts \in done
      BY DEF IsRequestComplete, BrokerInv, TypeOK
    <3>5. RunInv'
      BY <1>0, <2>1, <2>2, <3>2, <3>4 DEF RunInv, Idle
    <3>6. KeyInv'
      BY <2>1, <2>2, <2>4, <3>1, <3>2 DEF BrokerInv, KeyInv, CredsComplete
    <3>7. Pending'
      BY <2>2, <3>2 DEF Pending, Handles, IsRequestComplete
    <3> QED BY <2>2, <3>3, <3>5, <3>6, <3>7 DEF BrokerInv
  <2> QED BY <2>3, <2>4
<1>2. CASE ConfigChanged
  <2>1. /\ Idle /\ run.hook = "none"
        /\ again' = "none" /\ owed' \subseteq owed
        /\ ChangedIsOwed => ChangedIsOwed'
    BY <1>2, <1>0, DispatchTakesOne DEF ConfigChanged
  <2>2. UNCHANGED <<opts, related, joined, ready, seen, answer, done, sent,
                    keyring, backend, hosts, up, saw, paused, budget>>
    BY <1>2 DEF ConfigChanged, ceph, unit, files
  <2>3. /\ run' \in Run
        /\ run'.hook \in {"none", "config-changed"}
        /\ run'.step \in {"idle", "write"}
        /\ run'.step = "idle" <=> run'.hook = "none"
        /\ run'.step = "write" => run'.ask = opts
    BY <1>2, <1>0, NoRunIsRun, StartedIsRun DEF ConfigChanged, BrokerInv
  <2>4. TypeOK'
    BY <2>1, <2>2, <2>3 DEF BrokerInv, TypeOK
  <2>5. RunInv'
    BY <1>0, <2>1, <2>2, <2>3 DEF RunInv, Idle
  <2>6. KeyInv'
    BY <2>1, <2>2, <2>3 DEF BrokerInv, KeyInv, CredsComplete
  <2>7. Pending'
    BY <2>1, <2>2 DEF BrokerInv, RunInv, Pending, Handles, Idle
  <2> QED BY <2>2, <2>4, <2>5, <2>6, <2>7 DEF BrokerInv
<1>3. CASE CephBroken
  <2>1. /\ Idle /\ run.hook = "none" /\ "ceph-broken" \in owed \cup {again}
        /\ again' = "none" /\ owed' \subseteq owed
    BY <1>3, <1>0, DispatchTakesOne DEF CephBroken
  <2>2. UNCHANGED <<opts, related, joined, ready, seen, answer, done, sent,
                    backend, hosts, up, saw, paused, budget>>
    BY <1>3 DEF CephBroken, ceph, files
  <2>3. /\ run' \in Run /\ run'.hook = "ceph-broken" /\ run'.step = "write"
        /\ run'.ask = opts /\ keyring' = FALSE
    BY <1>3, <1>0, StartedIsRun DEF CephBroken, BrokerInv
  <2>4. joined = {} /\ ~CredsComplete'
    BY <2>1, <2>2 DEF BrokerInv, KeyInv, CredsComplete
  <2>5. TypeOK'
    BY <2>1, <2>2, <2>3 DEF BrokerInv, TypeOK
  <2>6. RunInv'
    BY <1>0, <2>1, <2>2, <2>3 DEF RunInv, Idle
  <2>7. KeyInv'
    BY <2>2, <2>3, <2>4 DEF KeyInv
  <2>8. Pending'
    BY <2>2, <2>4 DEF Pending
  <2> QED BY <2>2, <2>5, <2>6, <2>7, <2>8 DEF BrokerInv
<1>4. CASE Write
  <2>1. /\ run.step = "write" /\ run' \in Run /\ run'.hook = run.hook
        /\ run'.ask = run.ask
        /\ run'.step = IF run.hook = "ceph-changed" THEN "restart" ELSE "post"
    BY <1>4, <1>0 DEF Write, Run
  <2>2. UNCHANGED <<opts, related, joined, ready, seen, answer, done, sent,
                    keyring, up, saw, paused, owed, again, budget>>
    BY <1>4 DEF Write, ceph
  <2>3. backend' \in BOOLEAN /\ hosts' \subseteq Mon
    BY <1>4, <1>0 DEF Write, BrokerInv, TypeOK, Run
  <2>4. TypeOK'
    BY <2>1, <2>2, <2>3 DEF BrokerInv, TypeOK
  <2>5. RunInv' /\ KeyInv'
    BY <2>1, <2>2 DEF BrokerInv, RunInv, KeyInv, Idle, CredsComplete,
                      ChangedIsOwed
  <2>6. Pending'
    BY <2>1, <2>2 DEF BrokerInv, Pending, Handles, ChangedIsOwed
  <2> QED BY <2>2, <2>4, <2>5, <2>6 DEF BrokerInv
<1>5. CASE RestartVolume
  <2>1. /\ run.step = "restart" /\ run' \in Run /\ run'.hook = run.hook
        /\ run'.ask = run.ask /\ run'.step = "post"
    BY <1>5, <1>0 DEF RestartVolume, Run
  <2>2. UNCHANGED <<opts, related, joined, ready, seen, answer, done, sent,
                    keyring, backend, hosts, paused, owed, again, budget>>
    BY <1>5 DEF RestartVolume, ceph, files
  <2>3. \/ paused /\ up' = up /\ saw' = saw
        \/ up' = TRUE /\ saw' = done
    BY <1>5 DEF RestartVolume, Restarted
  <2>4. TypeOK'
    BY <2>1, <2>2, <2>3 DEF BrokerInv, TypeOK
  <2>5. RunInv' /\ KeyInv'
    BY <2>1, <2>2 DEF BrokerInv, RunInv, KeyInv, Idle, CredsComplete,
                      ChangedIsOwed
  <2>6. Pending'
    BY <2>2, <2>3 DEF BrokerInv, TypeOK, Pending
  <2> QED BY <2>2, <2>3, <2>4, <2>5, <2>6 DEF BrokerInv
<1>6. CASE Post
  <2>1. run.step = "post" /\ run' = NoRun
    BY <1>6 DEF Post
  <2>2. UNCHANGED <<opts, related, joined, ready, seen, answer, done, sent,
                    keyring, backend, hosts, paused, owed, again, budget>>
    BY <1>6 DEF Post, ceph, files
  <2>3. \/ up' = up /\ saw' = saw
        \/ up' = TRUE /\ saw' = done
    BY <1>6 DEF Post, Restarted
  <2>4. TypeOK'
    BY <2>1, <2>2, <2>3, NoRunIsRun DEF BrokerInv, TypeOK
  <2>5. RunInv' /\ KeyInv'
    BY <2>1, <2>2, NoRunIsRun DEF BrokerInv, RunInv, KeyInv, Idle,
                                  CredsComplete, ChangedIsOwed
  <2>6. Pending'
    BY <2>1, <2>2, <2>3 DEF BrokerInv, TypeOK, Pending, Handles, ChangedIsOwed
  <2> QED BY <2>2, <2>3, <2>4, <2>5, <2>6 DEF BrokerInv
<1>7. CASE PostBroken
  <2>1. run.step = "post" /\ run.hook = "ceph-broken" /\ run' = NoRun
        /\ related' = FALSE /\ sent' = NoRequest
    BY <1>7 DEF PostBroken
  <2>2. UNCHANGED <<opts, joined, ready, seen, answer, done, keyring, backend,
                    hosts, up, saw, paused, owed, again, budget>>
    BY <1>7 DEF PostBroken, files
  <2>3. joined = {} /\ ~keyring /\ ~CredsComplete'
    BY <2>1, <2>2 DEF BrokerInv, KeyInv, CredsComplete
  <2>4. TypeOK'
    BY <2>1, <2>2, NoRunIsRun DEF BrokerInv, TypeOK
  <2>5. RunInv' /\ KeyInv'
    BY <2>1, <2>2, <2>3, NoRunIsRun DEF BrokerInv, RunInv, KeyInv, Idle
  <2>6. Pending'
    BY <2>2, <2>3 DEF Pending
  <2> QED BY <2>2, <2>4, <2>5, <2>6 DEF BrokerInv
<1>8. CASE Send
  <2>1. run.step = "send" /\ run.hook = "ceph-changed" /\ run' = NoRun
        /\ sent' = run.ask /\ run.ask \in Request /\ again = "none"
    BY <1>8 DEF Send, BrokerInv, RunInv, Idle
  <2>2. UNCHANGED <<opts, related, joined, ready, seen, done, keyring, backend,
                    hosts, up, saw, paused, owed, again, budget>>
    BY <1>8 DEF Send, files
  <2>3. \A m \in Mon : /\ answer'[m] \in Answer
                       /\ answer'[m].id = answer[m].id
                       /\ answer'[m].ok = answer[m].ok
                       /\ answer'[m].fresh = (answer[m].fresh /\ sent = run.ask)
    BY <1>8 DEF Send, BrokerInv, TypeOK, Answer
  <2>4. TypeOK'
    <3>1. answer' \in [Mon -> Answer]
      BY <1>8, <2>3 DEF Send
    <3> QED BY <2>1, <2>2, <3>1, NoRunIsRun DEF BrokerInv, TypeOK
  <2>5. RunInv' /\ KeyInv'
    BY <2>1, <2>2, NoRunIsRun DEF BrokerInv, RunInv, KeyInv, Idle,
                                  CredsComplete, ChangedIsOwed
  <2>6. Pending'
    BY <2>1, <2>2, <2>3 DEF BrokerInv, TypeOK, Pending, Handles, ChangedIsOwed
  <2>7. \A m \in Mon : answer'[m].ok => answer'[m].id \in done' /\ m \in ready'
    BY <2>2, <2>3 DEF BrokerInv
  <2> QED BY <2>2, <2>4, <2>5, <2>6, <2>7 DEF BrokerInv
<1>9. CASE Fail
  <2>1. ~Idle /\ again' = run.hook /\ run' = NoRun /\ again = "none"
        /\ run.hook \in Hooks
    BY <1>9, <1>0 DEF Fail, BrokerInv, RunInv, Run
  <2>2. UNCHANGED <<opts, related, joined, ready, seen, answer, done, sent,
                    keyring, backend, hosts, up, saw, paused, owed>>
    BY <1>9 DEF Fail, ceph, unit, files
  <2>3. budget' \in [sets : Nat, troubles : Nat]
    BY <1>9 DEF Fail, BrokerInv, TypeOK
  <2>4. TypeOK'
    BY <2>1, <2>2, <2>3, NoRunIsRun DEF BrokerInv, TypeOK
  <2>5. RunInv' /\ KeyInv'
    BY <2>1, <2>2, NoRunIsRun DEF BrokerInv, RunInv, KeyInv, Idle,
                                  CredsComplete, ChangedIsOwed
  <2>6. Pending'
    BY <2>1, <2>2 DEF BrokerInv, Pending, Handles, ChangedIsOwed
  <2> QED BY <2>2, <2>4, <2>5, <2>6 DEF BrokerInv
<1> QED BY <1>1, <1>2, <1>3, <1>4, <1>5, <1>6, <1>7, <1>8, <1>9 DEF Unit

\* The invariant is inductive.
LEMMA BrokerInductive == Spec => []BrokerInv
<1>1. Init => BrokerInv
  <2> SUFFICES ASSUME Init PROVE BrokerInv
    OBVIOUS
  <2>1. TypeOK
    BY NoRunIsRun, CephBrokerAssumption DEF Init, TypeOK, Answer, NoAnswer
  <2>2. RunInv /\ KeyInv /\ Pending
    BY NoRunIsRun DEF Init, RunInv, KeyInv, Pending, CredsComplete, Idle
  <2> QED BY <2>1, <2>2 DEF Init, BrokerInv, NoAnswer
<1>2. BrokerInv /\ [Next]_vars => BrokerInv'
  <2> SUFFICES ASSUME BrokerInv, [Next]_vars PROVE BrokerInv'
    OBVIOUS
  <2>1. CASE UNCHANGED vars
    BY <2>1 DEF vars, BrokerInv, TypeOK, RunInv, KeyInv, Pending, Handles,
                CredsComplete, ChangedIsOwed, Idle
  <2> QED BY <2>1, WorldPreserves, HooksPreserve DEF Next
<1> QED BY <1>1, <1>2, PTL DEF Spec

\* The variables keep their types, for any units, requests and bounds.
THEOREM TypeCorrect == Spec => []TypeOK
<1>1. BrokerInv => TypeOK
  BY DEF BrokerInv
<1> QED BY <1>1, BrokerInductive, PTL

\* A hook of ceph-relation-changed takes a request for complete only if ceph has
\* carried out what the options called for when the hook started.
THEOREM CompletionIsReal == Spec => []CompleteMeansDone
<1>1. BrokerInv => CompleteMeansDone
  BY DEF BrokerInv, RunInv, CompleteMeansDone
<1> QED BY <1>1, BrokerInductive, PTL

\* Whatever fails, is refused, leaves or is paused: once ceph has answered the
\* request of a unit and no hook is left, cinder-volume runs and was started
\* after ceph had carried the request out.
THEOREM AnsweredUnitsAreRestarted == Spec => []AnsweredMeansRestarted
<1>1. BrokerInv => AnsweredMeansRestarted
  BY DEF BrokerInv, RunInv, Pending, Handles, ChangedIsOwed, Quiet, Idle,
         AnsweredMeansRestarted
<1> QED BY <1>1, BrokerInductive, PTL

\* cinder-volume runs on what ceph has made ready, in the hook and after it.
THEOREM CephIsAwaitedAlways == Spec => []CephIsAwaited
<1>1. CompleteMeansDone /\ AnsweredMeansRestarted => CephIsAwaited
  BY DEF CephIsAwaited
<1> QED BY <1>1, CompletionIsReal, AnsweredUnitsAreRestarted, PTL

\* Between hooks, the keyring is there if ceph can be reached, and does not
\* outlive the relation.
THEOREM KeyringIsOfRelation == Spec => []KeyringFollowsRelation
<1>1. BrokerInv => KeyringFollowsRelation
  BY DEF BrokerInv, KeyInv, ChangedIsOwed, Quiet, KeyringFollowsRelation
<1> QED BY <1>1, BrokerInductive, PTL
=============================================================================
