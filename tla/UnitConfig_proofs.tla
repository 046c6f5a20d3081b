------------------------- MODULE UnitConfig_proofs -------------------------
(***************************************************************************)
(* Proofs about UnitConfig, for any number of changes, operations and      *)
(* failures.                                                               *)
(***************************************************************************)
EXTENDS UnitConfig, FiniteSetTheorems, TLAPS

USE UnitConfigAssumption DEF UnitConfigAssumption

\* Sets of services are finite: their number is a natural number, and it is
\* zero for the empty set only.
LEMMA ServicesAreFinite ==
    \A S \in SUBSET Service : /\ Cardinality(S) \in Nat
                              /\ Cardinality(S) = 0 <=> S = {}
<1>1. IsFiniteSet({"cinder-volume"})
  BY FS_Singleton
<1>2. IsFiniteSet({"cinder-volume"} \cup {"apache2"})
  BY <1>1, FS_AddElement
<1>3. Service = {"cinder-volume"} \cup {"apache2"}
  BY DEF Service
<1>4. IsFiniteSet(Service)
  BY <1>2, <1>3
<1> SUFFICES ASSUME NEW S \in SUBSET Service
             PROVE  Cardinality(S) \in Nat /\ (Cardinality(S) = 0 <=> S = {})
  OBVIOUS
<1>5. IsFiniteSet(S)
  BY <1>4, FS_Subset
<1> QED BY <1>5, FS_CardinalityType, FS_EmptySet

\* The record of an execution that starts, or of none, is well formed.
LEMMA RunsAreTyped ==
    ASSUME want \in [Source -> Nat], partial \in SUBSET Guarded,
           file \in [File -> Contents]
    PROVE  /\ NoRun \in Run
           /\ \A op \in Hooks \cup UpgradeHooks \cup Actions : \A s \in Step :
                 \A w \in BOOLEAN : Started(op, s, w) \in Run
           /\ ActionGoesOn \in Run
<1>1. NoFiles \in [File -> Contents] /\ [s \in Source |-> 0] \in Contents
  BY DEF NoFiles, Contents
<1>2. NoRun \in Run
  BY <1>1 DEF NoRun, Run, Step
<1>3. ASSUME NEW op \in Hooks \cup UpgradeHooks \cup Actions, NEW s \in Step,
             NEW w \in BOOLEAN
      PROVE  Started(op, s, w) \in Run
  <2>1. want \in Contents
    BY DEF Contents
  <2>2. (IF w THEN file ELSE NoFiles) \in [File -> Contents]
    BY <1>1
  <2>3. (op \in Actions) \in BOOLEAN
    OBVIOUS
  <2> DEFINE before == IF w THEN file ELSE NoFiles
             action == op \in Actions
  <2>4. Started(op, s, w) =
           [op |-> op, step |-> s, action |-> action, snap |-> want,
            partial |-> partial, before |-> before, wrapped |-> w, todo |-> {}]
    BY DEF Started
  <2> HIDE DEF before, action
  <2>5. action \in BOOLEAN /\ before \in [File -> Contents]
    BY <2>2, <2>3 DEF before, action
  <2> QED BY <2>1, <2>4, <2>5 DEF Run
<1>4. ActionGoesOn \in Run
  <2>1. "config-changed" \in Hooks /\ "write" \in Step
    BY DEF Hooks, Step
  <2>2. Started("config-changed", "write", TRUE) \in Run
    BY <1>3, <2>1
  <2> QED BY <2>2 DEF ActionGoesOn, Run
<1> QED BY <1>2, <1>3, <1>4

\* What config_changed starts with when the openstack-upgrade action calls it.
LEMMA ActionGoesOnIs ==
    /\ ActionGoesOn.op = "config-changed" /\ ActionGoesOn.step = "write"
    /\ ActionGoesOn.wrapped = TRUE /\ ActionGoesOn.before = file
    /\ ActionGoesOn.todo = {}
BY DEF ActionGoesOn, Started

\* Only the hooks of relations return early.
LEMMA HooksReturn ==
    ASSUME TypeOK, ReturnsEarly(run.op)
    PROVE  run.op \in {"relation-changed", "identity-changed"}
<1>1. PICK t \in run.partial : run.op = HookOf[t]
  BY DEF ReturnsEarly
<1>2. t \in Guarded
  BY DEF TypeOK, Run
<1> QED BY <1>1, <1>2 DEF Guarded, HookOf, Source

\* An execution that goes on to another step, or to other services, is still one.
LEMMA RunsGoOn ==
    ASSUME NEW r \in Run
    PROVE  /\ \A s \in Step : [r EXCEPT !.step = s] \in Run
           /\ \A T \in SUBSET Service : [r EXCEPT !.todo = T] \in Run
           /\ \A s \in Step : \A T \in SUBSET Service :
                 [r EXCEPT !.step = s, !.todo = T] \in Run
<1>1. \A s \in Step : [r EXCEPT !.step = s] \in Run
  BY DEF Run
<1>2. \A T \in SUBSET Service : [r EXCEPT !.todo = T] \in Run
  BY DEF Run
<1>3. ASSUME NEW s \in Step, NEW T \in SUBSET Service
      PROVE  [r EXCEPT !.step = s, !.todo = T] \in Run
  <2>1. [[r EXCEPT !.step = s] EXCEPT !.todo = T] \in Run
    BY <1>1 DEF Run
  <2> QED BY <2>1
<1> QED BY <1>1, <1>2, <1>3

\* What is rendered from a snapshot has the type of a file's contents.
LEMMA RenderedIsContents ==
    \A f \in File : \A snap \in Contents : Rendered(f, snap) \in Contents
BY DEF Rendered, Contents

\* A restart leaves services that are up or down and have read some files.
LEMMA RestartedType ==
    ASSUME TypeOK, NEW S \in SUBSET Service, NEW b \in BOOLEAN,
           Restarted(S, b)
    PROVE  /\ up' \in [Service -> BOOLEAN]
           /\ masked' \in [Service -> BOOLEAN]
           /\ loaded' \in [Service -> [File -> Contents]]
<1>1. up' \in [Service -> BOOLEAN]
  BY ZenonT(30) DEF TypeOK, Restarted
<1>2. loaded' \in [Service -> [File -> Contents]]
  BY DEF TypeOK, Restarted
<1> QED BY <1>1, <1>2 DEF TypeOK, Restarted

\* The initial states have the right types.
LEMMA TypeCorrectInit == Init => TypeOK
<1> SUFFICES ASSUME Init PROVE TypeOK
  OBVIOUS
<1>1. NoFiles \in [File -> Contents] /\ want \in [Source -> Nat]
  BY DEF NoFiles, Contents, Init
<1>2. file \in [File -> Contents] /\ loaded \in [Service -> [File -> Contents]]
  BY <1>1 DEF Init
<1>3. run \in Run /\ partial \in SUBSET Guarded
  BY <1>1, <1>2, RunsAreTyped DEF Init
<1>4. /\ up \in [Service -> BOOLEAN]
      /\ masked \in [Service -> BOOLEAN]
  BY DEF Init
<1>5. budget \in [fails : Nat, ops : Nat, flaky : Nat]
  BY DEF Init
<1>6. /\ owed \subseteq Hooks \cup UpgradeHooks
      /\ failed \in Hooks \cup UpgradeHooks \cup {"none"}
      /\ paused \in BOOLEAN /\ upgrading \in BOOLEAN
  BY DEF Init
<1> QED BY <1>1, <1>2, <1>3, <1>4, <1>5, <1>6 DEF TypeOK

\* The variables keep their types: in particular no budget falls below 0, and
\* the hook in error is one that Juju will run again.
THEOREM TypeCorrect == Spec => []TypeOK
<1>1. Init => TypeOK
  BY TypeCorrectInit
<1>2. TypeOK /\ [Next]_vars => TypeOK'
  <2> SUFFICES ASSUME TypeOK, [Next]_vars PROVE TypeOK'
    OBVIOUS
  <2> USE RunsAreTyped DEF TypeOK
  <2>1. CASE UNCHANGED vars
    BY <2>1 DEF vars, services
  <2>2. ASSUME NEW s \in Source, Change(s) PROVE TypeOK'
    <3>1. HookOf[s] \in Hooks
      BY DEF HookOf, Source, Hooks
    <3>2. partial' \in SUBSET Guarded
      BY <2>2 DEF Change
    <3> QED BY <2>2, <3>1, <3>2 DEF Change, services
  <2>3. ASSUME NEW o \in Ops, Request(o) PROVE TypeOK'
    <3>1. budget' \in [fails : Nat, ops : Nat, flaky : Nat]
      BY <2>3 DEF Request
    <3>2. CASE o = "post-series-upgrade"
      <4>1. Restarted(Service, TRUE)
        BY <2>3, <3>2 DEF Request
      <4> QED BY <2>3, <3>1, <4>1, RestartedType DEF Request
    <3>3. CASE o # "post-series-upgrade"
      BY <2>3, <3>1, <3>3 DEF Request, services
    <3> QED BY <3>2, <3>3
  <2>4. ASSUME NEW o \in Ops, StartAction(o) PROVE TypeOK'
    <3>1. run' \in Run
      BY <2>4 DEF StartAction, Step
    <3>2. budget' \in [fails : Nat, ops : Nat, flaky : Nat]
      BY <2>4 DEF StartAction
    <3> QED BY <2>4, <3>1, <3>2 DEF StartAction, services
  <2>5. ASSUME NEW h \in Hooks, StartHook(h) PROVE TypeOK'
    <3>1. (Decorated(h) /\ ~paused) \in BOOLEAN
      BY Zenon DEF Decorated
    <3>2. run' \in Run
      BY <2>5, <3>1 DEF StartHook, Step
    <3> QED BY <2>5, <3>2 DEF StartHook, Dispatch, services
  <2>6. CASE UpgradeCharm
    <3>1. Restarted(Service, FALSE) \/ UNCHANGED services
      BY <2>6 DEF UpgradeCharm
    <3>2. /\ up' \in [Service -> BOOLEAN]
          /\ masked' \in [Service -> BOOLEAN]
          /\ loaded' \in [Service -> [File -> Contents]]
      BY <3>1, RestartedType DEF services
    <3> QED BY <2>6, <3>2 DEF UpgradeCharm, Dispatch
  <2>7. CASE PreSeriesUpgrade
    <3>1. run' \in Run
      BY <2>7 DEF PreSeriesUpgrade, Step, UpgradeHooks
    <3> QED BY <2>7, <3>1 DEF PreSeriesUpgrade, Dispatch, services
  <2>8. CASE PostSeriesUpgrade
    <3>1. run' \in Run
      BY <2>8 DEF PostSeriesUpgrade, Step, UpgradeHooks
    <3> QED BY <2>8, <3>1 DEF PostSeriesUpgrade, Dispatch, services
  <2>9. CASE Write
    <3>1. run.snap \in Contents
      BY DEF Run
    <3>2. file' \in [File -> Contents]
      BY <2>9, <3>1, RenderedIsContents DEF Write
    <3>3. run' \in Run
      BY <2>9, RunsGoOn DEF Write, Step
    <3> QED BY <2>9, <3>2, <3>3 DEF Write, services
  <2>10. CASE Post
    <3>1. /\ up' \in [Service -> BOOLEAN]
          /\ masked' \in [Service -> BOOLEAN]
          /\ loaded' \in [Service -> [File -> Contents]]
      <4>1. Restarted({"apache2"}, FALSE) \/ UNCHANGED services
        BY <2>10 DEF Post
      <4>2. {"apache2"} \in SUBSET Service
        BY DEF Service
      <4> QED BY <4>1, <4>2, RestartedType DEF services
    <3>2. \A T \in SUBSET Service :
             [run EXCEPT !.step = "restart", !.todo = T] \in Run
      BY RunsGoOn DEF Step
    <3>3. UNION {RestartMap[f] : f \in {g \in File :
                    run.wrapped /\ file[g] # run.before[g]}} \subseteq Service
      BY DEF RestartMap, Service
    <3>4. run' \in Run
      <4> DEFINE todo == UNION {RestartMap[f] : f \in {g \in File :
                                   run.wrapped /\ file[g] # run.before[g]}}
      <4>1. run' = IF todo = {} THEN NoRun
                   ELSE [run EXCEPT !.step = "restart", !.todo = todo]
        BY <2>10 DEF Post
      <4>2. todo \in SUBSET Service
        BY <3>3
      <4> HIDE DEF todo
      <4> QED BY <3>2, <4>1, <4>2
    <3> QED BY <2>10, <3>1, <3>4 DEF Post
  <2>11. ASSUME NEW x \in Service, Restart(x) PROVE TypeOK'
    <3>1. run' \in Run
      <4>1. [run EXCEPT !.todo = run.todo \ {x}] \in Run
        <5>1. run \in Run /\ run.todo \ {x} \in SUBSET Service
          BY DEF Run
        <5> QED BY <5>1, RunsGoOn
      <4> QED BY <2>11, <4>1 DEF Restart
    <3>2. Https(run.op) \in BOOLEAN /\ {x} \in SUBSET Service
      BY DEF Https
    <3>3. /\ up' \in [Service -> BOOLEAN]
          /\ masked' \in [Service -> BOOLEAN]
          /\ loaded' \in [Service -> [File -> Contents]]
      BY <2>11, <3>2, RestartedType DEF Restart
    <3> QED BY <2>11, <3>1, <3>3 DEF Restart
  <2>12. CASE StopServices
    <3>1. run' \in Run
      BY <2>12, RunsGoOn DEF StopServices, Step
    <3>2. PICK S \in SUBSET {x \in Service : up[x]} :
             Flaky(S) /\ up' = [x \in Service |-> x \in S]
      BY <2>12 DEF StopServices
    <3>3. budget' \in [fails : Nat, ops : Nat, flaky : Nat]
      BY <3>2, ServicesAreFinite DEF Flaky
    <3> QED BY <2>12, <3>1, <3>2, <3>3 DEF StopServices
  <2>13. CASE SetUnitPaused
    BY <2>13 DEF SetUnitPaused, services
  <2>14. CASE StartServices
    <3>1. run' \in Run
      BY <2>14, RunsGoOn DEF StartServices, Step
    <3>2. PICK S \in SUBSET {x \in Service : ~up[x]} :
             /\ Flaky(S)
             /\ up' = [x \in Service |-> x \notin S]
             /\ loaded' = [x \in Service |-> IF up[x] \/ x \in S
                                             THEN loaded[x] ELSE file]
      BY <2>14 DEF StartServices
    <3>3. budget' \in [fails : Nat, ops : Nat, flaky : Nat]
      BY <3>2, ServicesAreFinite DEF Flaky
    <3>4. loaded' \in [Service -> [File -> Contents]]
      BY <3>2
    <3> QED BY <2>14, <3>1, <3>2, <3>3, <3>4 DEF StartServices
  <2>15. CASE ClearUnitPaused
    <3>1. run' \in Run
      BY <2>15 DEF ClearUnitPaused
    <3>2. /\ owed' \subseteq Hooks \cup UpgradeHooks
          /\ failed' \in Hooks \cup UpgradeHooks \cup {"none"}
      BY <2>15 DEF ClearUnitPaused, Retried
    <3> QED BY <2>15, <3>1, <3>2 DEF ClearUnitPaused, services
  <2>16. CASE CycleServices
    <3>1. run' \in Run
      BY <2>16, RunsGoOn DEF CycleServices, Step, Hooks
    <3>2. CASE paused
      BY <2>16, <3>1, <3>2 DEF CycleServices
    <3>3. CASE ~paused
      <4>1. Restarted(Service, TRUE)
        BY <2>16, <3>3 DEF CycleServices
      <4> QED BY <2>16, <3>1, <4>1, RestartedType DEF CycleServices
    <3> QED BY <3>2, <3>3
  <2>17. CASE Fail
    <3>1. budget' \in [fails : Nat, ops : Nat, flaky : Nat]
      BY <2>17 DEF Fail
    <3> QED BY <2>17, <3>1 DEF Fail, Retried, services
  <2>18. CASE Return
    BY <2>18 DEF Return, services
  <2> QED BY <2>1, <2>2, <2>3, <2>4, <2>5, <2>6, <2>7, <2>8, <2>9, <2>10,
             <2>11, <2>12, <2>13, <2>14, <2>15, <2>16, <2>17, <2>18
          DEF Next, Hook, Proceed
<1> QED BY <1>1, <1>2, PTL DEF Spec

-----------------------------------------------------------------------------
(***************************************************************************)
(* No hook brings a paused unit up, as long as systemd does what it is     *)
(* told and no action is cut short.                                        *)
(***************************************************************************)

\* Every service is stopped and masked.
Down == \A x \in Service : ~up[x] /\ masked[x]

\* PausedStaysDown is not inductive: it does not say that the services are
\* masked, which is what keeps the restarts of upgrade-charm and of the host
\* from starting them, nor what holds while an action is under way.  A paused
\* unit is down from the moment the flag is about to be set until the moment
\* it is about to be cleared.
DownWhenPaused == /\ paused /\ run.step # "clear" => Down
                  /\ run.step = "flag" => Down

\* What is left of the bounds on failures only shrinks, so that what is
\* undisturbed has never been disturbed.
Bounded == budget.fails <= MaxFails /\ budget.flaky <= MaxFlaky

DownInv == TypeOK /\ Bounded /\ (Undisturbed => DownWhenPaused)

\* A restart does not touch services that are masked and down.
LEMMA MaskedStaysDown ==
    ASSUME NEW S, NEW b, Down, Restarted(S, b)
    PROVE  Down'
BY Zenon DEF Down, Restarted

\* A step that leaves the unit undisturbed started undisturbed, and was no
\* failure and no failed stop or start.
LEMMA UndisturbedBefore ==
    ASSUME TypeOK, Bounded, [Next]_vars
    PROVE  /\ Bounded'
           /\ Undisturbed' => /\ Undisturbed
                              /\ budget'.fails = budget.fails
                              /\ budget'.flaky = budget.flaky
<1> USE UnitConfigAssumption
<1>1. budget \in [fails : Nat, ops : Nat, flaky : Nat]
  BY DEF TypeOK
<1>2. ASSUME NEW S \in SUBSET Service, Flaky(S)
      PROVE  budget'.fails = budget.fails /\ budget'.flaky <= budget.flaky
  BY <1>1, <1>2, ServicesAreFinite DEF Flaky
<1>3. CASE budget' = budget
  BY <1>1, <1>3 DEF Bounded, Undisturbed
<1>4. CASE budget' = [budget EXCEPT !.ops = @ - 1]
  BY <1>1, <1>4 DEF Bounded, Undisturbed
<1>5. CASE Fail
  BY <1>1, <1>5 DEF Bounded, Undisturbed, Fail
<1>6. CASE StopServices
  <2>1. PICK S \in SUBSET Service : Flaky(S)
    BY <1>6 DEF StopServices
  <2>2. /\ budget'.fails = budget.fails
        /\ budget'.flaky = budget.flaky - Cardinality(S)
        /\ Cardinality(S) \in Nat
    BY <1>1, <2>1, ServicesAreFinite DEF Flaky
  <2> QED BY <1>1, <2>2 DEF Bounded, Undisturbed
<1>7. CASE StartServices
  <2>1. PICK S \in SUBSET Service : Flaky(S)
    BY <1>7 DEF StartServices
  <2>2. /\ budget'.fails = budget.fails
        /\ budget'.flaky = budget.flaky - Cardinality(S)
        /\ Cardinality(S) \in Nat
    BY <1>1, <2>1, ServicesAreFinite DEF Flaky
  <2> QED BY <1>1, <2>2 DEF Bounded, Undisturbed
<1>8. budget' = budget \/ budget' = [budget EXCEPT !.ops = @ - 1]
      \/ Fail \/ StopServices \/ StartServices
  BY Zenon DEF Next, vars, Change, Request, StartAction, Hook, StartHook,
     UpgradeCharm, PreSeriesUpgrade, PostSeriesUpgrade, Proceed, Return, Write, Post,
     Restart, SetUnitPaused, ClearUnitPaused, CycleServices
<1> QED BY <1>3, <1>4, <1>5, <1>6, <1>7, <1>8

\* The strengthened invariant is inductive.
LEMMA DownIsInductive == Spec => []DownInv
<1>1. Init => DownInv
  <2>1. Init => TypeOK
    BY TypeCorrectInit
  <2> QED BY <2>1, UnitConfigAssumption
          DEF Init, DownInv, NoRun, Bounded, DownWhenPaused
<1>2. DownInv /\ [Next]_vars /\ TypeOK' => DownInv'
  <2> SUFFICES ASSUME DownInv, [Next]_vars, TypeOK', Undisturbed'
               PROVE  DownWhenPaused'
    BY UndisturbedBefore DEF DownInv
  <2>0. /\ TypeOK /\ DownWhenPaused
        /\ budget'.fails = budget.fails /\ budget'.flaky = budget.flaky
    BY UndisturbedBefore DEF DownInv
  <2> USE <2>0 DEF DownWhenPaused
  <2>1. CASE UNCHANGED vars
    BY <2>1 DEF vars, services, Down
  <2>2. ASSUME NEW s \in Source, Change(s) PROVE DownWhenPaused'
    BY <2>2 DEF Change, services, Down
  <2>3. ASSUME NEW o \in Ops, Request(o) PROVE DownWhenPaused'
    <3>1. Down => Down'
      <4>1. CASE o = "post-series-upgrade"
        <5>1. Restarted(Service, TRUE)
          BY <2>3, <4>1 DEF Request
        <5> QED BY <5>1, MaskedStaysDown
      <4>2. CASE o # "post-series-upgrade"
        BY <2>3, <4>2 DEF Request, services, Down
      <4> QED BY <4>1, <4>2
    <3> QED BY <2>3, <3>1 DEF Request
  <2>4. ASSUME NEW o \in Ops, StartAction(o) PROVE DownWhenPaused'
    BY <2>4 DEF StartAction, services, Down, Started, Idle
  <2>5. ASSUME NEW h \in Hooks, StartHook(h) PROVE DownWhenPaused'
    BY <2>5 DEF StartHook, Dispatch, services, Down, Started, NoRun, Idle
  <2>6. CASE UpgradeCharm
    <3>1. Restarted(Service, FALSE) \/ UNCHANGED services
      BY <2>6 DEF UpgradeCharm
    <3>2. Down => Down'
      BY <3>1, MaskedStaysDown DEF services, Down
    <3> QED BY <2>6, <3>2 DEF UpgradeCharm, Dispatch
  <2>7. CASE PreSeriesUpgrade
    BY <2>7 DEF PreSeriesUpgrade, Dispatch, services, Down, Started, NoRun,
                Idle
  <2>8. CASE PostSeriesUpgrade
    BY <2>8 DEF PostSeriesUpgrade, Dispatch, services, Down, Started
  <2>9. CASE Write
    <3>1. run'.step # "flag"
      BY <2>9 DEF Write, TypeOK, Run
    <3> QED BY <2>9, <3>1 DEF Write, services, Down
  <2>10. CASE Post
    <3>1. Restarted({"apache2"}, FALSE) \/ UNCHANGED services
      BY <2>10 DEF Post
    <3>2. Down => Down'
      BY <3>1, MaskedStaysDown DEF services, Down
    <3>3. run'.step # "flag"
      BY <2>10 DEF Post, TypeOK, Run, NoRun
    <3> QED BY <2>10, <3>2, <3>3 DEF Post
  <2>11. ASSUME NEW x \in Service, Restart(x) PROVE DownWhenPaused'
    <3>1. Down => Down'
      BY <2>11, MaskedStaysDown DEF Restart
    <3>2. run'.step # "flag"
      BY <2>11 DEF Restart, TypeOK, Run, NoRun
    <3> QED BY <2>11, <3>1, <3>2 DEF Restart
  <2>12. CASE StopServices
    <3>1. PICK S \in SUBSET {x \in Service : up[x]} :
             Flaky(S) /\ up' = [x \in Service |-> x \in S]
      BY <2>12 DEF StopServices
    <3>2. Cardinality(S) \in Nat /\ (Cardinality(S) = 0 <=> S = {})
      <4>1. S \in SUBSET Service
        OBVIOUS
      <4> QED BY <4>1, ServicesAreFinite
    <3>3. budget'.flaky = budget.flaky - Cardinality(S)
      BY <3>1 DEF Flaky, TypeOK
    <3>4. Cardinality(S) = 0
      <4>1. budget.flaky \in Nat
        BY DEF TypeOK
      <4> QED BY <2>0, <3>2, <3>3, <4>1
    <3>5. S = {}
      BY <3>2, <3>4
    <3> QED BY <2>12, <3>1, <3>5 DEF StopServices, Down
  <2>13. CASE SetUnitPaused
    BY <2>13 DEF SetUnitPaused, services, Down, NoRun
  <2>14. CASE StartServices
    BY <2>14 DEF StartServices, TypeOK, Run
  <2>15. CASE ClearUnitPaused
    BY <2>15, ActionGoesOnIs DEF ClearUnitPaused, services, Down, NoRun
  <2>16. CASE CycleServices
    <3>1. run'.step # "flag"
      BY <2>16, ActionGoesOnIs DEF CycleServices, TypeOK, Run
    <3>2. paused' => Down'
      BY <2>16 DEF CycleServices, Down
    <3> QED BY <2>16, <3>1, <3>2 DEF CycleServices
  <2>17. CASE Fail
    BY <2>17 DEF Fail, TypeOK
  <2>18. CASE Return
    BY <2>18 DEF Return, services, Down, NoRun
  <2> QED BY <2>1, <2>2, <2>3, <2>4, <2>5, <2>6, <2>7, <2>8, <2>9, <2>10,
             <2>11, <2>12, <2>13, <2>14, <2>15, <2>16, <2>17, <2>18
          DEF Next, Hook, Proceed
<1> QED BY <1>1, <1>2, TypeCorrect, PTL DEF Spec

\* No hook, charm upgrade or boot starts the services of a paused unit, for any
\* number and order of operations: only a failed hook or action, or a service
\* that systemd does not stop, can leave one running.
THEOREM PausedUnitsStayDown == Spec => []PausedStaysDown
<1>1. DownInv => PausedStaysDown
  BY DEF DownInv, DownWhenPaused, PausedStaysDown, Down, Idle
<1> QED BY <1>1, DownIsInductive, PTL

-----------------------------------------------------------------------------
(***************************************************************************)
(* An active unit has its services up, under the same conditions.          *)
(***************************************************************************)

\* Every service runs and may be restarted.
AllUp == \A x \in Service : up[x] /\ ~masked[x]

\* The flag is cleared after the services have been started, but for the end of a
\* series upgrade, which clears it first: until it has come to start them the unit
\* counts as active and its services are down.
Resuming == \/ run.step \in {"start", "flag"}
            \/ run.step = "write" /\ run.op = "post-series-upgrade"

UpWhenActive == /\ ~paused /\ ~Resuming => AllUp
                /\ run.step = "clear" => AllUp

\* A restart brings up what is not masked.
LEMMA UpStaysUp ==
    ASSUME NEW S, NEW b \in BOOLEAN, AllUp, Restarted(S, b)
    PROVE  AllUp'
BY Zenon DEF AllUp, Restarted

\* Undisturbed, systemd stops and starts every service that it is told to.
LEMMA NothingFlaky ==
    ASSUME TypeOK, NEW S \in SUBSET Service, Flaky(S), budget'.flaky = budget.flaky
    PROVE  S = {}
<1>1. Cardinality(S) \in Nat /\ (Cardinality(S) = 0 <=> S = {})
  BY ServicesAreFinite
<1>2. budget.flaky \in Nat /\ budget'.flaky = budget.flaky - Cardinality(S)
  BY DEF Flaky, TypeOK
<1> QED BY <1>1, <1>2

\* What StartServices leaves behind when every service starts.
LEMMA AllStart ==
    ASSUME TypeOK, StartServices, budget'.flaky = budget.flaky
    PROVE  /\ AllUp'
           /\ loaded' = [x \in Service |-> IF up[x] THEN loaded[x] ELSE file]
<1>1. PICK S \in SUBSET {x \in Service : ~up[x]} :
         /\ Flaky(S)
         /\ up' = [x \in Service |-> x \notin S]
         /\ loaded' = [x \in Service |-> IF up[x] \/ x \in S
                                         THEN loaded[x] ELSE file]
  BY DEF StartServices
<1>2. S \in SUBSET Service
  OBVIOUS
<1>3. S = {}
  BY <1>1, <1>2, NothingFlaky
<1> QED BY <1>1, <1>3 DEF StartServices, AllUp

UpInv == Undisturbed => UpWhenActive

LEMMA UpIsInductive == Spec => []UpInv
<1>1. Init => UpInv
  BY DEF Init, UpInv, UpWhenActive, AllUp, NoRun
<1>2. DownInv /\ UpInv /\ [Next]_vars => UpInv'
  <2> SUFFICES ASSUME DownInv, UpInv, [Next]_vars, Undisturbed'
               PROVE  UpWhenActive'
    BY DEF UpInv
  <2>0. /\ TypeOK /\ UpWhenActive
        /\ budget'.fails = budget.fails /\ budget'.flaky = budget.flaky
    BY UndisturbedBefore DEF DownInv, UpInv
  <2> USE <2>0 DEF UpWhenActive, Resuming
  <2>1. CASE UNCHANGED vars
    BY <2>1 DEF vars, services, AllUp
  <2>2. ASSUME NEW s \in Source, Change(s) PROVE UpWhenActive'
    BY <2>2 DEF Change, services, AllUp
  <2>3. ASSUME NEW o \in Ops, Request(o) PROVE UpWhenActive'
    <3>1. CASE o = "post-series-upgrade"
      <4>1. Restarted(Service, TRUE)
        BY <2>3, <3>1 DEF Request
      <4>2. AllUp => AllUp'
        BY <4>1, UpStaysUp
      <4> QED BY <2>3, <4>2 DEF Request
    <3>2. CASE o # "post-series-upgrade"
      BY <2>3, <3>2 DEF Request, services, AllUp
    <3> QED BY <3>1, <3>2
  <2>4. ASSUME NEW o \in Ops, StartAction(o) PROVE UpWhenActive'
    BY <2>4 DEF StartAction, services, AllUp, Started, Idle, Actions
  <2>5. ASSUME NEW h \in Hooks, StartHook(h) PROVE UpWhenActive'
    BY <2>5 DEF StartHook, Dispatch, services, AllUp, Started, NoRun, Idle
  <2>6. CASE UpgradeCharm
    <3>1. AllUp => AllUp'
      <4>1. Restarted(Service, FALSE) \/ UNCHANGED services
        BY <2>6 DEF UpgradeCharm
      <4> QED BY <4>1, UpStaysUp DEF services, AllUp
    <3> QED BY <2>6, <3>1 DEF UpgradeCharm, Dispatch
  <2>7. CASE PreSeriesUpgrade
    BY <2>7 DEF PreSeriesUpgrade, Dispatch, services, AllUp, Started, NoRun, Idle
  <2>8. CASE PostSeriesUpgrade
    BY <2>8 DEF PostSeriesUpgrade, Started
  <2>9. CASE Write
    <3>1. run'.step = CASE run.op = "post-series-upgrade" -> "start"
                        [] run.op = "openstack-upgrade" -> "cycle"
                        [] OTHER -> "post"
      BY <2>9 DEF Write, TypeOK, Run
    <3> QED BY <2>9, <3>1 DEF Write, services, AllUp
  <2>10. CASE Post
    <3>1. AllUp => AllUp'
      <4>1. Restarted({"apache2"}, FALSE) \/ UNCHANGED services
        BY <2>10 DEF Post
      <4> QED BY <4>1, UpStaysUp DEF services, AllUp
    <3>2. run'.step \in {"idle", "restart"}
      BY <2>10 DEF Post, TypeOK, Run, NoRun
    <3> QED BY <2>10, <3>1, <3>2 DEF Post
  <2>11. ASSUME NEW x \in Service, Restart(x) PROVE UpWhenActive'
    <3>1. AllUp => AllUp'
      <4>1. Https(run.op) \in BOOLEAN /\ Restarted({x}, Https(run.op))
        BY <2>11 DEF Restart, Https
      <4> QED BY <4>1, UpStaysUp
    <3>2. run'.step \in {"idle", "restart"}
      BY <2>11 DEF Restart, TypeOK, Run, NoRun
    <3> QED BY <2>11, <3>1, <3>2 DEF Restart
  <2>12. CASE StopServices
    BY <2>12 DEF StopServices, TypeOK, Run
  <2>13. CASE SetUnitPaused
    BY <2>13 DEF SetUnitPaused, NoRun
  <2>14. CASE StartServices
    BY <2>14, AllStart
  <2>15. CASE ClearUnitPaused
    BY <2>15 DEF ClearUnitPaused, services, AllUp
  <2>16. CASE CycleServices
    <3>1. CASE paused
      BY <2>16, <3>1 DEF CycleServices, TypeOK, Run
    <3>2. CASE ~paused
      <4>1. Restarted(Service, TRUE) /\ AllUp
        BY <2>16, <3>2 DEF CycleServices
      <4>2. AllUp'
        BY <4>1, UpStaysUp
      <4> QED BY <4>2
    <3> QED BY <3>1, <3>2
  <2>17. CASE Fail
    BY <2>17 DEF Fail, TypeOK
  <2>18. CASE Return
    BY <2>18, HooksReturn DEF Return, services, AllUp, NoRun
  <2> QED BY <2>1, <2>2, <2>3, <2>4, <2>5, <2>6, <2>7, <2>8, <2>9, <2>10,
             <2>11, <2>12, <2>13, <2>14, <2>15, <2>16, <2>17, <2>18
          DEF Next, Hook, Proceed
<1> QED BY <1>1, <1>2, DownIsInductive, PTL DEF Spec

\* Whatever the order of pause, resume, upgrades and hooks, an active unit has its
\* services up and none of them masked.
THEOREM ActiveUnitsAreUp == Spec => []ActiveIsUp
<1>1. UpInv => ActiveIsUp
  BY DEF UpInv, UpWhenActive, Resuming, ActiveIsUp, AllUp, Idle
<1> QED BY <1>1, UpIsInductive, PTL

-----------------------------------------------------------------------------
(***************************************************************************)
(* Running services have read what is on disk, as long as ceph_broken does *)
(* not come and a unit is paused at most amid a series upgrade.            *)
(***************************************************************************)

\* What takes the reason for a restart away from the hooks that come later.
OnlyDecorated == MaxChanges["ceph"] = 0 /\ MidUpgrade \subseteq {"pause"}

\* Amid a series upgrade the unit is paused, or about to be.
SeriesInv ==
    /\ "ceph-broken" \notin owed
    /\ "post-series-upgrade" \in owed => upgrading
    /\ upgrading => /\ paused \/ run.step \in {"stop", "flag"}
                    /\ run.step \notin {"start", "clear", "cycle"}
                    /\ run.op \notin {"openstack-upgrade", "post-series-upgrade"}

HasRead(x, F) == \A f \in File : x \in RestartMap[f] => loaded[x][f] = F[f]
Fresh(x)      == up[x] => HasRead(x, file)

\* Why a service that has not read a file will be restarted: the hash that the
\* wrapper took is that of what it has read, or it is among the services still to
\* be restarted.  Without the wrapper files are written on units that are down, or
\* by the upgrade action, which restarts all services.
FreshWhenDone ==
    /\ run.step \in {"idle", "stop", "flag", "start", "clear"} =>
          \A x \in Service : Fresh(x)
    /\ run.step \in {"write", "post"} /\ run.wrapped =>
          \A x \in Service : up[x] => HasRead(x, run.before)
    /\ run.step = "write" /\ run.wrapped => file = run.before
    /\ run.step = "restart" => run.wrapped /\ \A x \in Service \ run.todo : Fresh(x)
    /\ run.wrapped => ~paused /\ run.op \notin {"openstack-upgrade", "post-series-upgrade"}
    /\ run.step = "write" /\ ~run.wrapped /\ run.op # "openstack-upgrade" => Down
    /\ run.step = "post" /\ ~run.wrapped => Down

LEMMA SeriesIsInductive == OnlyDecorated /\ Spec => [](Undisturbed => SeriesInv)
<1> SUFFICES ASSUME OnlyDecorated PROVE Spec => [](Undisturbed => SeriesInv)
  BY DEF OnlyDecorated
<1>1. Init => SeriesInv
  BY DEF Init, SeriesInv
<1>2. DownInv /\ UpInv /\ (Undisturbed => SeriesInv) /\ [Next]_vars
         => (Undisturbed => SeriesInv)'
  <2> SUFFICES ASSUME DownInv, UpInv, Undisturbed => SeriesInv, [Next]_vars, Undisturbed'
               PROVE  SeriesInv'
    OBVIOUS
  <2>0. /\ TypeOK /\ UpWhenActive /\ SeriesInv
        /\ budget'.fails = budget.fails /\ budget'.flaky = budget.flaky
    BY UndisturbedBefore DEF DownInv, UpInv
  <2> USE <2>0 DEF SeriesInv
  <2>1. CASE UNCHANGED vars
    BY <2>1 DEF vars
  <2>2. ASSUME NEW s \in Source, Change(s) PROVE SeriesInv'
    <3>1. s # "ceph"
      BY <2>2 DEF Change, OnlyDecorated, TypeOK
    <3>2. HookOf[s] \notin {"ceph-broken", "post-series-upgrade"}
      BY <3>1 DEF HookOf, Source
    <3> QED BY <2>2, <3>2 DEF Change
  <2>3. ASSUME NEW o \in Ops, Request(o) PROVE SeriesInv'
    BY <2>3 DEF Request, UpgradeHooks
  <2>4. ASSUME NEW o \in Ops, StartAction(o) PROVE SeriesInv'
    BY <2>4 DEF StartAction, OnlyDecorated, Started, Idle
  <2>5. ASSUME NEW h \in Hooks, StartHook(h) PROVE SeriesInv'
    BY <2>5 DEF StartHook, Dispatch, Started, NoRun, Hooks, Idle
  <2>6. CASE UpgradeCharm
    BY <2>6 DEF UpgradeCharm, Dispatch
  <2>7. CASE PreSeriesUpgrade
    BY <2>7 DEF PreSeriesUpgrade, Dispatch, Started, NoRun
  <2>8. CASE PostSeriesUpgrade
    BY <2>8 DEF PostSeriesUpgrade, Dispatch
  <2>9. CASE Write
    <3>1. run'.op = run.op /\ (upgrading => run'.step = "post")
      BY <2>9 DEF Write, TypeOK, Run
    <3> QED BY <2>9, <3>1 DEF Write
  <2>10. CASE Post
    <3>1. run'.step \in {"idle", "restart"} /\ run'.op \in {"none", run.op}
      BY <2>10 DEF Post, TypeOK, Run, NoRun
    <3> QED BY <2>10, <3>1 DEF Post
  <2>11. ASSUME NEW x \in Service, Restart(x) PROVE SeriesInv'
    <3>1. run'.step \in {"idle", "restart"} /\ run'.op \in {"none", run.op}
      BY <2>11 DEF Restart, TypeOK, Run, NoRun
    <3> QED BY <2>11, <3>1 DEF Restart
  <2>12. CASE StopServices
    <3>1. run'.step = "flag" /\ run'.op = run.op
      BY <2>12 DEF StopServices, TypeOK, Run
    <3> QED BY <2>12, <3>1 DEF StopServices
  <2>13. CASE SetUnitPaused
    BY <2>13 DEF SetUnitPaused, NoRun
  <2>14. CASE StartServices
    BY <2>14 DEF StartServices
  <2>15. CASE ClearUnitPaused
    <3>1. ~(\E x \in Service : ~up[x])
      BY <2>15 DEF ClearUnitPaused, UpWhenActive, AllUp
    <3> QED BY <2>15, <3>1 DEF ClearUnitPaused
  <2>16. CASE CycleServices
    BY <2>16 DEF CycleServices
  <2>17. CASE Fail
    BY <2>17 DEF Fail, TypeOK
  <2>18. CASE Return
    BY <2>18 DEF Return, NoRun
  <2> QED BY <2>1, <2>2, <2>3, <2>4, <2>5, <2>6, <2>7, <2>8, <2>9, <2>10,
             <2>11, <2>12, <2>13, <2>14, <2>15, <2>16, <2>17, <2>18
          DEF Next, Hook, Proceed
<1> QED BY <1>1, <1>2, DownIsInductive, UpIsInductive, PTL DEF Spec

\* A restart makes no service stale, and those restarted that are up and not masked
\* have read the files.
LEMMA RestartFreshens ==
    ASSUME TypeOK, NEW S, NEW b \in BOOLEAN, Restarted(S, b), file' = file
    PROVE  /\ \A x \in Service : Fresh(x) => Fresh(x)'
           /\ \A x \in Service \cap S : ~masked[x] => Fresh(x)'
BY DEF TypeOK, Restarted, Fresh, HasRead

\* A unit that is down has no stale services, whatever is written.
LEMMA DownIsFresh == Down => \A x \in Service : Fresh(x)
BY DEF Down, Fresh

\* The wrapper finds every service that has not read what is on disk.
LEMMA WrapperFinds ==
    ASSUME TypeOK, FreshWhenDone, Post, run.wrapped, NEW x \in Service,
           x \notin UNION {RestartMap[f] : f \in {g \in File : file[g] # run.before[g]}}
    PROVE  Fresh(x)'
<1>1. \A f \in File : x \in RestartMap[f] => file[f] = run.before[f]
  OBVIOUS
<1>2. Fresh(x)
  BY <1>1 DEF Post, FreshWhenDone, Fresh, HasRead
<1>3. Restarted({"apache2"}, FALSE) \/ UNCHANGED services
  BY DEF Post
<1>4. file' = file
  BY DEF Post
<1> QED BY <1>2, <1>3, <1>4, RestartFreshens DEF services, Fresh, HasRead

LEMMA FreshIsInductive == OnlyDecorated /\ Spec => [](Undisturbed => FreshWhenDone)
<1> SUFFICES ASSUME OnlyDecorated PROVE Spec => [](Undisturbed => FreshWhenDone)
  BY DEF OnlyDecorated
<1>1. Init => FreshWhenDone
  BY DEF Init, FreshWhenDone, Fresh, HasRead, NoRun
<1>2. /\ DownInv /\ UpInv /\ (Undisturbed => SeriesInv)
      /\ (Undisturbed => FreshWhenDone) /\ [Next]_vars
      => (Undisturbed => FreshWhenDone)'
  <2> SUFFICES ASSUME DownInv, UpInv, Undisturbed => SeriesInv,
                      Undisturbed => FreshWhenDone, [Next]_vars, Undisturbed'
               PROVE  FreshWhenDone'
    OBVIOUS
  <2>0. /\ TypeOK /\ DownWhenPaused /\ UpWhenActive /\ SeriesInv /\ FreshWhenDone
        /\ budget'.fails = budget.fails /\ budget'.flaky = budget.flaky
    BY UndisturbedBefore DEF DownInv, UpInv
  <2> USE <2>0
  <2>a. ASSUME UNCHANGED <<file, services, paused, run>> PROVE FreshWhenDone'
    BY <2>a DEF FreshWhenDone, Fresh, HasRead, services, Down
  <2>b. ASSUME NEW S, NEW b \in BOOLEAN, Restarted(S, b),
               UNCHANGED <<file, paused, run>>, run.step \notin {"write", "post"}
        PROVE  FreshWhenDone'
    BY <2>b, RestartFreshens DEF FreshWhenDone
  <2>1. CASE UNCHANGED vars
    BY <2>1, <2>a DEF vars, services
  <2>2. ASSUME NEW s \in Source, Change(s) PROVE FreshWhenDone'
    BY <2>2, <2>a DEF Change
  <2>3. ASSUME NEW o \in Ops, Request(o) PROVE FreshWhenDone'
    <3>1. CASE o = "post-series-upgrade"
      BY <2>3, <3>1, <2>b DEF Request, Idle
    <3>2. CASE o # "post-series-upgrade"
      BY <2>3, <3>2, <2>a DEF Request
    <3> QED BY <3>1, <3>2
  <2>4. ASSUME NEW o \in Ops, StartAction(o) PROVE FreshWhenDone'
    BY <2>4 DEF StartAction, services, Started, Idle, Actions, FreshWhenDone, Fresh, HasRead
  <2>5. ASSUME NEW h \in Hooks, StartHook(h) PROVE FreshWhenDone'
    <3>1. h # "ceph-broken"
      BY <2>5 DEF StartHook, Dispatch, SeriesInv
    <3>2. /\ \A x \in Service : Fresh(x) /\ Fresh(x)'
          /\ paused => Down /\ Down'
      BY <2>5 DEF StartHook, Dispatch, Idle, FreshWhenDone, DownWhenPaused, Down,
                  services, Fresh, HasRead
    <3>3. CASE SkipsWhenPaused(h)
      BY <2>5, <3>2, <3>3 DEF StartHook, FreshWhenDone, NoRun
    <3>4. CASE ~SkipsWhenPaused(h)
      <4>a. Decorated(h) = TRUE
        BY <3>1, Zenon DEF Decorated
      <4>b. run' = Started(h, "write", Decorated(h) /\ ~paused)
        BY <2>5, <3>4 DEF StartHook
      <4>1. /\ paused => run' = Started(h, "write", FALSE)
            /\ ~paused => run' = Started(h, "write", TRUE)
        <5>1. paused => (Decorated(h) /\ ~paused) = FALSE
          BY Zenon
        <5>2. ~paused => (Decorated(h) /\ ~paused) = TRUE
          BY <4>a
        <5> QED BY <4>b, <5>1, <5>2
      <4>2. /\ run'.step = "write" /\ run'.op = h
            /\ paused => run'.wrapped = FALSE
            /\ ~paused => run'.wrapped = TRUE /\ run'.before = file
            /\ h \notin {"openstack-upgrade", "post-series-upgrade"}
            /\ paused' = paused /\ file' = file /\ up' = up /\ loaded' = loaded
        BY <2>5, <4>1 DEF StartHook, Started, Hooks, services
      <4>3. CASE paused
        BY <3>2, <4>2, <4>3 DEF FreshWhenDone
      <4>4. CASE ~paused
        <5>1. \A x \in Service : up'[x] => HasRead(x, run.before)'
          BY <3>2, <4>2, <4>4 DEF Fresh, HasRead
        <5> QED BY <4>2, <4>4, <5>1 DEF FreshWhenDone
      <4> QED BY <4>3, <4>4
    <3> QED BY <3>3, <3>4
  <2>6. CASE UpgradeCharm
    <3>1. CASE UNCHANGED services
      BY <2>6, <3>1, <2>a DEF UpgradeCharm, Dispatch
    <3>2. CASE Restarted(Service, FALSE)
      BY <2>6, <3>2, <2>b DEF UpgradeCharm, Dispatch, Idle
    <3> QED BY <2>6, <3>1, <3>2 DEF UpgradeCharm
  <2>7. CASE PreSeriesUpgrade
    BY <2>7 DEF PreSeriesUpgrade, Dispatch, services, Started, NoRun, Idle,
                FreshWhenDone, Fresh, HasRead
  <2>8. CASE PostSeriesUpgrade
    <3>1. Down
      BY <2>8 DEF PostSeriesUpgrade, Dispatch, Idle, SeriesInv, DownWhenPaused
    <3> QED BY <2>8, <3>1 DEF PostSeriesUpgrade, Started, FreshWhenDone, services, Down
  <2>9. CASE Write
    <3>1. /\ run'.op = run.op /\ run'.wrapped = run.wrapped /\ run'.before = run.before
          /\ run'.step = CASE run.op = "post-series-upgrade" -> "start"
                           [] run.op = "openstack-upgrade" -> "cycle"
                           [] OTHER -> "post"
      BY <2>9 DEF Write, TypeOK, Run
    <3>2. Down => Down' /\ \A x \in Service : Fresh(x)'
      BY <2>9 DEF Write, services, Down, Fresh
    <3>3. CASE run.wrapped
      BY <2>9, <3>1, <3>3 DEF Write, FreshWhenDone, services, HasRead
    <3>4. CASE ~run.wrapped
      BY <2>9, <3>1, <3>2, <3>4 DEF Write, FreshWhenDone
    <3> QED BY <3>3, <3>4
  <2>10. CASE Post
    <3> DEFINE todo == UNION {RestartMap[f] : f \in {g \in File :
                                 run.wrapped /\ file[g] # run.before[g]}}
    <3>1. run' = IF todo = {} THEN NoRun
                 ELSE [run EXCEPT !.step = "restart", !.todo = todo]
      BY <2>10 DEF Post
    <3>2. run.wrapped => \A x \in Service \ todo : Fresh(x)'
      BY <2>10, WrapperFinds
    <3>3. ~run.wrapped => todo = {} /\ \A x \in Service : Fresh(x)'
      <4>1. Restarted({"apache2"}, FALSE) \/ UNCHANGED services
        BY <2>10 DEF Post
      <4>2. Down => Down'
        BY <4>1, MaskedStaysDown DEF services, Down
      <4> QED BY <2>10, <4>2 DEF Post, FreshWhenDone, Down, Fresh
    <3> HIDE DEF todo
    <3>4. CASE todo = {}
      BY <3>1, <3>2, <3>3, <3>4 DEF FreshWhenDone, NoRun
    <3>5. CASE todo # {}
      <4>1. /\ run.wrapped /\ run'.step = "restart" /\ run'.todo = todo
            /\ run'.wrapped = run.wrapped /\ run'.op = run.op
        BY <3>1, <3>3, <3>5 DEF TypeOK, Run
      <4> QED BY <2>10, <3>2, <4>1 DEF FreshWhenDone, Post
    <3> QED BY <3>4, <3>5
  <2>11. ASSUME NEW x \in Service, Restart(x) PROVE FreshWhenDone'
    <3>1. ~paused /\ run.wrapped /\ AllUp
      BY <2>11 DEF Restart, FreshWhenDone, UpWhenActive, Resuming
    <3>2. Restarted({x}, Https(run.op)) /\ Https(run.op) \in BOOLEAN
      BY <2>11 DEF Restart, Https
    <3>3. \A y \in (Service \ run.todo) \cup {x} : Fresh(y)'
      BY <2>11, <3>1, <3>2, RestartFreshens DEF Restart, FreshWhenDone, AllUp
    <3>4. CASE run.todo = {x}
      BY <2>11, <3>3, <3>4 DEF Restart, FreshWhenDone, NoRun
    <3>5. CASE run.todo # {x}
      <4>1. /\ run'.step = "restart" /\ run'.todo = run.todo \ {x}
            /\ run'.wrapped = run.wrapped /\ run'.op = run.op
        BY <2>11, <3>5 DEF Restart, TypeOK, Run
      <4> QED BY <2>11, <3>1, <3>3, <4>1 DEF Restart, FreshWhenDone
    <3> QED BY <3>4, <3>5
  <2>12. CASE StopServices
    <3>1. PICK S \in SUBSET {x \in Service : up[x]} :
             Flaky(S) /\ up' = [x \in Service |-> x \in S]
      BY <2>12 DEF StopServices
    <3>2. S = {}
      <4>1. S \in SUBSET Service
        OBVIOUS
      <4> QED BY <3>1, <4>1, NothingFlaky
    <3>3. \A x \in Service : Fresh(x)'
      BY <3>1, <3>2 DEF Fresh
    <3>4. run'.step = "flag" /\ run'.wrapped = run.wrapped /\ run'.op = run.op
      BY <2>12 DEF StopServices, TypeOK, Run
    <3> QED BY <2>12, <3>3, <3>4 DEF StopServices, FreshWhenDone
  <2>13. CASE SetUnitPaused
    BY <2>13 DEF SetUnitPaused, NoRun, FreshWhenDone, services, Fresh, HasRead
  <2>14. CASE StartServices
    <3>1. loaded' = [x \in Service |-> IF up[x] THEN loaded[x] ELSE file]
      BY <2>14, AllStart
    <3>2. \A x \in Service : Fresh(x)'
      BY <2>14, <3>1 DEF StartServices, FreshWhenDone, Fresh, HasRead
    <3>3. run'.step = "clear" /\ run'.wrapped = run.wrapped /\ run'.op = run.op
      BY <2>14 DEF StartServices, TypeOK, Run
    <3> QED BY <2>14, <3>2, <3>3 DEF StartServices, FreshWhenDone
  <2>15. CASE ClearUnitPaused
    <3>1. /\ paused' = FALSE /\ UNCHANGED <<file, services>>
          /\ run' = ActionGoesOn \/ run' = NoRun
          /\ \A x \in Service : Fresh(x) /\ Fresh(x)'
      BY <2>15 DEF ClearUnitPaused, FreshWhenDone, services, Fresh, HasRead
    <3>2. CASE run' = NoRun
      BY <3>1, <3>2 DEF NoRun, FreshWhenDone
    <3>3. CASE run' = ActionGoesOn
      <4>1. \A x \in Service : up'[x] => HasRead(x, run.before)'
        BY <3>1, <3>3, ActionGoesOnIs DEF Fresh, HasRead
      <4> QED BY <3>1, <3>3, <4>1, ActionGoesOnIs DEF FreshWhenDone
    <3> QED BY <3>1, <3>2, <3>3
  <2>16. CASE CycleServices
    <3>1. CASE paused
      <4>1. run'.step = "start" /\ run'.wrapped = run.wrapped /\ run'.op = run.op
        BY <2>16, <3>1 DEF CycleServices, TypeOK, Run
      <4>2. \A x \in Service : Fresh(x)'
        BY <2>16, <3>1 DEF CycleServices, Fresh
      <4> QED BY <2>16, <4>1, <4>2 DEF CycleServices, FreshWhenDone
    <3>2. CASE ~paused
      <4>1. Restarted(Service, TRUE) /\ AllUp
        BY <2>16, <3>2 DEF CycleServices, UpWhenActive, Resuming
      <4>2. \A x \in Service : Fresh(x)'
        BY <2>16, <4>1, RestartFreshens DEF CycleServices, AllUp
      <4>3. run' = ActionGoesOn /\ file' = file /\ paused' = paused
        BY <2>16, <3>2 DEF CycleServices
      <4>4. \A x \in Service : up'[x] => HasRead(x, run.before)'
        BY <4>2, <4>3, ActionGoesOnIs DEF Fresh, HasRead
      <4> QED BY <3>2, <4>3, <4>4, ActionGoesOnIs DEF FreshWhenDone
    <3> QED BY <3>1, <3>2
  <2>17. CASE Fail
    BY <2>17 DEF Fail, TypeOK
  <2>18. CASE Return
    <3>1. run.op # "openstack-upgrade"
      BY <2>18, HooksReturn DEF Return
    <3>2. \A x \in Service : Fresh(x)
      BY <2>18, <3>1 DEF Return, FreshWhenDone, Fresh, HasRead, Down
    <3> QED BY <2>18, <3>2 DEF Return, NoRun, FreshWhenDone, services, Fresh, HasRead
  <2> QED BY <2>1, <2>2, <2>3, <2>4, <2>5, <2>6, <2>7, <2>8, <2>9, <2>10,
             <2>11, <2>12, <2>13, <2>14, <2>15, <2>16, <2>17, <2>18
          DEF Next, Hook, Proceed
<1> QED BY <1>1, <1>2, DownIsInductive, UpIsInductive, SeriesIsInductive, PTL DEF Spec

\* Between hooks the running services of an active unit have read what is on disk,
\* for any number and order of changes and operations: every change of a file is
\* found by the hook that makes it.  Without the condition TLC finds the property violated.
THEOREM ServicesRunWhatIsOnDisk == OnlyDecorated /\ Spec => []RunsWhatIsOnDisk
<1> SUFFICES ASSUME OnlyDecorated PROVE Spec => []RunsWhatIsOnDisk
  BY DEF OnlyDecorated
<1>1. (Undisturbed => FreshWhenDone) => RunsWhatIsOnDisk
  <2> SUFFICES ASSUME Undisturbed => FreshWhenDone, Undisturbed, Idle,
                      NEW f \in File, NEW x \in RestartMap[f], up[x]
               PROVE  loaded[x][f] = file[f]
    BY DEF RunsWhatIsOnDisk
  <2>1. x \in Service
    BY DEF RestartMap, Service, File
  <2> QED BY <2>1 DEF FreshWhenDone, Idle, Fresh, HasRead
<1> QED BY <1>1, FreshIsInductive, PTL
=============================================================================
