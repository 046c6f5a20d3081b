------------------------ MODULE WorkloadStatus_proofs ------------------------
(***************************************************************************)
(* Proofs about WorkloadStatus and the Policyd that it extends, for any    *)
(* relations, any resources and any bounds.                                *)
(***************************************************************************)
EXTENDS WorkloadStatus, TLAPS

USE PolicydAssumption DEF PolicydAssumption

-----------------------------------------------------------------------------
(***************************************************************************)
(* The inductive invariant of the policy overrides.                        *)
(*                                                                         *)
(* A directory that is not as it should be is being rewritten, or a hook   *)
(* that rewrites it is owed, or config-changed was skipped on a paused     *)
(* unit.  The success file decides which hooks rewrite: with it,           *)
(* config-changed leaves the directory alone.                              *)
(***************************************************************************)

\* What executes.
Ops   == PolicyHooks \cup OtherHooks \cup RelationHooks
             \cup {"none", "update-status", "pause", "resume"}
Steps == PolicySteps \cup {"idle", "assess"}
Run   == [op : Ops, step : Steps, zip : Resources \cup {NotAttached}, next : 0..2]

Owed == owed \cap PolicyHooks # {} \/ missed

\* The steps that come between the removal of the success file and its return.
Writes == run.step \in {"clear", "write", "finish"}

\* The policy steps belong to a policy hook; a file that is written is of a
\* resource that opened, and the files before it are there.
WriteInv ==
    /\ run.step \in PolicySteps => run.op \in PolicyHooks /\ queens
    /\ Writes => ~success /\ run.zip \in Resources
                 /\ run.zip.is \in {"good", "bad-file"}
    /\ run.step = "clear" => run.next = 1
    /\ run.step = "write"
          => /\ run.next \in Files
             /\ dir = {[of |-> run.zip.id, file |-> f] : f \in 1..(run.next - 1)}
    /\ run.step = "finish" => run.zip.is = "good" /\ dir = FilesOf(run.zip)

\* With a success file the directory is whole or empty, and the resource that it
\* holds is the one attached, or upgrade-charm is there to see to it.
SuccessInv ==
    /\ success => dir = {} \/ \E r \in Resources : r.is = "good"
                                                   /\ dir = FilesOf(r)
    /\ success /\ dir # {}
          => \/ dir = FilesOf(resource) \/ "upgrade-charm" \in owed
             \/ run.op = "upgrade-charm" /\ run.step \in {"clean", "open", "abort"}
    /\ Writes => run.zip = resource \/ "upgrade-charm" \in owed

\* Without one it is empty, or a hook is about to empty it.
FailureInv ==
    /\ ~success /\ dir # {} => Owed \/ run.step \in PolicySteps \ {"unset"}
    /\ run.step = "unset" => dir = {}

\* With the option off there is neither, or a hook is about to remove them.
DisabledInv ==
    /\ ~enabled /\ (success \/ dir # {})
          => Owed \/ run.step \in {"clean", "unset"}
    /\ ~enabled /\ run.step \in {"open", "clear", "write", "finish", "abort"}
          => "config-changed" \in owed
    /\ ~queens => dir = {} /\ ~success

-----------------------------------------------------------------------------
(***************************************************************************)
(* The inductive invariant of the status.                                  *)
(*                                                                         *)
(* The assessment at the end of a hook tells the truth about the unit as   *)
(* it is then; whatever changes the unit afterwards owes a hook that will  *)
(* assess it again.  The one thing that the hook itself changes after its  *)
(* assessment is that a broken relation goes, and that was not complete.   *)
(***************************************************************************)

\* What StatusIsTrue says of a status.
Fits(s) ==
    /\ s.state = "active" <=> Ready
    /\ s.state = "maintenance" <=> paused /\ ~upgrading /\ ~up

BrokenInv ==
    /\ \A r \in Required : due[r] = "broken" => relation[r] = "empty"
    /\ run.op = "broken"
          => about \in Required /\ relation[about] = "empty" /\ due[about] = "none"

StatusInv == AllDone /\ ~drift => Fits(status)

Budgets == [events : Nat, faults : Nat]

StatusTypeOK == TypeOK /\ run \in Run /\ left \in Budgets

Inv == /\ StatusTypeOK /\ WriteInv /\ SuccessInv /\ FailureInv /\ DisabledInv
       /\ BrokenInv /\ StatusInv

-----------------------------------------------------------------------------
(* What executes, and the bounds. *)

\* What Juju has start is a process of the model.
LEMMA RunTypes ==
    /\ NoRun \in Run /\ NoRun.op = "none" /\ NoRun.step = "idle"
    /\ \A op \in Ops, step \in Steps :
           /\ Executes(op, step) \in Run
           /\ Executes(op, step).op = op /\ Executes(op, step).step = step
<1>1. "none" \in Ops /\ "idle" \in Steps
  BY DEF Ops, Steps
<1>2. NoRun \in Run /\ NoRun.op = "none" /\ NoRun.step = "idle"
  BY <1>1 DEF NoRun, Run
<1>3. ASSUME NEW op \in Ops, NEW step \in Steps
      PROVE  /\ Executes(op, step) \in Run
             /\ Executes(op, step).op = op /\ Executes(op, step).step = step
  <2>1. Executes(op, step) = [NoRun EXCEPT !.op = op, !.step = step]
    BY DEF Executes
  <2>2. Executes(op, step)
            = [op |-> op, step |-> step, zip |-> NotAttached, next |-> 0]
    BY <2>1 DEF NoRun
  <2>3. 0 \in 0..2 /\ NotAttached \in Resources \cup {NotAttached}
    OBVIOUS
  <2> QED BY <2>2, <2>3 DEF Run
<1> QED BY <1>2, <1>3

\* Going on to a step changes the step only.
LEMMA GotoType ==
    ASSUME run \in Run, NEW step \in Steps, Goto(step)
    PROVE  /\ run' \in Run /\ run'.step = step
           /\ run'.op = run.op /\ run'.zip = run.zip /\ run'.next = run.next
BY DEF Goto, Run

\* Bounds stay natural numbers.
LEMMA SpendType ==
    ASSUME left \in Budgets, NEW b \in {"events", "faults"}, Spend(b)
    PROVE  left' \in Budgets
BY DEF Budgets, Spend

\* Services are up or down after they were switched.
LEMMA SwitchedType ==
    ASSUME left \in Budgets, up \in BOOLEAN, NEW on \in BOOLEAN, Switched(on)
    PROVE  left' \in Budgets /\ up' \in BOOLEAN
BY SpendType DEF Switched

\* A resource that opens is one that the operator attached.
LEMMA OpenedResource ==
    ASSUME resource \in Resources \cup {NotAttached}, resource.is # "unopenable"
    PROVE  resource \in Resources /\ resource.is \in {"good", "bad-file"}
BY DEF NotAttached, Quality

-----------------------------------------------------------------------------
(* The assessment tells the truth: whatever the flags, the services and the *)
(* relations are, _determine_os_workload_status fits them.                  *)

LEMMA DetermineFits ==
    ASSUME StatusTypeOK
    PROVE  Fits(Determine) /\ Determine \in [state : States, why : SUBSET Reasons]
<1> DEFINE i == IF IfPaused = Undecided THEN Interfaces ELSE IfPaused
<1> USE DEF StatusTypeOK, TypeOK, Undecided, Blocked, States, Reasons
<1>0. Incomplete = {} <=> \A r \in Required : relation[r] = "complete"
  BY DEF Incomplete
<1>1. CASE upgrading \/ paused
  <2>1. CASE up
    <3>1. i = [state |-> "blocked", why |-> {"running"}]
      BY <1>1, <2>1 DEF IfPaused, ActuallyPaused
    <3> QED
      BY <3>1, <1>1, <2>1 DEF Determine, ServicesRunning, CharmFunc,
         StateCompare, Fits, Ready
  <2>2. CASE ~up /\ upgrading
    <3>1. i = [state |-> "blocked", why |-> {"ready"}]
      BY <1>1, <2>2 DEF IfPaused, ActuallyPaused
    <3> QED
      BY <3>1, <1>1, <2>2 DEF Determine, ServicesRunning, CharmFunc,
         StateCompare, Fits, Ready
  <2>3. CASE ~up /\ ~upgrading
    <3>1. i = [state |-> "maintenance", why |-> {"paused"}]
      BY <1>1, <2>3 DEF IfPaused, ActuallyPaused
    <3> QED
      BY <3>1, <1>1, <2>3 DEF Determine, ServicesRunning, CharmFunc,
         StateCompare, Fits, Ready
  <2> QED BY <2>1, <2>2, <2>3
<1>2. CASE ~upgrading /\ ~paused
  <2>0. i = Interfaces
    BY <1>2 DEF IfPaused, ActuallyPaused
  <2>1. CASE Missing # {}
    <3> DEFINE why == {"missing"}
                     \cup {w \in {"incomplete"} : Incomplete # Missing}
    <3>0. i = [state |-> "blocked", why |-> why]
      BY <2>0, <2>1 DEF Interfaces
    <3>1. /\ i.state = "blocked" /\ i.why \in SUBSET Reasons
          /\ i = [state |-> i.state, why |-> i.why]
      BY <3>0
    <3>2. Incomplete # {}
      BY <2>1 DEF Missing
    <3> HIDE DEF i, why
    <3> QED
      BY <3>1, <3>2, <1>0, <1>2 DEF i, Determine, ServicesRunning, CharmFunc,
         StateCompare, Fits, Ready
  <2>2. CASE Missing = {} /\ Incomplete # {}
    <3>1. i = [state |-> "waiting", why |-> {"incomplete"}]
      BY <2>0, <2>2 DEF Interfaces
    <3> QED
      BY <3>1, <2>2, <1>0, <1>2 DEF Determine, ServicesRunning, CharmFunc,
         StateCompare, Fits, Ready
  <2>3. CASE Incomplete = {}
    <3>1. i = Undecided
      BY <2>0, <2>3 DEF Interfaces, Missing
    <3> QED
      BY <3>1, <2>3, <1>0, <1>2 DEF Determine, ServicesRunning, CharmFunc,
         StateCompare, Fits, Ready
  <2> QED BY <2>1, <2>2, <2>3
<1> QED BY <1>1, <1>2

-----------------------------------------------------------------------------
(* The invariant is inductive. *)

\* The steps of maybe_do_policyd_overrides keep it.
LEMMA PolicyInv ==
    ASSUME Inv, PolicyOverrides
    PROVE  Inv'
<1> USE RunTypes
    DEF Inv, StatusTypeOK, TypeOK, PolicydTypeOK, WriteInv, SuccessInv, FailureInv,
        DisabledInv, BrokenInv, StatusInv, Owed, Writes, Fits, Ready, HaMissing,
        AllDone, Idle, PolicyHooks, OtherHooks, RelationHooks, PolicySteps, Files,
        FilesOf, policydVars, relationVars, serviceVars, UnitKept, Seen, States,
        Reasons, Ops, Steps
<1>0. UNCHANGED <<relationVars, serviceVars, status, drift>>
  BY DEF PolicyOverrides
<1> USE <1>0
<1>1. CASE Clean
  <2>0. /\ UNCHANGED <<queens, enabled, resource, missed, owed, failed, left,
                    relationVars, serviceVars, status, drift>>
        /\ run.step = "clean" /\ Goto("unset") /\ dir' = {} /\ UNCHANGED success
    BY <1>1 DEF Clean, Doing
  <2>a. /\ run' \in Run /\ run'.step = "unset"
        /\ run'.op = run.op /\ run'.zip = run.zip /\ run'.next = run.next
    BY <2>0, GotoType
  <2>1. StatusTypeOK' BY <2>0, <2>a
  <2>2. WriteInv' BY <2>0, <2>a
  <2>3. SuccessInv' BY <2>0, <2>a
  <2>4. FailureInv' BY <2>0, <2>a
  <2>5. DisabledInv' BY <2>0, <2>a
  <2>6. BrokenInv' BY <2>0, <2>a
  <2>7. StatusInv' BY <2>0, <2>a
  <2> QED BY <2>1, <2>2, <2>3, <2>4, <2>5, <2>6, <2>7
<1>2. CASE Unset
  <2>0. /\ UNCHANGED <<queens, enabled, resource, missed, owed, failed, left,
                    relationVars, serviceVars, status, drift>>
        /\ run.step = "unset" /\ Goto("assess") /\ success' = FALSE /\ UNCHANGED dir
    BY <1>2 DEF Unset, Doing
  <2>a. /\ run' \in Run /\ run'.step = "assess"
        /\ run'.op = run.op /\ run'.zip = run.zip /\ run'.next = run.next
    BY <2>0, GotoType
  <2>b. success' \in BOOLEAN
    BY <2>0
  <2>1. StatusTypeOK' BY <2>0, <2>a, <2>b
  <2>2. WriteInv' BY <2>0, <2>a
  <2>3. SuccessInv' BY <2>0, <2>a
  <2>4. FailureInv' BY <2>0, <2>a
  <2>5. DisabledInv' BY <2>0, <2>a
  <2>6. BrokenInv' BY <2>0, <2>a
  <2>7. StatusInv' BY <2>0, <2>a
  <2> QED BY <2>1, <2>2, <2>3, <2>4, <2>5, <2>6, <2>7
<1>3. CASE Open
  <2>0. /\ UNCHANGED <<queens, enabled, resource, missed, owed, failed, left,
                    relationVars, serviceVars, status, drift>>
        /\ run.step = "open" /\ UNCHANGED dir
    BY <1>3 DEF Open, Doing
  <2>1. CASE resource.is = "unopenable"
    <3>0. Goto("abort") /\ UNCHANGED success
      BY <1>3, <2>1 DEF Open
    <3>a. /\ run' \in Run /\ run'.step = "abort"
          /\ run'.op = run.op /\ run'.zip = run.zip /\ run'.next = run.next
      BY <3>0, GotoType
    <3>1. StatusTypeOK' BY <2>0, <3>0, <3>a
    <3>2. WriteInv' BY <2>0, <3>0, <3>a
    <3>3. SuccessInv' BY <2>0, <3>0, <3>a
    <3>4. FailureInv' BY <2>0, <3>0, <3>a
    <3>5. DisabledInv' BY <2>0, <3>0, <3>a
    <3>6. BrokenInv' BY <2>0, <3>0, <3>a
    <3>7. StatusInv' BY <2>0, <3>0, <3>a
    <3> QED BY <3>1, <3>2, <3>3, <3>4, <3>5, <3>6, <3>7
  <2>2. CASE resource.is # "unopenable"
    <3>0. /\ run' = [run EXCEPT !.step = "clear", !.zip = resource, !.next = 1]
          /\ success' = FALSE
      BY <1>3, <2>2 DEF Open
    <3>a. /\ run' \in Run /\ run'.step = "clear"
          /\ run'.op = run.op /\ run'.zip = resource /\ run'.next = 1
      <4>1. run' = [op |-> run.op, step |-> "clear", zip |-> resource, next |-> 1]
        BY <3>0 DEF Run
      <4>2. run.op \in Ops /\ "clear" \in Steps /\ 1 \in 0..2
        BY DEF Run
      <4> QED BY <4>1, <4>2 DEF Run
    <3>b. resource \in Resources /\ resource.is \in {"good", "bad-file"}
      BY <2>2, OpenedResource
    <3>c. success' \in BOOLEAN
      BY <3>0
    <3>1. StatusTypeOK' BY <2>0, <3>0, <3>a, <3>b, <3>c
    <3>2. WriteInv' BY <2>0, <3>0, <3>a, <3>b
    <3>3. SuccessInv' BY <2>0, <3>0, <3>a, <3>b
    <3>4. FailureInv' BY <2>0, <3>0, <3>a, <3>b
    <3>5. DisabledInv' BY <2>0, <3>0, <3>a, <3>b
    <3>6. BrokenInv' BY <2>0, <3>0, <3>a, <3>b
    <3>7. StatusInv' BY <2>0, <3>0, <3>a, <3>b
    <3> QED BY <3>1, <3>2, <3>3, <3>4, <3>5, <3>6, <3>7
  <2> QED BY <2>1, <2>2
<1>4. CASE Clear
  <2>0. /\ UNCHANGED <<queens, enabled, resource, missed, owed, failed, left,
                    relationVars, serviceVars, status, drift>>
        /\ run.step = "clear" /\ Goto("write") /\ dir' = {} /\ UNCHANGED success
    BY <1>4 DEF Clear, Doing
  <2>a. /\ run' \in Run /\ run'.step = "write"
        /\ run'.op = run.op /\ run'.zip = run.zip /\ run'.next = run.next
    BY <2>0, GotoType
  <2>b. run.next = 1 /\ 1..(run.next - 1) = {}
    BY <2>0
  <2>1. StatusTypeOK' BY <2>0, <2>a
  <2>2. WriteInv' BY <2>0, <2>a, <2>b
  <2>3. SuccessInv' BY <2>0, <2>a
  <2>4. FailureInv' BY <2>0, <2>a
  <2>5. DisabledInv' BY <2>0, <2>a
  <2>6. BrokenInv' BY <2>0, <2>a
  <2>7. StatusInv' BY <2>0, <2>a
  <2> QED BY <2>1, <2>2, <2>3, <2>4, <2>5, <2>6, <2>7
<1>5. CASE WriteFile
  <2>0. /\ UNCHANGED <<queens, enabled, resource, missed, owed, failed, left,
                    relationVars, serviceVars, status, drift>>
        /\ run.step = "write" /\ UNCHANGED success
    BY <1>5 DEF WriteFile, Doing
  <2>1. CASE run.zip.is = "bad-file" /\ run.next = 2
    <3>0. Goto("abort") /\ UNCHANGED dir
      BY <1>5, <2>1 DEF WriteFile
    <3>a. /\ run' \in Run /\ run'.step = "abort"
          /\ run'.op = run.op /\ run'.zip = run.zip /\ run'.next = run.next
      BY <3>0, GotoType
    <3>1. StatusTypeOK' BY <2>0, <3>0, <3>a
    <3>2. WriteInv' BY <2>0, <3>0, <3>a
    <3>3. SuccessInv' BY <2>0, <3>0, <3>a
    <3>4. FailureInv' BY <2>0, <3>0, <3>a
    <3>5. DisabledInv' BY <2>0, <3>0, <3>a
    <3>6. BrokenInv' BY <2>0, <3>0, <3>a
    <3>7. StatusInv' BY <2>0, <3>0, <3>a
    <3> QED BY <3>1, <3>2, <3>3, <3>4, <3>5, <3>6, <3>7
  <2>2. CASE run.zip.is # "bad-file" /\ run.next = 2
    <3>0. Goto("finish") /\ dir' = dir \cup {[of |-> run.zip.id, file |-> 2]}
      BY <1>5, <2>2 DEF WriteFile
    <3>a. /\ run' \in Run /\ run'.step = "finish"
          /\ run'.op = run.op /\ run'.zip = run.zip /\ run'.next = run.next
      BY <3>0, GotoType
    <3>b. run.zip \in Resources /\ run.zip.is = "good" /\ run.zip.id \in Nat
      BY <2>0, <2>2 DEF Quality
    <3>c. dir' = FilesOf(run.zip)
      <4>1. 1..(run.next - 1) = {1} /\ Files = {1, 2}
        BY <2>2
      <4>2. dir = {[of |-> run.zip.id, file |-> 1]}
        BY <4>1, <2>0
      <4>3. FilesOf(run.zip) = {[of |-> run.zip.id, file |-> f] : f \in {1, 2}}
        BY <4>1
      <4> QED BY <4>2, <4>3, <3>0
    <3>d. dir' \subseteq [of : Nat, file : Files]
      BY <3>b, <3>0, <2>0
    <3>1. StatusTypeOK' BY <2>0, <3>a, <3>b, <3>c, <3>d
    <3>2. WriteInv' BY <2>0, <3>a, <3>b, <3>c, <3>d
    <3>3. SuccessInv' BY <2>0, <3>a, <3>b, <3>c, <3>d
    <3>4. FailureInv' BY <2>0, <3>a, <3>b, <3>c, <3>d
    <3>5. DisabledInv' BY <2>0, <3>a, <3>b, <3>c, <3>d
    <3>6. BrokenInv' BY <2>0, <3>a, <3>b, <3>c, <3>d
    <3>7. StatusInv' BY <2>0, <3>a, <3>b, <3>c, <3>d
    <3> QED BY <3>1, <3>2, <3>3, <3>4, <3>5, <3>6, <3>7
  <2>3. CASE run.next # 2
    <3>0. /\ run' = [run EXCEPT !.next = @ + 1]
          /\ dir' = dir \cup {[of |-> run.zip.id, file |-> run.next]}
      BY <1>5, <2>3 DEF WriteFile
    <3>z. run.next = 1
      BY <2>0, <2>3
    <3>a. /\ run' \in Run /\ run'.step = "write"
          /\ run'.op = run.op /\ run'.zip = run.zip /\ run'.next = 2
      <4>0. run = [op |-> run.op, step |-> "write", zip |-> run.zip, next |-> 1]
        BY <3>z, <2>0 DEF Run
      <4>1. run' = [op |-> run.op, step |-> "write", zip |-> run.zip, next |-> 2]
        BY <3>0, <4>0
      <4>2. run.op \in Ops /\ "write" \in Steps /\ 2 \in 0..2
            /\ run.zip \in Resources \cup {NotAttached}
        BY DEF Run
      <4> QED BY <4>1, <4>2 DEF Run
    <3>b. run.zip \in Resources /\ run.zip.id \in Nat
      BY <2>0 DEF Quality
    <3>c. dir' = {[of |-> run'.zip.id, file |-> f] : f \in 1..(run'.next - 1)}
      <4>1. 1..(run.next - 1) = {} /\ 1..(run'.next - 1) = {1}
        BY <3>z, <3>a
      <4>2. dir = {}
        BY <4>1, <2>0
      <4> QED BY <4>1, <4>2, <3>0, <3>a, <3>z
    <3>d. dir' \subseteq [of : Nat, file : Files]
      BY <3>b, <3>0, <3>z, <2>0
    <3>1. StatusTypeOK' BY <2>0, <3>a, <3>b, <3>c, <3>d
    <3>2. WriteInv' BY <2>0, <3>a, <3>b, <3>c, <3>d
    <3>3. SuccessInv' BY <2>0, <3>a, <3>b, <3>c, <3>d
    <3>4. FailureInv' BY <2>0, <3>a, <3>b, <3>c, <3>d
    <3>5. DisabledInv' BY <2>0, <3>a, <3>b, <3>c, <3>d
    <3>6. BrokenInv' BY <2>0, <3>a, <3>b, <3>c, <3>d
    <3>7. StatusInv' BY <2>0, <3>a, <3>b, <3>c, <3>d
    <3> QED BY <3>1, <3>2, <3>3, <3>4, <3>5, <3>6, <3>7
  <2> QED BY <2>1, <2>2, <2>3
<1>6. CASE Finish
  <2>0. /\ UNCHANGED <<queens, enabled, resource, missed, owed, failed, left,
                    relationVars, serviceVars, status, drift>>
        /\ run.step = "finish" /\ Goto("assess") /\ success' = TRUE /\ UNCHANGED dir
    BY <1>6 DEF Finish, Doing
  <2>a. /\ run' \in Run /\ run'.step = "assess"
        /\ run'.op = run.op /\ run'.zip = run.zip /\ run'.next = run.next
    BY <2>0, GotoType
  <2>1. StatusTypeOK' BY <2>0, <2>a
  <2>2. WriteInv' BY <2>0, <2>a
  <2>3. SuccessInv' BY <2>0, <2>a
  <2>4. FailureInv' BY <2>0, <2>a
  <2>5. DisabledInv' BY <2>0, <2>a
  <2>6. BrokenInv' BY <2>0, <2>a
  <2>7. StatusInv' BY <2>0, <2>a
  <2> QED BY <2>1, <2>2, <2>3, <2>4, <2>5, <2>6, <2>7
<1>7. CASE Abort
  <2>0. /\ UNCHANGED <<queens, enabled, resource, missed, owed, failed, left,
                    relationVars, serviceVars, status, drift>>
        /\ run.step = "abort" /\ Goto("assess") /\ dir' = {} /\ UNCHANGED success
    BY <1>7 DEF Abort, Doing
  <2>a. /\ run' \in Run /\ run'.step = "assess"
        /\ run'.op = run.op /\ run'.zip = run.zip /\ run'.next = run.next
    BY <2>0, GotoType
  <2>1. StatusTypeOK' BY <2>0, <2>a
  <2>2. WriteInv' BY <2>0, <2>a
  <2>3. SuccessInv' BY <2>0, <2>a
  <2>4. FailureInv' BY <2>0, <2>a
  <2>5. DisabledInv' BY <2>0, <2>a
  <2>6. BrokenInv' BY <2>0, <2>a
  <2>7. StatusInv' BY <2>0, <2>a
  <2> QED BY <2>1, <2>2, <2>3, <2>4, <2>5, <2>6, <2>7
<1> QED
  BY <1>1, <1>2, <1>3, <1>4, <1>5, <1>6, <1>7 DEF PolicyOverrides, PolicyStep

\* Every step keeps it.
LEMMA NextInv == Inv /\ [Next]_vars => Inv'
<1> SUFFICES ASSUME Inv, [Next]_vars PROVE Inv' OBVIOUS
<1> USE RunTypes
    DEF Inv, StatusTypeOK, TypeOK, PolicydTypeOK, WriteInv, SuccessInv, FailureInv,
        DisabledInv, BrokenInv, StatusInv, Owed, Writes, Fits, Ready, HaMissing,
        AllDone, Idle, PolicyHooks, OtherHooks, RelationHooks, PolicySteps, Files,
        FilesOf, policydVars, relationVars, serviceVars, UnitKept, Seen, States,
        Reasons, Ops, Steps
<1>1. CASE HaJoined
  <2>1. StatusTypeOK' BY <1>1 DEF HaJoined, Dispatch
  <2>2. WriteInv' BY <1>1 DEF HaJoined, Dispatch
  <2>3. SuccessInv' BY <1>1 DEF HaJoined, Dispatch
  <2>4. FailureInv' BY <1>1 DEF HaJoined, Dispatch
  <2>5. DisabledInv' BY <1>1 DEF HaJoined, Dispatch
  <2>6. BrokenInv' BY <1>1 DEF HaJoined, Dispatch
  <2>7. StatusInv' BY <1>1 DEF HaJoined, Dispatch
  <2> QED BY <2>1, <2>2, <2>3, <2>4, <2>5, <2>6, <2>7
<1>2. CASE UpdateStatus
  <2>1. StatusTypeOK' BY <1>2 DEF UpdateStatus
  <2>2. WriteInv' BY <1>2 DEF UpdateStatus
  <2>3. SuccessInv' BY <1>2 DEF UpdateStatus
  <2>4. FailureInv' BY <1>2 DEF UpdateStatus
  <2>5. DisabledInv' BY <1>2 DEF UpdateStatus
  <2>6. BrokenInv' BY <1>2 DEF UpdateStatus
  <2>7. StatusInv' BY <1>2 DEF UpdateStatus
  <2> QED BY <2>1, <2>2, <2>3, <2>4, <2>5, <2>6, <2>7
<1>3. CASE \E r \in Required : RelationHook(r)
  <2>1. StatusTypeOK' BY <1>3 DEF RelationHook
  <2>2. WriteInv' BY <1>3 DEF RelationHook
  <2>3. SuccessInv' BY <1>3 DEF RelationHook
  <2>4. FailureInv' BY <1>3 DEF RelationHook
  <2>5. DisabledInv' BY <1>3 DEF RelationHook
  <2>6. BrokenInv' BY <1>3 DEF RelationHook
  <2>7. StatusInv' BY <1>3 DEF RelationHook
  <2> QED BY <2>1, <2>2, <2>3, <2>4, <2>5, <2>6, <2>7
<1>4. CASE \E h \in {"config-changed", "ha-joined"} : HookRaises(h)
  <2>1. StatusTypeOK' BY <1>4 DEF HookRaises, HaJoinedRaises
  <2>2. WriteInv' BY <1>4 DEF HookRaises, HaJoinedRaises
  <2>3. SuccessInv' BY <1>4 DEF HookRaises, HaJoinedRaises
  <2>4. FailureInv' BY <1>4 DEF HookRaises, HaJoinedRaises
  <2>5. DisabledInv' BY <1>4 DEF HookRaises, HaJoinedRaises
  <2>6. BrokenInv' BY <1>4 DEF HookRaises, HaJoinedRaises
  <2>7. StatusInv' BY <1>4 DEF HookRaises, HaJoinedRaises
  <2> QED BY <2>1, <2>2, <2>3, <2>4, <2>5, <2>6, <2>7
<1>5. CASE Killed
  <2>0. left' \in Budgets
    BY <1>5, SpendType DEF Killed, KilledAmidPolicy
  <2>a. owed' \subseteq PolicyHooks \cup OtherHooks /\ failed' \in owed'
    BY <1>5 DEF Killed, KilledAmidPolicy
  <2>1. StatusTypeOK' BY <1>5, <2>0, <2>a DEF Killed, KilledAmidPolicy
  <2>2. WriteInv' BY <1>5 DEF Killed, KilledAmidPolicy
  <2>3. SuccessInv' BY <1>5 DEF Killed, KilledAmidPolicy
  <2>4. FailureInv' BY <1>5 DEF Killed, KilledAmidPolicy
  <2>5. DisabledInv' BY <1>5 DEF Killed, KilledAmidPolicy
  <2>6. BrokenInv' BY <1>5 DEF Killed, KilledAmidPolicy
  <2>7. StatusInv' BY <1>5 DEF Killed, KilledAmidPolicy
  <2> QED BY <2>1, <2>2, <2>3, <2>4, <2>5, <2>6, <2>7
<1>6. CASE \E r \in Required : Relate(r)
  <2>0. left' \in Budgets
    BY <1>6, SpendType DEF Relate
  <2>1. StatusTypeOK' BY <1>6, <2>0 DEF Relate
  <2>2. WriteInv' BY <1>6 DEF Relate
  <2>3. SuccessInv' BY <1>6 DEF Relate
  <2>4. FailureInv' BY <1>6 DEF Relate
  <2>5. DisabledInv' BY <1>6 DEF Relate
  <2>6. BrokenInv' BY <1>6 DEF Relate
  <2>7. StatusInv' BY <1>6 DEF Relate
  <2> QED BY <2>1, <2>2, <2>3, <2>4, <2>5, <2>6, <2>7
<1>7. CASE \E r \in Required : RemoteSets(r)
  <2>1. StatusTypeOK' BY <1>7 DEF RemoteSets
  <2>2. WriteInv' BY <1>7 DEF RemoteSets
  <2>3. SuccessInv' BY <1>7 DEF RemoteSets
  <2>4. FailureInv' BY <1>7 DEF RemoteSets
  <2>5. DisabledInv' BY <1>7 DEF RemoteSets
  <2>6. BrokenInv' BY <1>7 DEF RemoteSets
  <2>7. StatusInv' BY <1>7 DEF RemoteSets
  <2> QED BY <2>1, <2>2, <2>3, <2>4, <2>5, <2>6, <2>7
<1>8. CASE \E r \in Required : Departs(r)
  <2>0. left' \in Budgets
    BY <1>8, SpendType DEF Departs
  <2>1. StatusTypeOK' BY <1>8, <2>0 DEF Departs
  <2>2. WriteInv' BY <1>8 DEF Departs
  <2>3. SuccessInv' BY <1>8 DEF Departs
  <2>4. FailureInv' BY <1>8 DEF Departs
  <2>5. DisabledInv' BY <1>8 DEF Departs
  <2>6. BrokenInv' BY <1>8 DEF Departs
  <2>7. StatusInv' BY <1>8 DEF Departs
  <2> QED BY <2>1, <2>2, <2>3, <2>4, <2>5, <2>6, <2>7
<1>9. CASE \E r \in Required : Breaks(r)
  <2>0. left' \in Budgets
    BY <1>9, SpendType DEF Breaks
  <2>1. StatusTypeOK' BY <1>9, <2>0 DEF Breaks
  <2>2. WriteInv' BY <1>9 DEF Breaks
  <2>3. SuccessInv' BY <1>9 DEF Breaks
  <2>4. FailureInv' BY <1>9 DEF Breaks
  <2>5. DisabledInv' BY <1>9 DEF Breaks
  <2>6. BrokenInv' BY <1>9 DEF Breaks
  <2>7. StatusInv' BY <1>9 DEF Breaks
  <2> QED BY <2>1, <2>2, <2>3, <2>4, <2>5, <2>6, <2>7
<1>10. CASE RelateHa
  <2>0. left' \in Budgets
    BY <1>10, SpendType DEF RelateHa
  <2>a. /\ ha' \in [related : BOOLEAN, vip : BOOLEAN]
        /\ owed \subseteq owed' /\ owed' \subseteq PolicyHooks \cup OtherHooks
        /\ UNCHANGED failed
    BY <1>10 DEF RelateHa
  <2>1. StatusTypeOK' BY <1>10, <2>0, <2>a DEF RelateHa
  <2>2. WriteInv' BY <1>10 DEF RelateHa
  <2>3. SuccessInv' BY <1>10 DEF RelateHa
  <2>4. FailureInv' BY <1>10 DEF RelateHa
  <2>5. DisabledInv' BY <1>10 DEF RelateHa
  <2>6. BrokenInv' BY <1>10 DEF RelateHa
  <2>7. StatusInv' BY <1>10 DEF RelateHa
  <2> QED BY <2>1, <2>2, <2>3, <2>4, <2>5, <2>6, <2>7
<1>11. CASE SetVip
  <2>0. left' \in Budgets
    BY <1>11, SpendType DEF SetVip
  <2>a. /\ ha' \in [related : BOOLEAN, vip : BOOLEAN]
        /\ owed \subseteq owed' /\ owed' \subseteq PolicyHooks \cup OtherHooks
        /\ UNCHANGED failed
    BY <1>11 DEF SetVip
  <2>1. StatusTypeOK' BY <1>11, <2>0, <2>a DEF SetVip
  <2>2. WriteInv' BY <1>11 DEF SetVip
  <2>3. SuccessInv' BY <1>11 DEF SetVip
  <2>4. FailureInv' BY <1>11 DEF SetVip
  <2>5. DisabledInv' BY <1>11 DEF SetVip
  <2>6. BrokenInv' BY <1>11 DEF SetVip
  <2>7. StatusInv' BY <1>11 DEF SetVip
  <2> QED BY <2>1, <2>2, <2>3, <2>4, <2>5, <2>6, <2>7
<1>12. CASE ServiceDies
  <2>0. left' \in Budgets
    BY <1>12, SpendType DEF ServiceDies
  <2>a. up' \in BOOLEAN /\ drift' \in BOOLEAN
    BY <1>12 DEF ServiceDies
  <2>1. StatusTypeOK' BY <1>12, <2>0, <2>a DEF ServiceDies
  <2>2. WriteInv' BY <1>12 DEF ServiceDies
  <2>3. SuccessInv' BY <1>12 DEF ServiceDies
  <2>4. FailureInv' BY <1>12 DEF ServiceDies
  <2>5. DisabledInv' BY <1>12 DEF ServiceDies
  <2>6. BrokenInv' BY <1>12 DEF ServiceDies
  <2>7. StatusInv' BY <1>12 DEF ServiceDies
  <2> QED BY <2>1, <2>2, <2>3, <2>4, <2>5, <2>6, <2>7
<1>13. CASE UpgradeSeries
  <2>0. left' \in Budgets
    BY <1>13, SpendType DEF UpgradeSeries
  <2>1. StatusTypeOK' BY <1>13, <2>0 DEF UpgradeSeries
  <2>2. WriteInv' BY <1>13 DEF UpgradeSeries
  <2>3. SuccessInv' BY <1>13 DEF UpgradeSeries
  <2>4. FailureInv' BY <1>13 DEF UpgradeSeries
  <2>5. DisabledInv' BY <1>13 DEF UpgradeSeries
  <2>6. BrokenInv' BY <1>13 DEF UpgradeSeries
  <2>7. StatusInv' BY <1>13 DEF UpgradeSeries
  <2> QED BY <2>1, <2>2, <2>3, <2>4, <2>5, <2>6, <2>7
<1>14. CASE Options /\ Toggle
  <2>0. left' \in Budgets
    BY <1>14, SpendType DEF Toggle, Options
  <2>1. StatusTypeOK' BY <1>14, <2>0 DEF Toggle, Options
  <2>2. WriteInv' BY <1>14 DEF Toggle, Options
  <2>3. SuccessInv' BY <1>14 DEF Toggle, Options
  <2>4. FailureInv' BY <1>14 DEF Toggle, Options
  <2>5. DisabledInv' BY <1>14 DEF Toggle, Options
  <2>6. BrokenInv' BY <1>14 DEF Toggle, Options
  <2>7. StatusInv' BY <1>14 DEF Toggle, Options
  <2> QED BY <2>1, <2>2, <2>3, <2>4, <2>5, <2>6, <2>7
<1>15. CASE \E r \in Resources : Options /\ Attach(r)
  <2>0. left' \in Budgets
    BY <1>15, SpendType DEF Attach, Options
  <2>1. StatusTypeOK' BY <1>15, <2>0 DEF Attach, Options
  <2>2. WriteInv' BY <1>15 DEF Attach, Options
  <2>3. SuccessInv' BY <1>15 DEF Attach, Options
  <2>4. FailureInv' BY <1>15 DEF Attach, Options
  <2>5. DisabledInv' BY <1>15 DEF Attach, Options
  <2>6. BrokenInv' BY <1>15 DEF Attach, Options
  <2>7. StatusInv' BY <1>15 DEF Attach, Options
  <2> QED BY <2>1, <2>2, <2>3, <2>4, <2>5, <2>6, <2>7
<1>16. CASE PreSeriesUpgrade
  <2>0. left' \in Budgets /\ up' \in BOOLEAN /\ paused' \in BOOLEAN
    <3>1. CASE paused
      <4>1. UNCHANGED <<up, paused, left>>
        BY <1>16, <3>1 DEF PreSeriesUpgrade
      <4> QED BY <4>1
    <3>2. CASE ~paused
      <4>1. Switched(FALSE) /\ paused' = TRUE
        BY <1>16, <3>2 DEF PreSeriesUpgrade
      <4> QED BY <4>1, SwitchedType
    <3> QED BY <3>1, <3>2
  <2>a. upgrading' \in BOOLEAN
    BY <1>16 DEF PreSeriesUpgrade, SetUpgrading
  <2>b. /\ UNCHANGED <<policydVars, relationVars, status, drift>>
        /\ owed' \subseteq owed /\ failed' = "none" /\ run' \in Run
        /\ run'.step = "assess"
    BY <1>16 DEF PreSeriesUpgrade, Dispatch
  <2>1. StatusTypeOK'
    BY <1>16, <2>0, <2>a, <2>b DEF PreSeriesUpgrade, Dispatch, SetUpgrading
  <2>2. WriteInv' BY <1>16 DEF PreSeriesUpgrade, Dispatch, SetUpgrading
  <2>3. SuccessInv' BY <1>16 DEF PreSeriesUpgrade, Dispatch, SetUpgrading
  <2>4. FailureInv' BY <1>16 DEF PreSeriesUpgrade, Dispatch, SetUpgrading
  <2>5. DisabledInv' BY <1>16 DEF PreSeriesUpgrade, Dispatch, SetUpgrading
  <2>6. BrokenInv' BY <1>16 DEF PreSeriesUpgrade, Dispatch, SetUpgrading
  <2>7. StatusInv' BY <1>16 DEF PreSeriesUpgrade, Dispatch, SetUpgrading
  <2> QED BY <2>1, <2>2, <2>3, <2>4, <2>5, <2>6, <2>7
<1>17. CASE PostSeriesUpgrade
  <2>0. left' \in Budgets /\ up' \in BOOLEAN
    <3>1. Switched(TRUE)
      BY <1>17 DEF PostSeriesUpgrade
    <3> QED BY <3>1, SwitchedType
  <2>a. upgrading' \in BOOLEAN /\ paused' \in BOOLEAN
    BY <1>17 DEF PostSeriesUpgrade, SetUpgrading
  <2>b. /\ UNCHANGED <<policydVars, relationVars, status, drift>>
        /\ owed' \subseteq owed /\ failed' = "none" /\ run' \in Run
        /\ run'.step = "assess"
    BY <1>17 DEF PostSeriesUpgrade, Dispatch
  <2>1. StatusTypeOK'
    BY <1>17, <2>0, <2>a, <2>b DEF PostSeriesUpgrade, Dispatch, SetUpgrading
  <2>2. WriteInv' BY <1>17 DEF PostSeriesUpgrade, Dispatch, SetUpgrading
  <2>3. SuccessInv' BY <1>17 DEF PostSeriesUpgrade, Dispatch, SetUpgrading
  <2>4. FailureInv' BY <1>17 DEF PostSeriesUpgrade, Dispatch, SetUpgrading
  <2>5. DisabledInv' BY <1>17 DEF PostSeriesUpgrade, Dispatch, SetUpgrading
  <2>6. BrokenInv' BY <1>17 DEF PostSeriesUpgrade, Dispatch, SetUpgrading
  <2>7. StatusInv' BY <1>17 DEF PostSeriesUpgrade, Dispatch, SetUpgrading
  <2> QED BY <2>1, <2>2, <2>3, <2>4, <2>5, <2>6, <2>7
<1>18. CASE \E on \in BOOLEAN : PauseOrResume(on)
  <2> PICK on \in BOOLEAN : PauseOrResume(on)
    BY <1>18
  <2>0. left' \in Budgets /\ up' \in BOOLEAN /\ paused' \in BOOLEAN
    <3>1. /\ left' = [left EXCEPT !.events = @ - 1] /\ left.events > 0
          /\ left.events \in Nat /\ left.faults \in Nat
          => left' \in Budgets
      BY DEF Budgets
    <3>2. /\ left' = [left EXCEPT !.events = @ - 1, !.faults = @ - 1]
          /\ left.events > 0 /\ left.faults > 0
          /\ left.events \in Nat /\ left.faults \in Nat
          => left' \in Budgets
      <4>1. left = [events |-> left.events, faults |-> left.faults]
        BY DEF Budgets
      <4>2. left' = [left EXCEPT !.events = @ - 1, !.faults = @ - 1]
            => left' = [events |-> left.events - 1, faults |-> left.faults - 1]
        BY <4>1
      <4> QED BY <4>2 DEF Budgets
    <3>3. left.events \in Nat /\ left.faults \in Nat
      BY DEF Budgets
    <3>4. up' \in BOOLEAN /\ paused' \in BOOLEAN
      BY DEF PauseOrResume
    <3> QED BY <3>1, <3>2, <3>3, <3>4 DEF PauseOrResume
  <2>1. StatusTypeOK' BY <2>0 DEF PauseOrResume
  <2>2. WriteInv' BY DEF PauseOrResume
  <2>3. SuccessInv' BY DEF PauseOrResume
  <2>4. FailureInv' BY DEF PauseOrResume
  <2>5. DisabledInv' BY DEF PauseOrResume
  <2>6. BrokenInv' BY DEF PauseOrResume
  <2>7. StatusInv' BY DEF PauseOrResume
  <2> QED BY <2>1, <2>2, <2>3, <2>4, <2>5, <2>6, <2>7
<1>19. CASE \E h \in PolicyHooks : ConfigOrCharm(h)
  <2> PICK h \in PolicyHooks : ConfigOrCharm(h)
    BY <1>19
  <2>0. /\ UNCHANGED <<enabled, resource, dir, success, left, relationVars,
                      serviceVars, status, drift>>
        /\ Idle /\ h \in owed /\ owed' = owed \ {h} /\ failed' = "none"
    BY DEF ConfigOrCharm, PolicyHook, Dispatch
  <2>a. CASE h = "config-changed" /\ paused
    <3>0. run' = Executes(h, "assess") /\ missed' = TRUE /\ UNCHANGED queens
      BY <2>a DEF ConfigOrCharm, PolicyHook
    <3>a. run' \in Run /\ run'.op = h /\ run'.step = "assess"
      BY <3>0
    <3>b. missed' \in BOOLEAN
      BY <3>0
    <3>c. "upgrade-charm" \in owed => "upgrade-charm" \in owed'
      BY <2>0, <2>a
    <3>1. StatusTypeOK' BY <2>0, <3>0, <3>a, <3>b
    <3>2. WriteInv' BY <2>0, <3>0, <3>a
    <3>3. SuccessInv' BY <2>0, <3>0, <3>a, <3>c
    <3>4. FailureInv' BY <2>0, <3>0, <3>a
    <3>5. DisabledInv' BY <2>0, <3>0, <3>a
    <3>6. BrokenInv' BY <2>0, <3>0, <3>a
    <3>7. StatusInv' BY <2>0, <3>0, <3>a
    <3> QED BY <3>1, <3>2, <3>3, <3>4, <3>5, <3>6, <3>7
  <2>b. CASE ~(h = "config-changed" /\ paused)
    <3>0. /\ queens' \in BOOLEAN /\ (queens => queens')
          /\ h # "config-changed" => UNCHANGED queens
          /\ run' = Executes(h, FirstStep(h))
          /\ missed' = (missed /\ h # "config-changed")
      BY <2>b DEF ConfigOrCharm, PolicyHook
    <3>c. /\ ~queens' => FirstStep(h) = "assess"
          /\ queens' /\ ~enabled => FirstStep(h) = "clean"
          /\ queens' /\ enabled /\ h = "config-changed" /\ success
                => FirstStep(h) = "assess"
          /\ queens' /\ enabled /\ ~(h = "config-changed" /\ success)
                => FirstStep(h) = "open"
      BY DEF FirstStep
    <3>d. FirstStep(h) \in {"assess", "clean", "open"}
      BY <3>c, <3>0
    <3>a. run' \in Run /\ run'.op = h /\ run'.step = FirstStep(h)
      BY <3>0, <3>d
    <3>b. missed' \in BOOLEAN
      BY <3>0
    <3>1. StatusTypeOK' BY <2>0, <3>0, <3>a, <3>c, <3>d, <3>b
    <3>2. WriteInv' BY <2>0, <3>0, <3>a, <3>c, <3>d
    <3>3. SuccessInv' BY <2>0, <3>0, <3>a, <3>c, <3>d
    <3>4. FailureInv' BY <2>0, <3>0, <3>a, <3>c, <3>d
    <3>5. DisabledInv' BY <2>0, <3>0, <3>a, <3>c, <3>d
    <3>6. BrokenInv' BY <2>0, <3>0, <3>a, <3>c, <3>d
    <3>7. StatusInv' BY <2>0, <3>0, <3>a, <3>c, <3>d
    <3> QED BY <3>1, <3>2, <3>3, <3>4, <3>5, <3>6, <3>7
  <2> QED BY <2>a, <2>b
<1>20. CASE Assess
  <2>0. /\ run.step = "assess" /\ status' = Determine /\ drift' = FALSE
        /\ relation' = [r \in Required |-> IF r = about /\ run.op = "broken"
                                             THEN "absent" ELSE relation[r]]
        /\ run' = NoRun /\ about' = "none"
        /\ UNCHANGED <<policydVars, due, ha, serviceVars, left>>
    BY <1>20 DEF Assess, AssessStatus
  <2>a. owed \subseteq owed' /\ owed' \subseteq PolicyHooks \cup OtherHooks
        /\ failed' \in owed' \cup {"none"}
    <3>1. \/ UNCHANGED <<owed, failed>>
          \/ /\ run.op = "post-series-upgrade"
             /\ owed' = owed \cup {run.op} /\ failed' = run.op
      BY <1>20 DEF Assess
    <3>2. CASE UNCHANGED <<owed, failed>>
      BY <3>2
    <3>3. CASE /\ run.op = "post-series-upgrade"
               /\ owed' = owed \cup {run.op} /\ failed' = run.op
      BY <3>3
    <3> QED BY <3>1, <3>2, <3>3
  <2>b. relation' \in [Required -> Seen] /\ drift' \in BOOLEAN
    BY <2>0
  <2>c. \A r \in Required : relation'[r] = "complete" <=> relation[r] = "complete"
    BY <2>0
  <2>d. Fits(Determine) /\ Determine \in [state : States, why : SUBSET Reasons]
    BY DetermineFits
  <2>e. Ready' = Ready
    BY <2>0, <2>c
  <2>f. Fits(status)'
    BY <2>0, <2>d, <2>e
  <2>1. StatusTypeOK' BY <2>0, <2>a, <2>b, <2>d
  <2>2. WriteInv' BY <2>0, <2>a, <2>b
  <2>3. SuccessInv' BY <2>0, <2>a, <2>b
  <2>4. FailureInv' BY <2>0, <2>a, <2>b
  <2>5. DisabledInv' BY <2>0, <2>a, <2>b
  <2>6. BrokenInv' BY <2>0, <2>a, <2>b
  <2>7. StatusInv' BY <2>0, <2>a, <2>b, <2>f
  <2> QED BY <2>1, <2>2, <2>3, <2>4, <2>5, <2>6, <2>7
<1>21. CASE PolicyOverrides BY <1>21, PolicyInv
<1>22. CASE UNCHANGED vars BY <1>22 DEF vars
<1> QED
  BY <1>1, <1>2, <1>3, <1>4, <1>5, <1>6, <1>7, <1>8, <1>9, <1>10, <1>11, <1>12,
     <1>13, <1>14, <1>15, <1>16, <1>17, <1>18, <1>19, <1>20, <1>21,
     <1>22 DEF Next, Hook, Proceed, Environment, Options, Operator

\* It holds initially: Init has no complete relation, and some are required.
LEMMA InitInv == Init => Inv
<1> SUFFICES ASSUME Init PROVE Inv OBVIOUS
<1> USE RunTypes DEF Init, PolicydInit
<1>1. StatusTypeOK
  <2>1. left \in Budgets
    BY DEF Budgets
  <2>2. status \in [state : States, why : SUBSET Reasons]
    BY DEF States, Reasons
  <2>3. run.step \in PolicySteps \cup {"idle", "assess"} /\ run \in Run
    OBVIOUS
  <2>4. PolicydTypeOK
    BY DEF PolicydTypeOK
  <2> QED BY <2>1, <2>2, <2>3, <2>4 DEF StatusTypeOK, TypeOK, Seen
<1>2. WriteInv /\ SuccessInv /\ FailureInv /\ DisabledInv /\ BrokenInv
  BY DEF WriteInv, SuccessInv, FailureInv, DisabledInv, BrokenInv, Writes,
         PolicySteps
<1>3. StatusInv
  <2>1. \E r \in Required : relation[r] # "complete"
    BY WorkloadStatusAssumption DEF WorkloadStatusAssumption
  <2> QED BY <2>1 DEF StatusInv, AllDone, Fits, Ready
<1> QED BY <1>1, <1>2, <1>3 DEF Inv

LEMMA Invariance == Spec => []Inv
BY InitInv, NextInv, PTL DEF Spec

-----------------------------------------------------------------------------
(* The theorems. *)

\* The variables keep their types, those of Policyd among them.
THEOREM TypeCorrect == Spec => []TypeOK
<1>1. Inv => TypeOK BY DEF Inv, StatusTypeOK
<1> QED BY <1>1, Invariance, PTL

\* For any relations, and however hooks, actions, relations, services and failures
\* interleave: when nothing is owed, active means that the unit can work and
\* maintenance that it is down because it was paused.
THEOREM TheStatusIsTrue == Spec => []StatusIsTrue
<1>1. Inv => StatusIsTrue BY DEF Inv, StatusInv, Fits, StatusIsTrue
<1> QED BY <1>1, Invariance, PTL

\* For any resources, and wherever a hook that rewrites policy.d is killed: at
\* rest the directory holds the attached resource, whole, or nothing.
THEOREM PolicyIsWholeOrGone == Spec => []OverridesAreSound
<1>1. Inv => OverridesAreSound
  <2> SUFFICES ASSUME Inv PROVE OverridesAreSound OBVIOUS
  <2> USE DEF Inv, StatusTypeOK, AtRest, Idle, Owed, PolicySteps
  <2>1. AllOrNothing
    BY DEF AllOrNothing, SuccessInv, FailureInv
  <2>2. InstalledIsAttached
    BY DEF InstalledIsAttached, SuccessInv, FailureInv, PolicyHooks
  <2>3. BrokenMeansNone
    BY DEF BrokenMeansNone, Prefix, FailureInv
  <2>4. DisabledMeansNone
    BY DEF DisabledMeansNone, DisabledInv
  <2> QED BY <2>1, <2>2, <2>3, <2>4 DEF OverridesAreSound
<1> QED BY <1>1, Invariance, PTL
=============================================================================
