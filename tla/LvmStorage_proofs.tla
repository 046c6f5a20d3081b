------------------------- MODULE LvmStorage_proofs -------------------------
(***************************************************************************)
(* Proofs about LvmStorage, for any devices, options and bounds.           *)
(***************************************************************************)
EXTENDS LvmStorage, SequenceTheorems, TLAPS

USE LvmStorageAssumption DEF LvmStorageAssumption

-----------------------------------------------------------------------------
(***************************************************************************)
(* Sequences of devices.                                                   *)
(***************************************************************************)

\* The first element of a sequence and the rest make up its elements.
LEMMA HeadAndTail ==
    ASSUME NEW s \in Seq(Device), s # << >>
    PROVE  /\ Head(s) \in Device /\ Tail(s) \in Seq(Device)
           /\ ToSet(s) = {Head(s)} \cup ToSet(Tail(s))
<1>1. Head(s) \in Device /\ Tail(s) \in Seq(Device)
  BY HeadTailProperties
<1>2. /\ Len(s) \in Nat /\ Len(s) >= 1
      /\ Len(Tail(s)) = Len(s) - 1
      /\ Head(s) = s[1]
      /\ \A i \in 1..Len(Tail(s)) : Tail(s)[i] = s[i + 1]
  BY HeadTailProperties, EmptySeq, LenProperties
<1>3. ToSet(Tail(s)) = {Tail(s)[i] : i \in 1..Len(Tail(s))}
  BY <1>1, LenProperties DEF ToSet
<1>4. ToSet(s) = {s[i] : i \in 1..Len(s)}
  BY LenProperties DEF ToSet
<1>5. \A i \in 1..Len(s) : i = 1 \/ i - 1 \in 1..Len(Tail(s))
  BY <1>2
<1>6. \A i \in 1..Len(s) : s[i] = Head(s) \/ s[i] \in ToSet(Tail(s))
  <2> TAKE i \in 1..Len(s)
  <2>1. CASE i = 1
    BY <2>1, <1>2
  <2>2. CASE i # 1
    <3>1. i - 1 \in 1..Len(Tail(s)) /\ (i - 1) + 1 = i
      BY <2>2, <1>5
    <3>2. Tail(s)[i - 1] = s[i]
      BY <3>1, <1>2
    <3> QED BY <3>1, <3>2, <1>3
  <2> QED BY <2>1, <2>2
<1>7. \A j \in 1..Len(Tail(s)) : Tail(s)[j] \in ToSet(s)
  <2> TAKE j \in 1..Len(Tail(s))
  <2>1. j + 1 \in 1..Len(s) /\ Tail(s)[j] = s[j + 1]
    BY <1>2
  <2> QED BY <2>1, <1>4
<1>8. Head(s) \in ToSet(s)
  BY <1>2, <1>4
<1> QED BY <1>1, <1>3, <1>4, <1>6, <1>7, <1>8

\* An element that is appended is added to the elements.
LEMMA AppendElements ==
    ASSUME NEW s \in Seq(Device), NEW d \in Device
    PROVE  ToSet(Append(s, d)) = ToSet(s) \cup {d}
<1>1. /\ Append(s, d) \in Seq(Device) /\ Len(Append(s, d)) = Len(s) + 1
      /\ \A i \in 1..Len(s) : Append(s, d)[i] = s[i]
      /\ Append(s, d)[Len(s) + 1] = d
  BY AppendProperties
<1>2. Len(s) \in Nat /\ ToSet(s) = {s[i] : i \in 1..Len(s)}
  BY LenProperties DEF ToSet
<1>3. ToSet(Append(s, d)) = {Append(s, d)[i] : i \in 1..(Len(s) + 1)}
  BY <1>1, LenProperties DEF ToSet
<1>4. 1..(Len(s) + 1) = 1..Len(s) \cup {Len(s) + 1}
  BY <1>2
<1> QED BY <1>1, <1>2, <1>3, <1>4

\* The empty sequence has no elements.
LEMMA NoElements == ToSet(<< >>) = {}
BY DEF ToSet

-----------------------------------------------------------------------------
(***************************************************************************)
(* Data and the volume group survive.                                      *)
(*                                                                         *)
(* KeptWithoutOverwrite and GroupSurvives speak of single steps, and each  *)
(* depends on what the hook decided several steps earlier: the device that *)
(* is cleaned is one that it may use, and the group is removed only after  *)
(* all devices have been examined and none was in it.  SafeInv carries     *)
(* these decisions from step to step.                                      *)
(***************************************************************************)

\* Every device of the options that the hook saw in our group it has found, or
\* has still to examine.
ScanInv == \A d \in run.seen \cap Ours : run.found \/ d \in ToSet(run.left)

\* Every device that the hook has put aside for the group is a physical volume,
\* but for one that is being initialised a second time.
NewInv == \A d \in ToSet(run.new) :
              disk[d] = "pv" \/ (run.step = "pvcreate" /\ d = This)

SafeInv ==
    /\ TypeOK
    /\ NewInv
    /\ \A d \in data : disk[d] # "blank"
    /\ \A d \in Ours : disk[d] = "pv"
    /\ run.step \in {"scan", "clean", "pvcreate"} => ScanInv
    /\ run.step \in {"clean", "pvcreate"} => run.left # << >>
    /\ run.step = "clean" => Prepares(This)
    /\ run.step = "pvcreate" => This \notin Ours
    /\ run.step = "vgremove" => opts.overwrite /\ run.seen \cap Ours = {}
    /\ run.step \in {"vgremove", "vgcreate", "extend", "grow"} => run.new # << >>

\* The first device to examine, or the first new one, is a device.
LEMMA ThisIsADevice ==
    ASSUME SafeInv, run.step \in {"clean", "pvcreate", "vgcreate", "extend",
                                  "grow"}
    PROVE  This \in Device
<1>1. run.left \in Seq(Device) /\ run.new \in Seq(Device)
  BY DEF SafeInv, TypeOK, Run
<1> QED BY <1>1, HeadAndTail DEF SafeInv, This

\* No execution is a well-formed one.
LEMMA NoRunIsRun == NoRun \in Run
<1>1. << >> \in Seq(Device)
  BY EmptySeq
<1> QED BY <1>1 DEF NoRun, Run, Step

\* The strengthened invariant is inductive.
LEMMA SafeIsInductive == Spec => []SafeInv
<1>1. Init => SafeInv
  <2> SUFFICES ASSUME Init PROVE SafeInv
    OBVIOUS
  <2>1. TypeOK
    BY NoRunIsRun DEF Init, TypeOK, Disk, Group
  <2>2. run.step = "idle" /\ run.new = << >>
    BY DEF Init, NoRun
  <2>3. NewInv
    BY <2>2, NoElements DEF NewInv
  <2>4. Ours = {}
    BY DEF Init, Ours
  <2>5. \A d \in data : disk[d] # "blank"
    BY DEF Init
  <2> QED BY <2>1, <2>2, <2>3, <2>4, <2>5 DEF SafeInv
<1>2. SafeInv /\ [Next]_vars => SafeInv'
  <2> SUFFICES ASSUME SafeInv, [Next]_vars PROVE SafeInv'
    OBVIOUS
  <2>0. /\ run \in Run /\ TypeOK
        /\ run.left \in Seq(Device) /\ run.new \in Seq(Device)
    BY DEF SafeInv, TypeOK, Run
  \* The host, the operator and cinder: they move no device into our group and
  \* do not touch the execution.
  <2>1. CASE UNCHANGED vars
    BY <2>1 DEF vars, SafeInv, NewInv, TypeOK, ScanInv, Ours, This,
                Prepares
  <2>2. ASSUME NEW d \in Device, Attach(d) PROVE SafeInv'
    BY <2>2 DEF Attach, disks, SafeInv, NewInv, TypeOK, ScanInv, Ours, This,
                Prepares
  <2>3. ASSUME NEW d \in Device, Detach(d) PROVE SafeInv'
    BY <2>3 DEF Detach, disks, SafeInv, NewInv, TypeOK, ScanInv, Ours, This,
                Prepares
  <2>4. ASSUME NEW d \in Device, Mount(d) PROVE SafeInv'
    BY <2>4 DEF Mount, disks, SafeInv, NewInv, TypeOK, ScanInv, Ours, This,
                Prepares
  <2>5. ASSUME NEW d \in Device, Unmount(d) PROVE SafeInv'
    BY <2>5 DEF Unmount, disks, SafeInv, NewInv, TypeOK, ScanInv, Ours, This,
                Prepares
  <2>6. ASSUME NEW d \in Device, CreateVolume(d) PROVE SafeInv'
    BY <2>6 DEF CreateVolume, host, SafeInv, NewInv, TypeOK, ScanInv, Ours, This,
                Prepares
  <2>7. CASE CreatePool
    BY <2>7 DEF CreatePool, host, SafeInv, NewInv, TypeOK, ScanInv, Ours, This,
                Prepares
  <2>8. ASSUME NEW o \in Options, SetOptions(o) PROVE SafeInv'
    <3>1. /\ run' = run /\ run.step = "idle"
          /\ disk' = disk /\ group' = group /\ data' = data
      BY <2>8 DEF SetOptions, disks, Idle
    <3>2. TypeOK'
      <4>1. budget' \in [sets : Nat, events : Nat, fails : Nat]
        BY <2>8, <2>0 DEF SetOptions, TypeOK
      <4> QED BY <2>8, <2>0, <4>1 DEF SetOptions, disks, host, TypeOK
    <3>3. NewInv' /\ Ours' = Ours
      BY <3>1 DEF SafeInv, NewInv, Ours
    <3> QED BY <3>1, <3>2, <3>3 DEF SafeInv
  <2>9. CASE StartHook
    <3>1. opts.listed \in Seq(Device)
      BY <2>0 DEF TypeOK, Option
    <3>2. ToSet(opts.listed) \cap (attached \ mounted) \subseteq Device
      BY <2>0 DEF TypeOK
    <3>3. /\ run' \in Run /\ run'.step = "scan" /\ run'.left = opts.listed
          /\ run'.seen = ToSet(opts.listed) \cap (attached \ mounted)
          /\ run'.new = << >>
      BY <2>9, <3>1, <3>2, NoRunIsRun DEF StartHook, NoRun, Run, Step
    <3>4. TypeOK'
      BY <2>9, <3>3, <2>0 DEF StartHook, TypeOK, disks, host
    <3>5. disk' = disk /\ group' = group /\ data' = data
      BY <2>9 DEF StartHook, disks
    <3>6. NewInv'
      BY <3>3, NoElements DEF NewInv
    <3>7. ScanInv'
      BY <2>9, <3>3 DEF ScanInv, Ours
    <3>8. Ours' = Ours
      BY <3>5 DEF Ours
    <3> QED BY <3>3, <3>4, <3>5, <3>6, <3>7, <3>8 DEF SafeInv
  <2>10. CASE Examine
    <3>0. /\ run.step = "scan" /\ run.left # << >>
          /\ This = Head(run.left)
      BY <2>10 DEF Examine, This
    <3>1. CASE This \in run.seen /\ Prepares(This)
      <4>1. run' = [run EXCEPT !.step = "clean"]
        BY <2>10, <3>1 DEF Examine
      <4>2. run' \in Run /\ run'.step = "clean" /\ run'.left = run.left
            /\ run'.seen = run.seen /\ run'.found = run.found
            /\ run'.new = run.new
        BY <4>1, <2>0 DEF Run, Step
      <4>3. TypeOK'
        BY <2>10, <4>2, <2>0 DEF Examine, TypeOK, disks, host
      <4>4. This' = This
        BY <4>2, <3>0 DEF This
      <4>5. Prepares(This)'
        BY <2>10, <3>1, <4>4 DEF Examine, Prepares, disks
      <4>6. ScanInv'
        BY <2>10, <3>0, <4>2 DEF Examine, SafeInv, ScanInv, Ours, disks
      <4>7. NewInv'
        BY <2>10, <3>0, <4>2 DEF Examine, SafeInv, NewInv, disks
      <4>8. Ours' = Ours
        BY <2>10 DEF Examine, Ours, disks
      <4> QED BY <2>10, <3>0, <4>2, <4>3, <4>5, <4>6, <4>7, <4>8
              DEF Examine, SafeInv, disks
    <3>2. CASE ~(This \in run.seen /\ Prepares(This))
      <4>1. run' = [run EXCEPT !.left = Tail(@), !.found = Found(This)]
        BY <2>10, <3>2 DEF Examine
      <4>2. Found(This) \in BOOLEAN
        BY <2>0 DEF Found, Run
      <4>3. Tail(run.left) \in Seq(Device)
        BY <2>0, <3>0, HeadAndTail
      <4>4. run' \in Run /\ run'.step = "scan"
            /\ run'.left = Tail(run.left) /\ run'.seen = run.seen
            /\ run'.found = Found(This) /\ run'.new = run.new
        BY <4>1, <4>2, <4>3, <3>0, <2>0 DEF Run
      <4>5. TypeOK'
        BY <2>10, <4>4, <2>0 DEF Examine, TypeOK, disks, host
      <4>6. ScanInv'
        <5>1. ToSet(run.left) = {This} \cup ToSet(run'.left)
          BY <3>0, <4>4, <2>0, HeadAndTail
        <5>2. Ours' = Ours
          BY <2>10 DEF Examine, Ours, disks
        <5>3. ScanInv
          BY <3>0 DEF SafeInv
        <5> QED BY <4>4, <5>1, <5>2, <5>3 DEF ScanInv, Found
      <4>7. NewInv'
        BY <2>10, <3>0, <4>4 DEF Examine, SafeInv, NewInv, disks
      <4>8. Ours' = Ours
        BY <2>10 DEF Examine, Ours, disks
      <4> QED BY <2>10, <4>4, <4>5, <4>6, <4>7, <4>8
              DEF Examine, SafeInv, disks
    <3> QED BY <3>1, <3>2
  <2>11. CASE CleanStorage
    <3>0. run.step = "clean" /\ This = Head(run.left) /\ This \in Device
      BY <2>11, ThisIsADevice DEF CleanStorage, This
    <3>1. /\ run' \in Run /\ run'.step = "pvcreate" /\ run'.left = run.left
          /\ run'.seen = run.seen /\ run'.found = run.found
          /\ run'.new = run.new
      BY <2>11, <2>0 DEF CleanStorage, Run, Step
    <3>2. This' = This
      BY <3>0, <3>1 DEF This
    <3>3. /\ disk' \in [Device -> Disk] /\ group' \in [Device -> Group]
          /\ data' \subseteq Device /\ orphans' \subseteq Device
          /\ mounted' \subseteq Device
      BY <2>11, <2>0 DEF CleanStorage, TypeOK, Disk, Group
    <3>4. TypeOK'
      BY <2>11, <3>1, <3>3, <2>0 DEF CleanStorage, TypeOK
    <3>5. Ours' = Ours \ {This} /\ This \notin Ours'
      BY <2>11, <3>0, <2>0 DEF CleanStorage, Ours, TypeOK
    <3>6. ScanInv'
      BY <3>0, <3>1, <3>5 DEF SafeInv, ScanInv
    <3>7. \A d \in Device : d = This \/ (disk'[d] = disk[d] /\ group'[d] = group[d])
      BY <2>11, <2>0 DEF CleanStorage, TypeOK
    <3>8. group'[This] = "none" /\ data' = data \ {This}
      BY <2>11, <3>0, <2>0 DEF CleanStorage, TypeOK
    <3>9. /\ \A d \in data' : disk'[d] # "blank"
          /\ \A d \in Ours' : disk'[d] = "pv"
      BY <3>5, <3>7, <3>8, <2>0 DEF SafeInv, TypeOK, Ours
    <3>10. NewInv'
      <4>1. ToSet(run.new) \subseteq Device
        BY <2>0, LenProperties DEF ToSet
      <4> QED BY <3>0, <3>1, <3>2, <3>7, <4>1 DEF SafeInv, NewInv
    <3> QED BY <3>0, <3>1, <3>2, <3>4, <3>5, <3>6, <3>9, <3>10 DEF SafeInv
  <2>12. CASE CreatePhysicalVolume
    <3>0. /\ run.step = "pvcreate" /\ This = Head(run.left) /\ This \in Device
          /\ run.left # << >> /\ This \notin Ours
      BY <2>12, ThisIsADevice DEF CreatePhysicalVolume, This, SafeInv
    <3>1. Tail(run.left) \in Seq(Device) /\ Append(run.new, This) \in Seq(Device)
      BY <2>0, <3>0, HeadAndTail, AppendProperties
    <3>2. /\ run' \in Run /\ run'.step = "scan"
          /\ run'.left = Tail(run.left) /\ run'.seen = run.seen
          /\ run'.found = run.found /\ run'.new = Append(run.new, This)
      BY <2>12, <2>0, <3>1 DEF CreatePhysicalVolume, Run, Step
    <3>3. disk' \in [Device -> Disk]
      BY <2>12, <2>0 DEF CreatePhysicalVolume, TypeOK, Disk
    <3>4. TypeOK'
      BY <2>12, <3>2, <3>3, <2>0 DEF CreatePhysicalVolume, TypeOK, host
    <3>5. ScanInv'
      <4>1. ToSet(run.left) = {This} \cup ToSet(run'.left)
        BY <2>0, <3>0, <3>2, HeadAndTail
      <4>2. Ours' = Ours
        BY <2>12 DEF CreatePhysicalVolume, Ours
      <4> QED BY <3>0, <3>2, <4>1, <4>2 DEF SafeInv, ScanInv
    <3>6. \A d \in Device : disk'[d] = IF d = This THEN "pv" ELSE disk[d]
      BY <2>12, <2>0 DEF CreatePhysicalVolume, TypeOK
    <3>7. NewInv'
      <4>1. ToSet(run'.new) = ToSet(run.new) \cup {This}
        BY <2>0, <3>0, <3>2, AppendElements
      <4>2. ToSet(run.new) \subseteq Device
        BY <2>0, LenProperties DEF ToSet
      <4> QED BY <3>0, <3>2, <3>6, <4>1, <4>2 DEF SafeInv, NewInv
    <3>8. /\ \A d \in data' : disk'[d] # "blank"
          /\ \A d \in Ours' : disk'[d] = "pv"
      BY <2>12, <3>6, <2>0 DEF CreatePhysicalVolume, SafeInv, TypeOK, Ours
    <3> QED BY <3>2, <3>4, <3>5, <3>7, <3>8 DEF SafeInv
  <2>13. CASE AfterScan
    <3>0. run.step = "scan" /\ run.left = << >>
      BY <2>13 DEF AfterScan
    <3>1. /\ run' \in Run /\ run'.seen = run.seen /\ run'.new = run.new
          /\ run'.step \in {"reduce", "vgremove", "vgcreate"}
          /\ run'.step = "vgremove" => ~run.found /\ opts.overwrite
          /\ run'.step \in {"vgremove", "vgcreate"} => run.new # << >>
      BY <2>13, <2>0 DEF AfterScan, Run, Step
    <3>2. TypeOK'
      BY <2>13, <3>1, <2>0 DEF AfterScan, TypeOK, disks, host
    <3>3. ~run.found => run.seen \cap Ours = {}
      BY <3>0, NoElements DEF SafeInv, ScanInv
    <3>4. Ours' = Ours
      BY <2>13 DEF AfterScan, Ours, disks
    <3>5. NewInv'
      BY <2>13, <3>0, <3>1 DEF AfterScan, SafeInv, NewInv, disks
    <3> QED BY <2>13, <3>1, <3>2, <3>3, <3>4, <3>5
            DEF AfterScan, SafeInv, disks
  <2>14. CASE RemoveVolumeGroup
    <3>1. /\ run' \in Run /\ run'.step = "vgcreate" /\ run'.new = run.new
      BY <2>14, <2>0 DEF RemoveVolumeGroup, Run, Step
    <3>2. /\ group' \in [Device -> Group] /\ data' \subseteq Device
          /\ orphans' \subseteq Device
      BY <2>14, <2>0 DEF RemoveVolumeGroup, TypeOK, Group, Ours
    <3>3. TypeOK'
      BY <2>14, <3>1, <3>2, <2>0 DEF RemoveVolumeGroup, TypeOK, host
    <3>4. Ours' = {} /\ disk' = disk
      BY <2>14 DEF RemoveVolumeGroup, Ours
    <3>5. NewInv'
      BY <2>14, <3>1 DEF RemoveVolumeGroup, SafeInv, NewInv
    <3> QED BY <2>14, <3>1, <3>3, <3>4, <3>5 DEF RemoveVolumeGroup, SafeInv
  <2>15. CASE CreateVolumeGroup
    <3>0. /\ run.step = "vgcreate" /\ run.new # << >>
          /\ This = Head(run.new) /\ This \in Device
      BY <2>15, ThisIsADevice DEF CreateVolumeGroup, SafeInv, This
    <3>1. /\ Tail(run.new) \in Seq(Device)
          /\ ToSet(run.new) = {This} \cup ToSet(Tail(run.new))
      BY <2>0, <3>0, HeadAndTail
    <3>2. /\ run' \in Run /\ run'.step = "reduce"
          /\ run'.new = Tail(run.new)
      BY <2>15, <3>1, <2>0 DEF CreateVolumeGroup, Run, Step
    <3>3. TypeOK'
      BY <2>15, <3>2, <2>0 DEF CreateVolumeGroup, TypeOK, Group, host
    <3>4. disk[This] = "pv" /\ Ours' = Ours \cup {This}
      BY <2>15, <3>0, <3>1, <2>0
         DEF CreateVolumeGroup, SafeInv, NewInv, Ours, TypeOK
    <3>5. NewInv'
      BY <2>15, <3>0, <3>1, <3>2 DEF CreateVolumeGroup, SafeInv, NewInv
    <3> QED BY <2>15, <3>2, <3>3, <3>4, <3>5 DEF CreateVolumeGroup, SafeInv
  <2>16. CASE Reduce
    <3>0. PICK M \in {{}, Removable} :
             /\ group' = [d \in Device |-> IF d \in M THEN "none" ELSE group[d]]
             /\ data' = data \ M
             /\ orphans' = orphans \cup M
             /\ pool' = pool \ M
      BY <2>16 DEF Reduce
    <3>1. M \subseteq Device
      BY DEF Removable, Missing, Ours
    <3>2. /\ run' \in Run /\ run'.step \in {"idle", "extend"}
          /\ run'.step = "extend" => run.new # << >> /\ run'.new = run.new
          /\ run'.step = "idle" => run'.new = << >>
      BY <2>16, <2>0, NoRunIsRun DEF Reduce, NoRun, Run, Step
    <3>3. TypeOK'
      BY <2>16, <3>0, <3>1, <3>2, <2>0 DEF Reduce, TypeOK, Group, host
    <3>4. Ours' \subseteq Ours /\ disk' = disk
      BY <2>16, <3>0 DEF Reduce, Ours
    <3>5. NewInv'
      BY <2>16, <3>2, <3>4, NoElements DEF Reduce, SafeInv, NewInv
    <3> QED BY <3>0, <3>2, <3>3, <3>4, <3>5 DEF SafeInv
  <2>17. CASE Extend
    <3>0. /\ run.step = "extend" /\ run.new # << >>
          /\ This = Head(run.new) /\ This \in Device
      BY <2>17, ThisIsADevice DEF Extend, SafeInv, This
    <3>1. This \in ToSet(run.new)
      BY <2>0, <3>0, HeadAndTail
    <3>2. /\ run' \in Run /\ run'.step = "grow" /\ run'.new = run.new
      BY <2>17, <2>0 DEF Extend, Run, Step
    <3>3. TypeOK'
      BY <2>17, <3>2, <2>0 DEF Extend, TypeOK, Group, host
    <3>4. disk[This] = "pv" /\ Ours' = Ours \cup {This}
      BY <2>17, <3>0, <3>1, <2>0 DEF Extend, SafeInv, NewInv, Ours, TypeOK
    <3>5. NewInv'
      BY <2>17, <3>0, <3>2 DEF Extend, SafeInv, NewInv
    <3> QED BY <2>17, <3>0, <3>2, <3>3, <3>4, <3>5 DEF Extend, SafeInv
  <2>18. CASE GrowPool
    <3>0. /\ run.step = "grow" /\ run.new # << >>
          /\ This = Head(run.new) /\ This \in Device
      BY <2>18, ThisIsADevice DEF GrowPool, SafeInv, This
    <3>1. /\ Tail(run.new) \in Seq(Device)
          /\ ToSet(run.new) = {This} \cup ToSet(Tail(run.new))
      BY <2>0, <3>0, HeadAndTail
    <3>2. /\ run' \in Run /\ run'.step \in {"idle", "extend"}
          /\ run'.step = "extend" => Tail(run.new) # << >>
                                     /\ run'.new = Tail(run.new)
          /\ run'.step = "idle" => run'.new = << >>
      BY <2>18, <3>1, <2>0, NoRunIsRun DEF GrowPool, NoRun, Run, Step
    <3>3. TypeOK'
      BY <2>18, <3>0, <3>2, <2>0 DEF GrowPool, TypeOK, host
    <3>4. Ours' = Ours
      BY <2>18 DEF GrowPool, Ours
    <3>5. NewInv'
      BY <2>18, <3>0, <3>1, <3>2, NoElements DEF GrowPool, SafeInv, NewInv
    <3> QED BY <2>18, <3>2, <3>3, <3>4, <3>5 DEF GrowPool, SafeInv
  <2>19. CASE Fail
    <3>1. run' \in Run /\ run'.step = "idle" /\ run'.new = << >>
      BY <2>19, NoRunIsRun DEF Fail, NoRun
    <3>2. budget' \in [sets : Nat, events : Nat, fails : Nat]
      BY <2>19, <2>0 DEF Fail, TypeOK
    <3>3. TypeOK'
      BY <2>19, <3>1, <3>2, <2>0 DEF Fail, TypeOK, disks, host
    <3>4. Ours' = Ours /\ NewInv'
      BY <2>19, <3>1, NoElements DEF Fail, NewInv, Ours, disks
    <3> QED BY <2>19, <3>1, <3>3, <3>4 DEF Fail, SafeInv, disks
  <2> QED BY <2>1, <2>2, <2>3, <2>4, <2>5, <2>6, <2>7, <2>8, <2>9, <2>10,
             <2>11, <2>12, <2>13, <2>14, <2>15, <2>16, <2>17, <2>18, <2>19
          DEF Next, Proceed
<1> QED BY <1>1, <1>2, PTL DEF Spec

\* The variables keep their types, for any devices, options and bounds.
THEOREM TypeCorrect == Spec => []TypeOK
BY SafeIsInductive, PTL DEF SafeInv

\* Whatever comes, goes, is mounted or fails: without overwrite no command of
\* the hook destroys data, but for a filesystem that takes a whole disk.
THEOREM DataIsKept == Spec => KeptWithoutOverwrite
<1>1. SafeInv /\ [Next]_vars =>
        [~opts.overwrite /\ opts.remove # "force" =>
             \A d \in data \ data' : disk[d] = "fs"]_vars
  <2> SUFFICES ASSUME SafeInv, Next, ~opts.overwrite, opts.remove # "force",
                      NEW d \in data, d \notin data'
               PROVE  disk[d] = "fs"
    BY DEF vars
  <2>1. CASE CleanStorage
    <3>1. d = This /\ Prepares(This) /\ This \in Device
      BY <2>1, ThisIsADevice DEF CleanStorage, SafeInv
    <3>2. disk[d] \in Disk /\ disk[d] # "blank"
      BY <3>1 DEF SafeInv, TypeOK
    <3> QED BY <3>1, <3>2 DEF Prepares, Disk
  <2>2. CASE RemoveVolumeGroup
    BY <2>2 DEF RemoveVolumeGroup, SafeInv
  <2>3. CASE Reduce
    <3>1. Removable \cap data = {}
      BY DEF Removable
    <3> QED BY <2>3, <3>1 DEF Reduce
  <2>4. ASSUME ~CleanStorage, ~RemoveVolumeGroup, ~Reduce PROVE data \subseteq data'
    BY <2>4 DEF Next, Proceed, StartHook, Examine, CreatePhysicalVolume,
                AfterScan, CreateVolumeGroup, Extend, GrowPool, Fail, Attach,
                Detach, Mount, Unmount, CreateVolume, CreatePool, SetOptions,
                disks
  <2> QED BY <2>1, <2>2, <2>3, <2>4
<1> QED BY <1>1, SafeIsInductive, PTL DEF Spec, KeptWithoutOverwrite

\* For any devices in any order: a hook that has met a device of the volume
\* group does not remove the group.
THEOREM GroupIsKept == Spec => GroupSurvives
<1>1. SafeInv /\ [Next]_vars =>
        [RemoveVolumeGroup => \A d \in run.seen : d \notin Ours]_vars
  BY DEF SafeInv, RemoveVolumeGroup
<1> QED BY <1>1, SafeIsInductive, PTL DEF Spec, GroupSurvives

\* No data of others and no group of its own is lost by what the hook does.
THEOREM LossIsRuledOut == Spec => NothingIsLost
BY DataIsKept, GroupIsKept DEF NothingIsLost
-----------------------------------------------------------------------------
(***************************************************************************)
(* What the hook takes ends up in service.                                 *)
(*                                                                         *)
(* OverwriteConverges speaks of the moment at which the hook has           *)
(* succeeded.  FreeInv follows each device that is initialised and unused  *)
(* through the hook: it is still to be examined, and then Prepares lets it *)
(* through, or it is among the new ones.  Only devices without data are    *)
(* such devices, so that none is mounted and passed over at the start.     *)
(***************************************************************************)

\* The execution will put d into the group.
Awaits(d) ==
    \/ d \in ToSet(run.new)
    \/ /\ run.step \in {"scan", "clean", "pvcreate"}
       /\ d \in ToSet(run.left) \cap run.seen

ConvInv == opts.overwrite /\ ~owed =>
               \A d \in Stranded \ orphans : ~Idle /\ Awaits(d)

FreeInv ==
    /\ mounted \subseteq data \cap attached
    /\ \A d \in data : ~(disk[d] = "pv" /\ group[d] = "none")
    /\ run.step = "pvcreate" =>
           disk[This] = "blank" /\ group[This] = "none"
    /\ run.step = "grow" => This \in Ours
    /\ ConvInv

LEMMA FreeIsInductive == Spec => []FreeInv
<1>1. Init => FreeInv
  <2> SUFFICES ASSUME Init PROVE FreeInv
    OBVIOUS
  <2>1. run.step = "idle" /\ owed = TRUE
    BY DEF Init, NoRun
  <2> QED BY <2>1 DEF Init, FreeInv, ConvInv
<1>2. SafeInv /\ FreeInv /\ [Next]_vars => FreeInv'
  <2> SUFFICES ASSUME SafeInv, FreeInv, [Next]_vars PROVE FreeInv'
    OBVIOUS
  <2>0. /\ run \in Run /\ TypeOK
        /\ run.left \in Seq(Device) /\ run.new \in Seq(Device)
    BY DEF SafeInv, TypeOK, Run
  <2>a. ASSUME run' = run, disks' = disks, opts' = opts, owed' \/ owed' = owed,
               mounted' \subseteq data \cap attached',
               owed' \/ attached' \subseteq attached
        PROVE  FreeInv'
    <3>1. /\ disk' = disk /\ group' = group /\ data' = data
          /\ orphans' = orphans /\ pool' = pool
      BY <2>a DEF disks
    <3>2. ConvInv'
      <4>1. CASE owed'
        BY <4>1 DEF ConvInv
      <4>2. CASE ~owed'
        BY <4>2, <2>a, <3>1 DEF FreeInv, ConvInv, Stranded, Idle, Awaits
      <4> QED BY <4>1, <4>2
    <3> QED BY <2>a, <3>1, <3>2 DEF FreeInv, This, Ours
  <2>1. CASE UNCHANGED vars
    BY <2>1, <2>a DEF vars, disks, FreeInv
  <2>2. ASSUME NEW d \in Device, Attach(d) PROVE FreeInv'
    BY <2>2, <2>a DEF Attach, FreeInv
  <2>3. ASSUME NEW d \in Device, Detach(d) PROVE FreeInv'
    BY <2>3, <2>a DEF Detach, FreeInv
  <2>4. ASSUME NEW d \in Device, Mount(d) PROVE FreeInv'
    BY <2>4, <2>a DEF Mount, FreeInv
  <2>5. ASSUME NEW d \in Device, Unmount(d) PROVE FreeInv'
    BY <2>5, <2>a DEF Unmount, FreeInv
  <2>6. ASSUME NEW d \in Device, CreateVolume(d) PROVE FreeInv'
    <3>1. group[d] = "ours"
      BY <2>6 DEF CreateVolume, Ours
    <3>2. ConvInv'
      BY <2>6 DEF CreateVolume, host, FreeInv, ConvInv, Stranded, Idle, Awaits
    <3> QED BY <2>6, <3>1, <3>2 DEF CreateVolume, host, FreeInv, This, Ours
  <2>7. CASE CreatePool
    <3>1. ConvInv'
      BY <2>7 DEF CreatePool, host, FreeInv, ConvInv, Stranded, Idle, Awaits
    <3> QED BY <2>7, <3>1 DEF CreatePool, host, FreeInv, This, Ours
  <2>8. ASSUME NEW o \in Options, SetOptions(o) PROVE FreeInv'
    <3>1. owed' /\ run' = run /\ disk' = disk /\ group' = group /\ data' = data
      BY <2>8 DEF SetOptions, disks
    <3> QED BY <2>8, <3>1 DEF SetOptions, host, FreeInv, ConvInv, This, Ours
  <2>9. CASE StartHook
    <3>1. /\ run'.step = "scan" /\ run'.left = opts.listed
          /\ run'.seen = ToSet(opts.listed) \cap (attached \ mounted)
      BY <2>9 DEF StartHook, NoRun
    <3>2. /\ disk' = disk /\ group' = group /\ data' = data
          /\ orphans' = orphans /\ opts' = opts
          /\ attached' = attached /\ mounted' = mounted
      BY <2>9 DEF StartHook, disks, host
    <3>3. \A d \in Stranded' : d \in ToSet(opts.listed) /\ d \in attached \ mounted
      BY <3>2 DEF Stranded, FreeInv
    <3>4. ConvInv'
      BY <3>1, <3>2, <3>3 DEF ConvInv, Idle, Awaits
    <3> QED BY <3>1, <3>2, <3>4 DEF FreeInv
  <2>10. CASE Examine
    <3>0. /\ run.step = "scan" /\ run.left # << >> /\ This = Head(run.left)
          /\ disk' = disk /\ group' = group /\ data' = data
          /\ orphans' = orphans /\ opts' = opts /\ owed' = owed
          /\ attached' = attached /\ mounted' = mounted
      BY <2>10 DEF Examine, This, disks, host
    <3>1. CASE This \in run.seen /\ Prepares(This)
      <4>1. run' = [run EXCEPT !.step = "clean"]
        BY <2>10, <3>1 DEF Examine
      <4>2. run'.step = "clean" /\ run'.left = run.left
            /\ run'.seen = run.seen /\ run'.new = run.new
        BY <4>1, <2>0 DEF Run, Step
      <4> QED BY <3>0, <4>2 DEF FreeInv, ConvInv, Stranded, Idle, Awaits
    <3>2. CASE ~(This \in run.seen /\ Prepares(This))
      <4>1. run' = [run EXCEPT !.left = Tail(@), !.found = Found(This)]
        BY <2>10, <3>2 DEF Examine
      <4>2. run'.step = "scan" /\ run'.left = Tail(run.left)
            /\ run'.seen = run.seen /\ run'.new = run.new
        BY <4>1, <3>0, <2>0 DEF Run
      <4>3. ToSet(run.left) = {This} \cup ToSet(run'.left)
        BY <2>0, <3>0, <4>2, HeadAndTail
      <4>4. ConvInv'
        <5> SUFFICES ASSUME opts.overwrite, ~owed, NEW d \in Stranded \ orphans
                     PROVE  Awaits(d)'
          BY <3>0, <4>2 DEF ConvInv, Stranded, Idle
        <5>1. Awaits(d)
          BY DEF FreeInv, ConvInv
        <5>2. Prepares(d)
          BY DEF Prepares, Stranded
        <5> QED BY <3>0, <3>2, <4>2, <4>3, <5>1, <5>2 DEF Awaits
      <4> QED BY <3>0, <4>2, <4>4 DEF FreeInv
    <3> QED BY <3>1, <3>2
  <2>11. CASE CleanStorage
    <3>0. run.step = "clean" /\ This = Head(run.left) /\ This \in Device
      BY <2>11, ThisIsADevice DEF CleanStorage, This
    <3>1. /\ run'.step = "pvcreate" /\ run'.left = run.left
          /\ run'.seen = run.seen /\ run'.new = run.new
      BY <2>11, <2>0 DEF CleanStorage, Run, Step
    <3>2. This' = This
      BY <3>0, <3>1 DEF This
    <3>3. \A d \in Device : d = This \/ (disk'[d] = disk[d] /\ group'[d] = group[d])
      BY <2>11, <2>0 DEF CleanStorage, TypeOK
    <3>4. disk'[This] = "blank" /\ group'[This] = "none"
      BY <2>11, <3>0, <2>0 DEF CleanStorage, TypeOK
    <3>5. ConvInv'
      <4>1. This \notin Stranded'
        BY <3>4 DEF Stranded
      <4>2. Stranded' \subseteq Stranded
        <5>1. opts' = opts /\ attached' = attached
          BY <2>11 DEF CleanStorage
        <5>2. attached \subseteq Device
          BY <2>0 DEF TypeOK
        <5> QED BY <3>3, <4>1, <5>1, <5>2 DEF Stranded
      <4>3. orphans \subseteq orphans' \cup {This}
        BY <2>11 DEF CleanStorage
      <4> QED BY <2>11, <3>0, <3>1, <4>1, <4>2, <4>3
              DEF CleanStorage, FreeInv, ConvInv, Idle, Awaits
    <3>6. \A d \in data' : ~(disk'[d] = "pv" /\ group'[d] = "none")
      BY <2>11, <2>0, <3>3 DEF CleanStorage, FreeInv, TypeOK
    <3>7. mounted' \subseteq data' \cap attached'
      BY <2>11 DEF CleanStorage, FreeInv
    <3> QED BY <3>1, <3>2, <3>4, <3>5, <3>6, <3>7 DEF FreeInv
  <2>12. CASE CreatePhysicalVolume
    <3>0. run.step = "pvcreate" /\ This = Head(run.left) /\ This \in Device
          /\ run.left # << >>
      BY <2>12, ThisIsADevice DEF CreatePhysicalVolume, This, SafeInv
    <3>1. /\ run'.step = "scan" /\ run'.left = Tail(run.left)
          /\ run'.seen = run.seen /\ run'.new = Append(run.new, This)
      BY <2>12, <2>0 DEF CreatePhysicalVolume, Run, Step
    <3>2. /\ ToSet(run.left) = {This} \cup ToSet(run'.left)
          /\ ToSet(run'.new) = ToSet(run.new) \cup {This}
      BY <2>0, <3>0, <3>1, HeadAndTail, AppendElements
    <3>3. \A d \in Device : disk'[d] = IF d = This THEN "pv" ELSE disk[d]
      BY <2>12, <2>0 DEF CreatePhysicalVolume, TypeOK
    <3>4. /\ group' = group /\ data' = data /\ orphans' = orphans
          /\ mounted' = mounted /\ attached' = attached
          /\ opts' = opts /\ owed' = owed
      BY <2>12 DEF CreatePhysicalVolume, host
    <3>5. This \notin data
      BY <3>0 DEF FreeInv, SafeInv
    <3>6. ConvInv'
      <4> SUFFICES ASSUME opts.overwrite, ~owed, NEW d \in Stranded' \ orphans,
                          d # This
                   PROVE  Awaits(d)'
        BY <3>1, <3>2, <3>4 DEF ConvInv, Idle, Awaits
      <4>1. d \in Stranded
        BY <2>0, <3>3, <3>4 DEF Stranded, TypeOK
      <4>2. Awaits(d)
        BY <4>1 DEF FreeInv, ConvInv
      <4> QED BY <3>0, <3>1, <3>2, <4>2 DEF Awaits
    <3>7. \A d \in data' : ~(disk'[d] = "pv" /\ group'[d] = "none")
      BY <2>0, <3>3, <3>4, <3>5 DEF FreeInv, TypeOK
    <3> QED BY <3>1, <3>4, <3>6, <3>7 DEF FreeInv
  <2>13. CASE AfterScan
    <3>0. /\ run.step = "scan" /\ run.left = << >>
          /\ disk' = disk /\ group' = group /\ data' = data
          /\ orphans' = orphans /\ opts' = opts /\ owed' = owed
          /\ attached' = attached /\ mounted' = mounted
      BY <2>13 DEF AfterScan, disks, host
    <3>1. /\ run'.new = run.new
          /\ run'.step \in {"reduce", "vgremove", "vgcreate"}
      BY <2>13, <2>0 DEF AfterScan, Run, Step
    <3>2. ConvInv'
      BY <3>0, <3>1, NoElements DEF FreeInv, ConvInv, Stranded, Idle, Awaits
    <3> QED BY <3>0, <3>1, <3>2 DEF FreeInv
  <2>14. CASE RemoveVolumeGroup
    <3>0. /\ run.step = "vgremove" /\ Ours \cap mounted = {}
          /\ run'.step = "vgcreate" /\ run'.new = run.new
      BY <2>14, <2>0 DEF RemoveVolumeGroup, Blocked, Run, Step
    <3>1. /\ disk' = disk /\ attached' = attached /\ mounted' = mounted
          /\ opts' = opts /\ owed' = owed
          /\ data' = data \ Ours /\ orphans' = orphans \cup Ours
      BY <2>14 DEF RemoveVolumeGroup, host
    <3>2. \A d \in Device : d \in Ours \/ group'[d] = group[d]
      BY <2>14 DEF RemoveVolumeGroup
    <3>3. Stranded' \ orphans' \subseteq Stranded \ orphans
      BY <2>0, <3>1, <3>2 DEF Stranded, TypeOK
    <3>4. ConvInv'
      BY <3>0, <3>1, <3>3 DEF FreeInv, ConvInv, Idle, Awaits
    <3>5. \A d \in data' : ~(disk'[d] = "pv" /\ group'[d] = "none")
      BY <2>0, <3>1, <3>2 DEF FreeInv, TypeOK
    <3> QED BY <3>0, <3>1, <3>4, <3>5 DEF FreeInv
  <2>15. CASE CreateVolumeGroup
    <3>0. /\ run.step = "vgcreate" /\ run.new # << >>
          /\ This = Head(run.new) /\ This \in Device
      BY <2>15, ThisIsADevice DEF CreateVolumeGroup, SafeInv, This
    <3>1. ToSet(run.new) = {This} \cup ToSet(Tail(run.new))
      BY <2>0, <3>0, HeadAndTail
    <3>2. run'.step = "reduce" /\ run'.new = Tail(run.new)
      BY <2>15, <2>0 DEF CreateVolumeGroup, Run, Step
    <3>3. /\ disk' = disk /\ data' = data /\ orphans' = orphans
          /\ attached' = attached /\ mounted' = mounted
          /\ opts' = opts /\ owed' = owed
      BY <2>15 DEF CreateVolumeGroup, host
    <3>4. \A d \in Device : group'[d] = IF d = This THEN "ours" ELSE group[d]
      BY <2>15, <2>0 DEF CreateVolumeGroup, TypeOK
    <3>5. Stranded' \subseteq Stranded \ {This}
      BY <2>0, <3>0, <3>3, <3>4 DEF Stranded, TypeOK
    <3>6. ConvInv'
      BY <3>0, <3>1, <3>2, <3>3, <3>5 DEF FreeInv, ConvInv, Idle, Awaits
    <3>7. \A d \in data' : ~(disk'[d] = "pv" /\ group'[d] = "none")
      BY <2>0, <3>3, <3>4 DEF FreeInv, TypeOK
    <3> QED BY <3>2, <3>3, <3>6, <3>7 DEF FreeInv
  <2>16. CASE Reduce
    <3>0. PICK M \in {{}, Removable} :
             /\ group' = [d \in Device |-> IF d \in M THEN "none" ELSE group[d]]
             /\ data' = data \ M
             /\ orphans' = orphans \cup M
             /\ pool' = pool \ M
      BY <2>16 DEF Reduce
    <3>1. M \cap attached = {}
      BY <3>0 DEF Removable, Missing
    <3>2. /\ run.step = "reduce" /\ run'.step \in {"idle", "extend"}
          /\ run'.step = "extend" => run'.new = run.new
          /\ run'.step = "idle" => run.new = << >>
      BY <2>16, <2>0 DEF Reduce, NoRun, Run, Step
    <3>3. /\ disk' = disk /\ attached' = attached /\ mounted' = mounted
          /\ opts' = opts /\ owed' = owed
      BY <2>16 DEF Reduce, host
    <3>4. \A d \in Device : d \in M \/ group'[d] = group[d]
      BY <3>0
    <3>5. Stranded' \ orphans' \subseteq Stranded \ orphans
      BY <2>0, <3>0, <3>3, <3>4 DEF Stranded, TypeOK
    <3>6. ConvInv'
      BY <3>2, <3>3, <3>5, NoElements DEF FreeInv, ConvInv, Idle, Awaits
    <3>7. \A d \in data' : ~(disk'[d] = "pv" /\ group'[d] = "none")
      BY <2>0, <3>0, <3>3, <3>4 DEF FreeInv, TypeOK
    <3> QED BY <3>0, <3>1, <3>2, <3>3, <3>6, <3>7 DEF FreeInv
  <2>17. CASE Extend
    <3>0. /\ run.step = "extend" /\ This = Head(run.new) /\ This \in Device
      BY <2>17, ThisIsADevice DEF Extend, SafeInv, This
    <3>1. run'.step = "grow" /\ run'.new = run.new
      BY <2>17, <2>0 DEF Extend, Run, Step
    <3>2. /\ disk' = disk /\ data' = data /\ orphans' = orphans
          /\ attached' = attached /\ mounted' = mounted
          /\ opts' = opts /\ owed' = owed
      BY <2>17 DEF Extend, host
    <3>3. \A d \in Device : group'[d] = IF d = This THEN "ours" ELSE group[d]
      BY <2>17, <2>0 DEF Extend, TypeOK
    <3>4. This' = This /\ This \in Ours'
      BY <3>0, <3>1, <3>3 DEF This, Ours
    <3>5. Stranded' \subseteq Stranded
      BY <2>0, <3>2, <3>3 DEF Stranded, TypeOK
    <3>6. ConvInv'
      BY <3>0, <3>1, <3>2, <3>5 DEF FreeInv, ConvInv, Idle, Awaits
    <3>7. \A d \in data' : ~(disk'[d] = "pv" /\ group'[d] = "none")
      BY <2>0, <3>2, <3>3 DEF FreeInv, TypeOK
    <3> QED BY <3>1, <3>2, <3>4, <3>6, <3>7 DEF FreeInv
  <2>18. CASE GrowPool
    <3>0. /\ run.step = "grow" /\ run.new # << >>
          /\ This = Head(run.new) /\ This \in Device
      BY <2>18, ThisIsADevice DEF GrowPool, SafeInv, This
    <3>1. ToSet(run.new) = {This} \cup ToSet(Tail(run.new))
      BY <2>0, <3>0, HeadAndTail
    <3>2. /\ run'.step \in {"idle", "extend"}
          /\ run'.step = "extend" => run'.new = Tail(run.new)
          /\ run'.step = "idle" => Tail(run.new) = << >>
      BY <2>18, <2>0 DEF GrowPool, NoRun, Run, Step
    <3>3. /\ disk' = disk /\ group' = group /\ data' = data
          /\ orphans' = orphans /\ opts' = opts /\ owed' = owed
          /\ attached' = attached /\ mounted' = mounted
      BY <2>18 DEF GrowPool, host
    <3>4. This \notin Stranded
      BY <3>0 DEF FreeInv, Ours, Stranded
    <3>5. ConvInv'
      <4>1. Stranded' = Stranded
        BY <3>3 DEF Stranded
      <4> QED BY <3>0, <3>1, <3>2, <3>3, <3>4, <4>1, NoElements
              DEF FreeInv, ConvInv, Idle, Awaits
    <3> QED BY <3>2, <3>3, <3>5 DEF FreeInv
  <2>19. CASE Fail
    <3>1. run'.step = "idle" /\ owed'
      BY <2>19 DEF Fail, NoRun
    <3> QED BY <2>19, <3>1 DEF Fail, disks, host, FreeInv, ConvInv
  <2> QED BY <2>1, <2>2, <2>3, <2>4, <2>5, <2>6, <2>7, <2>8, <2>9, <2>10,
             <2>11, <2>12, <2>13, <2>14, <2>15, <2>16, <2>17, <2>18, <2>19
          DEF Next, Proceed
<1> QED BY <1>1, <1>2, SafeIsInductive, PTL DEF Spec

(***************************************************************************)
(* PoolCoversGroup needs to know that the pool lies in the group, that the *)
(* group cannot be created a second time while devices of it are missing,  *)
(* and that only the device being added may lie outside the pool.  It      *)
(* holds if no other group has a thin pool: lvextend is called only when   *)
(* the host has exactly one.                                               *)
(***************************************************************************)
PoolInv ==
    /\ pool \subseteq Ours
    /\ Ours # {} => VgExists
    /\ budget.fails <= MaxFails
    /\ budget.fails = MaxFails /\ pool # {} =>
           \A d \in Ours : d \in pool \/ (run.step = "grow" /\ d = This)

LEMMA PoolIsInductive == ~ForeignPool /\ Spec => []PoolInv
<1> SUFFICES ASSUME ~ForeignPool PROVE Spec => []PoolInv
  OBVIOUS
<1>1. Init => PoolInv
  BY DEF Init, PoolInv, Ours
<1>2. SafeInv /\ FreeInv /\ PoolInv /\ [Next]_vars => PoolInv'
  <2> SUFFICES ASSUME SafeInv, FreeInv, PoolInv, [Next]_vars
               PROVE  PoolInv'
    OBVIOUS
  <2>0. /\ run \in Run /\ TypeOK
        /\ run.left \in Seq(Device) /\ run.new \in Seq(Device)
    BY DEF SafeInv, TypeOK, Run
  \* Nothing that PoolInv speaks of changes, but for devices that appear.
  <2>a. ASSUME run' = run, group' = group, pool' = pool,
               attached \subseteq attached', budget'.fails = budget.fails
        PROVE  PoolInv'
    BY <2>a DEF PoolInv, Ours, VgExists, This
  <2>1. CASE UNCHANGED vars
    BY <2>1, <2>a DEF vars
  <2>2. ASSUME NEW d \in Device, Attach(d) PROVE PoolInv'
    BY <2>2, <2>a DEF Attach, disks
  <2>3. ASSUME NEW d \in Device, Detach(d) PROVE PoolInv'
    <3>1. budget'.fails = budget.fails
      BY <2>3, <2>0 DEF Detach, TypeOK
    <3>2. Ours' = Ours /\ pool' = pool /\ run' = run
      BY <2>3 DEF Detach, disks, Ours
    <3>3. Ours # {} => VgExists'
      BY <2>3, <3>2 DEF Detach, PoolInv, VgExists
    <3> QED BY <3>1, <3>2, <3>3 DEF PoolInv, This
  <2>4. ASSUME NEW d \in Device, Mount(d) PROVE PoolInv'
    <3>1. budget'.fails = budget.fails
      BY <2>4, <2>0 DEF Mount, TypeOK
    <3> QED BY <2>4, <2>a, <3>1 DEF Mount, disks
  <2>5. ASSUME NEW d \in Device, Unmount(d) PROVE PoolInv'
    BY <2>5, <2>a DEF Unmount, disks
  <2>6. ASSUME NEW d \in Device, CreateVolume(d) PROVE PoolInv'
    BY <2>6, <2>a DEF CreateVolume, host
  <2>7. CASE CreatePool
    BY <2>7 DEF CreatePool, host, PoolInv, Ours, VgExists
  <2>8. ASSUME NEW o \in Options, SetOptions(o) PROVE PoolInv'
    <3>1. budget'.fails = budget.fails
      BY <2>8, <2>0 DEF SetOptions, TypeOK
    <3> QED BY <2>8, <2>a, <3>1 DEF SetOptions, disks, host
  \* The hook up to the decision about the group.
  <2>b. ASSUME run.step # "grow", run'.step # "grow", Ours' = Ours,
               pool' = pool, attached' = attached, budget' = budget
        PROVE  PoolInv'
    BY <2>b DEF PoolInv, VgExists
  <2>9. CASE StartHook
    BY <2>9, <2>b DEF StartHook, Idle, NoRun, Ours, disks, host
  <2>10. CASE Examine
    <3>1. run.step = "scan" /\ run'.step \in {"scan", "clean"}
      BY <2>10, <2>0 DEF Examine, Run, Step
    <3> QED BY <2>10, <2>b, <3>1 DEF Examine, Ours, disks, host
  <2>11. CASE CleanStorage
    <3>1. This \notin Ours
      BY <2>11 DEF CleanStorage, SafeInv, Prepares, Ours
    <3>2. This \in Device
      BY <2>11, ThisIsADevice DEF CleanStorage
    <3>3. Ours' = Ours
      <4>1. This \in Ours \/ group[This] # "ours"
        BY <3>2 DEF Ours
      <4>2. \A d \in Device :
                group'[d] = IF d = This THEN "none" ELSE group[d]
        BY <2>11, <2>0 DEF CleanStorage, TypeOK
      <4> QED BY <3>1, <4>1, <4>2 DEF Ours
    <3>4. run.step = "clean" /\ run'.step = "pvcreate"
      BY <2>11, <2>0 DEF CleanStorage, Run, Step
    <3> QED BY <2>11, <2>b, <3>3, <3>4 DEF CleanStorage
  <2>12. CASE CreatePhysicalVolume
    <3>1. run.step = "pvcreate" /\ run'.step = "scan"
      BY <2>12, <2>0 DEF CreatePhysicalVolume, Run, Step
    <3> QED BY <2>12, <2>b, <3>1 DEF CreatePhysicalVolume, Ours, host
  <2>13. CASE AfterScan
    <3>1. run.step = "scan" /\ run'.step # "grow"
      BY <2>13, <2>0 DEF AfterScan, Run, Step
    <3> QED BY <2>13, <2>b, <3>1 DEF AfterScan, Ours, disks, host
  <2>14. CASE RemoveVolumeGroup
    <3>1. Ours' = {} /\ pool' = {} /\ budget' = budget
      BY <2>14 DEF RemoveVolumeGroup, Ours
    <3> QED BY <3>1 DEF PoolInv
  \* A group is created only when none of its devices is there, and then it has
  \* none at all.
  <2>15. CASE CreateVolumeGroup
    <3>1. This \in Device /\ This \in attached /\ ~VgExists
      BY <2>15, ThisIsADevice DEF CreateVolumeGroup, Blocked
    <3>2. Ours = {} /\ pool = {}
      BY <3>1 DEF PoolInv
    <3>3. Ours' = {This}
      BY <2>15, <3>1, <3>2, <2>0 DEF CreateVolumeGroup, Ours, TypeOK
    <3>4. pool' = {} /\ attached' = attached /\ budget' = budget
      BY <2>15, <3>2 DEF CreateVolumeGroup, host
    <3> QED BY <3>1, <3>3, <3>4 DEF PoolInv, VgExists
  <2>16. CASE Reduce
    <3>0. PICK M \in {{}, Removable} :
             /\ group' = [d \in Device |-> IF d \in M THEN "none" ELSE group[d]]
             /\ pool' = pool \ M
      BY <2>16 DEF Reduce
    <3>1. M \cap attached = {} /\ Ours' = Ours \ M
      BY <3>0 DEF Removable, Missing, Ours
    <3>2. /\ run.step = "reduce" /\ attached' = attached /\ budget' = budget
      BY <2>16 DEF Reduce, host
    <3> QED BY <3>0, <3>1, <3>2 DEF PoolInv, VgExists
  <2>17. CASE Extend
    <3>0. /\ run.step = "extend" /\ This = Head(run.new) /\ This \in Device
          /\ This \in attached
      BY <2>17, ThisIsADevice DEF Extend, This, Blocked
    <3>1. run'.step = "grow" /\ run'.new = run.new
      BY <2>17, <2>0 DEF Extend, Run, Step
    <3>2. This' = This
      BY <3>0, <3>1 DEF This
    <3>3. Ours' = Ours \cup {This}
      BY <2>17, <3>0, <2>0 DEF Extend, Ours, TypeOK
    <3>4. pool' = pool /\ attached' = attached /\ budget' = budget
      BY <2>17 DEF Extend, host
    <3> QED BY <3>0, <3>1, <3>2, <3>3, <3>4 DEF PoolInv, VgExists
  <2>18. CASE GrowPool
    <3>0. run.step = "grow" /\ This \in Ours
      BY <2>18 DEF GrowPool, FreeInv
    <3>1. Ours' = Ours /\ attached' = attached /\ budget' = budget
      BY <2>18 DEF GrowPool, Ours, host
    <3>2. pool' = IF pool = {} THEN pool ELSE pool \cup {This}
      BY <2>18 DEF GrowPool
    <3> QED BY <3>0, <3>1, <3>2 DEF PoolInv, VgExists
  <2>19. CASE Fail
    <3>1. Ours' = Ours /\ pool' = pool /\ attached' = attached
      BY <2>19 DEF Fail, disks, host, Ours
    <3>2. CASE Blocked
      <4>1. run.step # "grow"
        BY <3>2 DEF Blocked
      <4>2. budget' = budget
        BY <2>19, <3>2 DEF Fail
      <4> QED BY <3>1, <4>1, <4>2 DEF PoolInv, VgExists
    <3>3. CASE ~Blocked
      <4>1. budget'.fails = budget.fails - 1 /\ budget.fails \in Nat
        BY <2>19, <3>3, <2>0 DEF Fail, TypeOK
      <4>2. budget'.fails # MaxFails /\ budget'.fails <= MaxFails
        BY <4>1 DEF PoolInv
      <4> QED BY <3>1, <4>2 DEF PoolInv, VgExists
    <3> QED BY <3>2, <3>3
  <2> QED BY <2>1, <2>2, <2>3, <2>4, <2>5, <2>6, <2>7, <2>8, <2>9, <2>10,
             <2>11, <2>12, <2>13, <2>14, <2>15, <2>16, <2>17, <2>18, <2>19
          DEF Next, Proceed
<1> QED BY <1>1, <1>2, SafeIsInductive, FreeIsInductive, PTL DEF Spec

\* Whatever fails and however often the options change: when the hook has
\* succeeded with overwrite set, the devices it has initialised are in the
\* group; and unless a command has failed, the thin pool extends over them.
THEOREM DevicesAreInService == ~ForeignPool /\ Spec => []DevicesServe
<1> SUFFICES ASSUME ~ForeignPool PROVE Spec => []DevicesServe
  OBVIOUS
<1>1. FreeInv => OverwriteConverges
  BY DEF FreeInv, ConvInv, OverwriteConverges
<1>2. PoolInv => PoolCoversGroup
  BY DEF PoolInv, PoolCoversGroup, Idle
<1>3. FreeInv /\ PoolInv => DevicesServe
  BY <1>1, <1>2 DEF DevicesServe
<1> QED BY <1>3, FreeIsInductive, PoolIsInductive, PTL
=============================================================================
