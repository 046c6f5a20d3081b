----------------------------- MODULE LvmStorage -----------------------------
(***************************************************************************)
(* The volume group of a unit that keeps its volumes on local devices      *)
(* (configure_lvm_storage, called by config-changed and storage.real).     *)
(*                                                                         *)
(* The hook examines the block devices of the options one by one, makes    *)
(* physical volumes of the ones it may use, then creates, reduces and      *)
(* extends the group.  Every command is a step; a command that fails fails *)
(* the hook, and Juju runs it again from the start on what is left.        *)
(* Devices come and go, and are mounted, between any two steps.            *)
(***************************************************************************)
EXTENDS Integers, Sequences, SequencesExt

CONSTANTS
    Device,      \* the block devices of the host
    InitDisks,   \* what may be on the devices at the start
    Options,     \* the charm options that the operator sets
    ForeignPool, \* another volume group has a thin pool
    MaxSets,     \* bound: changes of the options
    MaxEvents,   \* bound: devices that come, go, or are mounted
    MaxFails     \* bound: commands that fail for no reason of their own

\* What is on a device: nothing, a filesystem without a partition table, a
\* partition table, or the label of an LVM physical volume.
Disk  == {"blank", "fs", "table", "pv"}

\* The volume group of a physical volume: `volume-group`, another, or none.
Group == {"ours", "other", "none"}

Option == [listed : Seq(Device), overwrite : BOOLEAN,
           remove : {"no", "unused", "force"}]

ASSUME LvmStorageAssumption ==
    /\ InitDisks \subseteq [Device -> {"blank", "fs", "table", "pv"}]
    /\ Options \subseteq Option
    /\ ForeignPool \in BOOLEAN
    /\ MaxSets \in Nat /\ MaxEvents \in Nat /\ MaxFails \in Nat

VARIABLES
    disk,      \* disk[d]: what is on d
    group,     \* group[d]: the volume group of d
    attached,  \* the devices that are there
    mounted,   \* the devices with a mounted filesystem or logical volume
    data,      \* the devices that hold somebody's data
    orphans,   \* history: the devices of groups that were removed or reduced
    pool,      \* the devices that our thin pool extends over; {}: no pool
    opts,      \* the charm options
    owed,      \* Juju owes the unit a hook
    run,       \* the hook that is executing
    budget     \* what is left of the bounds

vars == <<disk, group, attached, mounted, data, orphans, pool, opts, owed, run,
          budget>>
disks == <<disk, group, data, orphans, pool>>
host  == <<attached, mounted>>

Step == {"idle", "scan", "clean", "pvcreate", "vgremove", "vgcreate", "reduce",
         "extend", "grow"}

\* left: the devices still to examine; seen: those of the options that were
\* there when the hook started; new: those made physical volumes by it.
Run  == [step : Step, left : Seq(Device), seen : SUBSET Device,
         found : BOOLEAN, new : Seq(Device)]
NoRun == [step |-> "idle", left |-> << >>, seen |-> {}, found |-> FALSE,
          new |-> << >>]

Init ==
    /\ disk \in InitDisks
    /\ group = [d \in Device |-> IF disk[d] = "pv" THEN "other" ELSE "none"]
    /\ attached = Device
    /\ mounted = {}
    /\ data = {d \in Device : disk[d] # "blank"}
    /\ orphans = {}
    /\ pool = {}
    /\ opts \in Options
    /\ owed = TRUE
    /\ run = NoRun
    /\ budget = [sets |-> MaxSets, events |-> MaxEvents, fails |-> MaxFails]

Ours     == {d \in Device : group[d] = "ours"}
Missing  == Ours \ attached
VgExists == Ours \cap attached # {}
Idle     == run.step = "idle"

-----------------------------------------------------------------------------
(* The host and the operator. *)

\* A device appears (storage-attached) or is gone.  Bound: one device of the
\* group stays, so that no second group of its name can come to exist.
Attach(d) ==
    /\ d \notin attached
    /\ attached' = attached \cup {d}
    /\ owed' = TRUE
    /\ UNCHANGED <<disks, mounted, opts, run, budget>>

Detach(d) ==
    /\ d \in attached \ mounted
    /\ Ours \cap attached # {d}
    /\ budget.events > 0
    /\ budget' = [budget EXCEPT !.events = @ - 1]
    /\ attached' = attached \ {d}
    /\ UNCHANGED <<disks, mounted, opts, owed, run>>

\* The filesystem of d, or a logical volume that lies on d, is mounted.
Mount(d) ==
    /\ d \in (attached \cap data) \ mounted
    /\ budget.events > 0
    /\ budget' = [budget EXCEPT !.events = @ - 1]
    /\ mounted' = mounted \cup {d}
    /\ UNCHANGED <<disks, attached, opts, owed, run>>

Unmount(d) ==
    /\ d \in mounted
    /\ mounted' = mounted \ {d}
    /\ UNCHANGED <<disks, attached, opts, owed, run, budget>>

SetOptions(o) ==
    /\ o # opts
    /\ budget.sets > 0
    /\ budget' = [budget EXCEPT !.sets = @ - 1]
    /\ opts' = o
    /\ owed' = TRUE
    /\ Idle
    /\ UNCHANGED <<disks, host, run>>

\* cinder-volume creates a volume that lies on d, or the thin pool; LVM changes
\* no group that misses physical volumes.
CreateVolume(d) ==
    /\ Missing = {}
    /\ d \in Ours \ data
    /\ data' = data \cup {d}
    /\ UNCHANGED <<disk, group, orphans, pool, host, opts, owed, run, budget>>

CreatePool ==
    /\ VgExists /\ Missing = {} /\ pool = {}
    /\ pool' = Ours
    /\ UNCHANGED <<disk, group, data, orphans, host, opts, owed, run, budget>>

-----------------------------------------------------------------------------
(* The hook. *)

\* The hook looks for the devices of the options that are there and not mounted.
StartHook ==
    /\ Idle /\ owed
    /\ owed' = FALSE
    /\ run' = [NoRun EXCEPT
                  !.step = "scan", !.left = opts.listed,
                  !.seen = ToSet(opts.listed) \cap (attached \ mounted)]
    /\ UNCHANGED <<disks, host, opts, budget>>

\* The next device that the step is about.
This == IF run.step \in {"vgcreate", "extend", "grow"} THEN Head(run.new)
                                                       ELSE Head(run.left)

\* The logical volumes of the group of d are in use.
Busy(d) == group[d] # "none" /\ \E e \in mounted : group[e] = group[d]

\* The command of this step cannot succeed: the device is gone; vgchange or
\* vgremove meets volumes in use; vgcreate meets a group of that name; vgextend
\* meets missing physical volumes, or a device that is in the group already;
\* the only thin pool is not in our group.
Blocked ==
    CASE run.step = "scan"     -> /\ run.left # << >>
                                  /\ This \in run.seen \ attached
      [] run.step = "clean"    -> \/ This \notin attached
                                  \/ disk[This] = "pv" /\ Busy(This)
      [] run.step = "pvcreate" -> This \notin attached
      [] run.step = "vgremove" -> Ours \cap mounted # {}
      [] run.step = "vgcreate" -> VgExists \/ This \notin attached
      [] run.step = "extend"   -> \/ This \notin attached \/ Missing # {}
                                  \/ ~VgExists \/ This \in Ours
      [] run.step = "grow"     -> pool = {} /\ ForeignPool
      [] OTHER                 -> FALSE

\* Mutant: the option is not looked at.
Prepares_Always(d) == d \notin Ours

\* Mutant: a physical volume without a group is taken for one that is in use.
Prepares_NotOrphans(d) == IF disk[d] = "pv"
                          THEN group[d] = "other" /\ opts.overwrite
                          ELSE opts.overwrite \/ disk[d] # "table"

\* Whether d is cleaned and made a physical volume.  A filesystem without a
\* partition table counts as no data: has_partition_table asks fdisk.
Prepares(d) == IF disk[d] = "pv" THEN group[d] # "ours" /\ opts.overwrite
                                 ELSE opts.overwrite \/ disk[d] # "table"

\* vg_found: some device up to this one is in the group.
Found(d) == run.found \/ d \in run.seen \cap Ours

\* One turn of the loop over the devices, as far as the decision; a device that
\* was not there or was mounted when the hook started is passed over.
Examine ==
    /\ run.step = "scan" /\ run.left # << >> /\ ~Blocked
    /\ run' = IF This \in run.seen /\ Prepares(This)
              THEN [run EXCEPT !.step = "clean"]
              ELSE [run EXCEPT !.left = Tail(@), !.found = Found(This)]
    /\ UNCHANGED <<disks, host, opts, owed, budget>>

\* clean_storage: unmount, deactivate the group, remove the label, zap.
CleanStorage ==
    /\ run.step = "clean" /\ ~Blocked
    /\ disk' = [disk EXCEPT ![This] = "blank"]
    /\ group' = [group EXCEPT ![This] = "none"]
    /\ data' = data \ {This}
    /\ orphans' = orphans \ {This}
    /\ mounted' = mounted \ {This}
    /\ run' = [run EXCEPT !.step = "pvcreate"]
    /\ UNCHANGED <<pool, attached, opts, owed, budget>>

CreatePhysicalVolume ==
    /\ run.step = "pvcreate" /\ ~Blocked
    /\ disk' = [disk EXCEPT ![This] = "pv"]
    /\ run' = [run EXCEPT !.step = "scan", !.left = Tail(@),
                          !.new = Append(@, This)]
    /\ UNCHANGED <<group, data, orphans, pool, host, opts, owed, budget>>

\* Mutant: vg_found is not looked at.
AfterScan_AlwaysNew ==
    /\ run.step = "scan" /\ run.left = << >>
    /\ run' = [run EXCEPT !.step =
           IF run.new = << >> THEN "reduce"
           ELSE IF opts.overwrite /\ VgExists THEN "vgremove" ELSE "vgcreate"]
    /\ UNCHANGED <<disks, host, opts, owed, budget>>

\* The loop is over: a group is created if no device was in it, and one of
\* that name is removed first if overwrite is set.
AfterScan ==
    /\ run.step = "scan" /\ run.left = << >>
    /\ run' = [run EXCEPT !.step =
           IF run.found \/ run.new = << >> THEN "reduce"
           ELSE IF opts.overwrite /\ VgExists THEN "vgremove" ELSE "vgcreate"]
    /\ UNCHANGED <<disks, host, opts, owed, budget>>

\* vgremove --force
RemoveVolumeGroup ==
    /\ run.step = "vgremove" /\ ~Blocked
    /\ group' = [d \in Device |-> IF d \in Ours THEN "none" ELSE group[d]]
    /\ data' = data \ Ours
    /\ orphans' = orphans \cup Ours
    /\ pool' = {}
    /\ run' = [run EXCEPT !.step = "vgcreate"]
    /\ UNCHANGED <<disk, host, opts, owed, budget>>

CreateVolumeGroup ==
    /\ run.step = "vgcreate" /\ ~Blocked
    /\ group' = [group EXCEPT ![This] = "ours"]
    /\ run' = [run EXCEPT !.step = "reduce", !.new = Tail(@)]
    /\ UNCHANGED <<disk, data, orphans, pool, host, opts, owed, budget>>

\* Missing physical volumes leave the group; the errors of vgreduce are logged.
Removable == CASE opts.remove = "force"  -> Missing
               [] opts.remove = "unused" -> Missing \ data
               [] OTHER                  -> {}

Reduce ==
    /\ run.step = "reduce"
    /\ \E M \in {{}, Removable} :
           /\ group' = [d \in Device |-> IF d \in M THEN "none" ELSE group[d]]
           /\ data' = data \ M
           /\ orphans' = orphans \cup M
           /\ pool' = pool \ M
    /\ run' = IF run.new = << >> THEN NoRun ELSE [run EXCEPT !.step = "extend"]
    /\ UNCHANGED <<disk, host, opts, owed, budget>>

\* vgextend, then lvextend if there is exactly one thin pool.
Extend ==
    /\ run.step = "extend" /\ ~Blocked
    /\ group' = [group EXCEPT ![This] = "ours"]
    /\ run' = [run EXCEPT !.step = "grow"]
    /\ UNCHANGED <<disk, data, orphans, pool, host, opts, owed, budget>>

\* Mutant: the pool is left as it is.
GrowPool_Never ==
    /\ run.step = "grow" /\ ~Blocked
    /\ run' = IF Tail(run.new) = << >> THEN NoRun
              ELSE [run EXCEPT !.step = "extend", !.new = Tail(@)]
    /\ UNCHANGED <<disks, host, opts, owed, budget>>

GrowPool ==
    /\ run.step = "grow" /\ ~Blocked
    /\ pool' = IF pool = {} \/ ForeignPool THEN pool ELSE pool \cup {This}
    /\ run' = IF Tail(run.new) = << >> THEN NoRun
              ELSE [run EXCEPT !.step = "extend", !.new = Tail(@)]
    /\ UNCHANGED <<disk, group, data, orphans, host, opts, owed, budget>>

\* The command fails: the hook is run again.
Fail ==
    /\ ~Idle
    /\ Blocked \/ budget.fails > 0
    /\ budget' = IF Blocked THEN budget ELSE [budget EXCEPT !.fails = @ - 1]
    /\ owed' = TRUE
    /\ run' = NoRun
    /\ UNCHANGED <<disks, host, opts>>

Proceed == \/ Examine \/ CleanStorage \/ CreatePhysicalVolume \/ AfterScan
           \/ RemoveVolumeGroup \/ CreateVolumeGroup
           \/ Reduce \/ Extend \/ GrowPool

Next == \/ StartHook \/ Proceed \/ Fail
        \/ \E d \in Device : \/ Attach(d) \/ Detach(d)
                             \/ Mount(d) \/ Unmount(d) \/ CreateVolume(d)
        \/ CreatePool
        \/ \E o \in Options : SetOptions(o)

Spec == Init /\ [][Next]_vars

-----------------------------------------------------------------------------
(* Properties. *)

TypeOK ==
    /\ disk \in [Device -> Disk]
    /\ group \in [Device -> Group]
    /\ attached \subseteq Device
    /\ mounted \subseteq Device
    /\ data \subseteq Device
    /\ orphans \subseteq Device
    /\ pool \subseteq Device
    /\ opts \in Options
    /\ owed \in BOOLEAN
    /\ run \in Run
    /\ budget \in [sets : Nat, events : Nat, fails : Nat]

\* The listed devices that the charm has made physical volumes of and that are
\* in no group.
Stranded == {d \in ToSet(opts.listed) \cap attached :
                disk[d] = "pv" /\ group[d] = "none"}

\* "each block device detected will be added to the available physical volumes
\* in the volume group" (option block-device): no listed device is left
\* initialised and unused once the hook has succeeded.
NothingStranded == Idle /\ ~owed => Stranded = {}

\* With overwrite set, the hook converges: whatever failed before, the devices
\* it has initialised end up in the group, those it threw out excepted.
OverwriteConverges ==
    opts.overwrite /\ Idle /\ ~owed => Stranded \subseteq orphans

\* Without overwrite and with no removal forced, no command destroys data, but
\* for a filesystem that takes a whole disk: fdisk sees no partition table.
KeptWithoutOverwrite ==
    [][~opts.overwrite /\ opts.remove # "force" =>
           \A d \in data \ data' : disk[d] = "fs"]_vars

\* The volume group is never destroyed by a hook that has met one of its
\* devices: volumes are lost only with a group none of whose devices is listed
\* and there.
GroupSurvives ==
    [][RemoveVolumeGroup => \A d \in run.seen : d \notin Ours]_vars

\* What holds data is kept: other people's and the group's own.
NothingIsLost == KeptWithoutOverwrite /\ GroupSurvives

\* The thin pool extends over every device of the group, as long as no command
\* has failed.
PoolCoversGroup ==
    Idle /\ ~owed /\ budget.fails = MaxFails /\ pool # {}
        => Ours \cap attached \subseteq pool

\* What the hook has taken serves cinder, the device in the group and the group
\* in its pool.
DevicesServe == OverwriteConverges /\ PoolCoversGroup
=============================================================================
