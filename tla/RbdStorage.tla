------------------------------ MODULE RbdStorage ------------------------------
(***************************************************************************)
(* ensure_ceph_storage: data of services that are in a directory move to   *)
(* an image of ceph that is mounted there.  The function runs in a hook,   *)
(* command by command; a command may fail or the hook end anywhere, and it *)
(* is run again, as it is once everything is done.  Versions of the data   *)
(* are numbers; a service that runs writes a new one.                      *)
(***************************************************************************)
EXTENDS Integers, Sequences

CONSTANT MaxVersion     \* how many versions are written
ASSUME RbdAssumption == MaxVersion \in Nat

VARIABLES
    poolExists, imageExists,  \* in ceph
    mapped,        \* the image is a block device here
    device,        \* the data on its filesystem, Unformatted if it has none
    directory,     \* the data in the directory itself, under any mount
    tmpMounted,    \* the device is mounted at /mnt
    inPlace,       \* the device is mounted at the directory
    fstab,         \* fstab has the mount
    serviceUp,     \* the service runs
    newest,        \* the version that was last written
    rbdStep,       \* the command to run next, "" if the function does not run
    mishap         \* history: a service has not stopped or a mount has failed, of
                   \* which nobody is told, or the machine rebooted

ceph     == <<poolExists, imageExists>>
rbdVars  == <<poolExists, imageExists, mapped, device, directory, tmpMounted, inPlace, fstab,
              serviceUp, newest, rbdStep, mishap>>

Unformatted == -2
Empty       == -1

RbdInit ==
    /\ poolExists \in BOOLEAN /\ imageExists = FALSE /\ mapped = FALSE
    /\ device = Unformatted /\ directory = 0
    /\ tmpMounted = FALSE /\ inPlace = FALSE /\ fstab = FALSE
    /\ serviceUp \in BOOLEAN /\ newest = 0
    /\ rbdStep = "" /\ mishap = FALSE

\* What a program finds in the directory.
Visible == IF inPlace THEN device ELSE directory

-----------------------------------------------------------------------------
(* The function. *)

\* What comes after the mapping: nothing if the directory is a mount already.
AfterMapping == IF inPlace THEN "" ELSE "mkfs"

EnsureCephStorage ==
    /\ rbdStep = "" /\ rbdStep' = "pool"
    /\ UNCHANGED <<ceph, mapped, device, directory, tmpMounted, inPlace, fstab, serviceUp, newest, mishap>>

EnsurePool ==
    /\ rbdStep = "pool" /\ poolExists' = TRUE /\ rbdStep' = "image"
    /\ UNCHANGED <<imageExists, mapped, device, directory, tmpMounted, inPlace, fstab, serviceUp, newest, mishap>>

EnsureImage ==
    /\ rbdStep = "image" /\ imageExists' = TRUE /\ rbdStep' = "map"
    /\ UNCHANGED <<poolExists, mapped, device, directory, tmpMounted, inPlace, fstab, serviceUp, newest, mishap>>

MapImage ==
    /\ rbdStep = "map" /\ mapped' = TRUE /\ rbdStep' = AfterMapping
    /\ UNCHANGED <<ceph, device, directory, tmpMounted, inPlace, fstab, serviceUp, newest, mishap>>

\* mkfs raises for a device that is mounted.
MakeFilesystem ==
    /\ rbdStep = "mkfs"
    /\ IF tmpMounted THEN rbdStep' = "" /\ UNCHANGED device
       ELSE rbdStep' = "stop" /\ device' = Empty
    /\ UNCHANGED <<ceph, mapped, directory, tmpMounted, inPlace, fstab, serviceUp, newest, mishap>>

\* Mutant: services are not stopped.
StopsServices_None == FALSE

\* Every one that runs is stopped "prior to migrating data".
StopsServices == serviceUp

\* service_stop returns FALSE if the service does not stop, and nobody looks: it writes
\* on while its data are copied.
StopServices ==
    /\ rbdStep = "stop" /\ rbdStep' = "tmp"
    /\ \/ serviceUp' = (serviceUp /\ ~StopsServices) /\ UNCHANGED mishap
       \/ StopsServices /\ mishap' = TRUE /\ UNCHANGED serviceUp
    /\ UNCHANGED <<ceph, mapped, device, directory, tmpMounted, inPlace, fstab, newest>>

\* Nor at the FALSE of mount.
MountTmp ==
    /\ rbdStep = "tmp" /\ rbdStep' = "copy"
    /\ tmpMounted' \in BOOLEAN /\ mishap' = (mishap \/ ~tmpMounted')
    /\ UNCHANGED <<ceph, mapped, device, directory, inPlace, fstab, serviceUp, newest>>

\* copy_files into /mnt, whatever that is.
CopyData ==
    /\ rbdStep = "copy" /\ rbdStep' = "umount"
    /\ device' = IF tmpMounted THEN directory ELSE device
    /\ UNCHANGED <<ceph, mapped, directory, tmpMounted, inPlace, fstab, serviceUp, newest, mishap>>

UmountTmp ==
    /\ rbdStep = "umount" /\ rbdStep' = "mount"
    /\ \/ tmpMounted' = FALSE /\ UNCHANGED mishap
       \/ tmpMounted /\ mishap' = TRUE /\ UNCHANGED tmpMounted
    /\ UNCHANGED <<ceph, mapped, device, directory, inPlace, fstab, serviceUp, newest>>

\* Persistent: fstab_add.
MountInPlace ==
    /\ rbdStep = "mount" /\ rbdStep' = "start"
    /\ inPlace' \in BOOLEAN /\ fstab' = (fstab \/ inPlace') /\ mishap' = (mishap \/ ~inPlace')
    /\ UNCHANGED <<ceph, mapped, device, directory, tmpMounted, serviceUp, newest>>

StartServices ==
    /\ rbdStep = "start" /\ rbdStep' = ""
    /\ serviceUp' \in {TRUE, serviceUp}
    /\ UNCHANGED <<ceph, mapped, device, directory, tmpMounted, inPlace, fstab, newest, mishap>>

\* A command raises, or the hook ends; copy_files may have copied a part.
RbdCommandFails ==
    /\ rbdStep # "" /\ rbdStep' = ""
    /\ device' \in {device} \cup (IF rbdStep = "copy" /\ tmpMounted THEN {Empty} ELSE {})
    /\ UNCHANGED <<ceph, mapped, directory, tmpMounted, inPlace, fstab, serviceUp, newest, mishap>>

-----------------------------------------------------------------------------
(* The machine. *)

ServiceWrites ==
    /\ serviceUp /\ newest < MaxVersion
    /\ newest' = newest + 1
    /\ IF inPlace THEN device' = newest' /\ UNCHANGED directory
       ELSE directory' = newest' /\ UNCHANGED device
    /\ UNCHANGED <<ceph, mapped, tmpMounted, inPlace, fstab, serviceUp, rbdStep, mishap>>

\* A service that was stopped by a hook that failed, or crashed, is started or not.
OperatorStarts ==
    /\ ~serviceUp /\ rbdStep = "" /\ serviceUp' = TRUE
    /\ UNCHANGED <<ceph, mapped, device, directory, tmpMounted, inPlace, fstab, newest, rbdStep, mishap>>

\* Images are not mapped at boot, and so fstab mounts nothing.
Reboot ==
    /\ mapped
    /\ mapped' = FALSE /\ tmpMounted' = FALSE /\ inPlace' = FALSE
    /\ rbdStep' = "" /\ mishap' = TRUE
    /\ UNCHANGED <<ceph, device, directory, fstab, serviceUp, newest>>

RbdNext ==
    \/ EnsureCephStorage \/ EnsurePool \/ EnsureImage \/ MapImage \/ MakeFilesystem
    \/ StopServices \/ MountTmp \/ CopyData \/ UmountTmp \/ MountInPlace \/ StartServices
    \/ RbdCommandFails \/ ServiceWrites \/ OperatorStarts \/ Reboot

RbdSpec == RbdInit /\ [][RbdNext]_rbdVars

-----------------------------------------------------------------------------
(* Properties. *)

\* No data are lost by the move: as long as every service that runs stops when it is
\* told to, no mount fails silently and the machine does not reboot, the directory
\* shows the newest version wherever the function is interrupted and however often it
\* runs again; once it is done the data are on the device, and the function does not
\* format a device that is in use.
MoveKeepsData ==
    ~mishap => /\ Visible = newest
               /\ inPlace => ~tmpMounted /\ fstab
=============================================================================
