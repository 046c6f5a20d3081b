-------------------------------- MODULE Policyd --------------------------------
(***************************************************************************)
(* The policy overrides of one unit: the option, the resource of Juju, the *)
(* policy.d directory and the file that records success.                   *)
(*                                                                         *)
(* config-changed and upgrade-charm call maybe_do_policyd_overrides at     *)
(* their end; Juju runs upgrade-charm when a resource is attached.  The    *)
(* directory is rewritten file by file, and a hook that is killed is run   *)
(* again: its steps are steps of this module.                              *)
(***************************************************************************)
EXTENDS Integers

CONSTANTS
    Resources,   \* the resources that the operator attaches
    MaxEvents,   \* bound: what the operator and the other charms do
    MaxFaults    \* bound: hooks that are killed, services that fail

\* What is wrong with a resource: nothing; it does not open (not a zip file, no
\* yaml file, duplicates); its second file is no policy file.
Quality == {"good", "unopenable", "bad-file"}
Files   == 1..2

ASSUME PolicydAssumption ==
    /\ Resources \subseteq [id : Nat, is : Quality]
    /\ MaxEvents \in Nat /\ MaxFaults \in Nat

NotAttached == [id |-> 0, is |-> "unopenable"]

VARIABLES
    queens,    \* the release is queens or later
    enabled,   \* option use-policyd-override
    resource,  \* the resource policyd-override
    dir,       \* the files in policy.d: a resource and the number of the file
    success,   \* the success file
    missed,    \* a paused unit has skipped config-changed
    owed,      \* the hooks that Juju owes to the unit
    failed,    \* the hook in error; Juju runs it again before any other
    run,       \* the hook or action that is executing and its next step
    left       \* what is left of the bounds

policydVars == <<queens, enabled, resource, dir, success, missed>>

PolicyHooks == {"config-changed", "upgrade-charm"}
PolicySteps == {"clean", "unset", "open", "clear", "write", "finish", "abort"}

\* What executes: its next step, the resource that it opened, the next file.
NoRun == [op |-> "none", step |-> "idle", zip |-> NotAttached, next |-> 0]
Executes(op, step) == [NoRun EXCEPT !.op = op, !.step = step]
Idle == run.step = "idle"

PolicydInit ==
    /\ queens \in BOOLEAN
    /\ enabled = FALSE
    /\ resource = NotAttached
    /\ dir = {}
    /\ success = FALSE
    /\ missed = FALSE

Spend(b) == left[b] > 0 /\ left' = [left EXCEPT ![b] = @ - 1]

\* The files of a resource.
FilesOf(r) == {[of |-> r.id, file |-> f] : f \in Files}

-----------------------------------------------------------------------------
(* maybe_do_policyd_overrides *)

Goto(step) == run' = [run EXCEPT !.step = step]

\* Juju dispatches h: a hook in error before any other.
Dispatch(h) ==
    /\ Idle
    /\ h \in owed
    /\ failed \in {"none", h}
    /\ owed' = owed \ {h}
    /\ failed' = "none"

\* Before queens nothing is done.  Option off: the directory is cleaned.  "if
\* the policyd overrides have been performed when doing config_changed just
\* return".
FirstStep(h) ==
    CASE ~queens' -> "assess"
      [] queens' /\ ~enabled -> "clean"
      [] queens' /\ enabled /\ h = "config-changed" /\ success -> "assess"
      [] OTHER -> "open"

\* The hook up to the overrides: config-changed is skipped on a paused unit,
\* and may upgrade the release on another.
PolicyHook(h, paused) ==
    /\ Dispatch(h)
    /\ h \in PolicyHooks
    /\ IF h = "config-changed" /\ paused
       THEN /\ run' = Executes(h, "assess")
            /\ missed' = TRUE
            /\ UNCHANGED queens
       ELSE /\ queens' \in IF h = "config-changed" THEN {queens, TRUE}
                                                   ELSE {queens}
            /\ run' = Executes(h, FirstStep(h))
            /\ missed' = (missed /\ h # "config-changed")
    /\ UNCHANGED <<enabled, resource, dir, success, left>>

Doing(step) == run.step = step /\ UNCHANGED <<queens, enabled, resource, missed,
                                              owed, failed, left>>

\* clean_policyd_dir_for, then remove_policy_success_file.
Clean == /\ Doing("clean")
         /\ dir' = {}
         /\ Goto("unset")
         /\ UNCHANGED success

Unset == /\ Doing("unset")
         /\ success' = FALSE
         /\ Goto("assess")
         /\ UNCHANGED dir

\* open_and_filter_yaml_files raises before anything has been removed.
Open == /\ Doing("open")
        /\ IF resource.is = "unopenable"
           THEN Goto("abort") /\ UNCHANGED success
           ELSE /\ run' = [run EXCEPT !.step = "clear", !.zip = resource,
                                      !.next = 1]
                /\ success' = FALSE
        /\ UNCHANGED dir

Clear == /\ Doing("clear")
         /\ dir' = {}
         /\ Goto("write")
         /\ UNCHANGED success

\* read_and_validate_yaml and write_file, one file after the other.
WriteFile ==
    /\ Doing("write")
    /\ IF run.zip.is = "bad-file" /\ run.next = 2
       THEN Goto("abort") /\ UNCHANGED dir
       ELSE /\ dir' = dir \cup {[of |-> run.zip.id, file |-> run.next]}
            /\ IF run.next = 2 THEN Goto("finish")
                               ELSE run' = [run EXCEPT !.next = @ + 1]
    /\ UNCHANGED success

Finish == /\ Doing("finish")
          /\ success' = TRUE
          /\ Goto("assess")
          /\ UNCHANGED dir

\* Mutant: a resource that fails leaves what was written.
Abort_KeepFiles == /\ Doing("abort")
                   /\ Goto("assess")
                   /\ UNCHANGED <<dir, success>>

\* "Processing failed: cleaning policy.d directory"; the success file, removed
\* or not, is left as it is.
Abort == /\ Doing("abort")
         /\ dir' = {}
         /\ Goto("assess")
         /\ UNCHANGED success

\* The hook is killed: the finally clause does not run.
KilledAmidPolicy ==
    /\ run.step \in PolicySteps
    /\ Spend("faults")
    /\ owed' = owed \cup {run.op}
    /\ failed' = run.op
    /\ run' = NoRun
    /\ UNCHANGED policydVars

PolicyStep == Clean \/ Unset \/ Open \/ Clear \/ WriteFile \/ Finish \/ Abort

-----------------------------------------------------------------------------
(* The operator. *)

\* juju config use-policyd-override
Toggle ==
    /\ Spend("events")
    /\ enabled' = ~enabled
    /\ owed' = owed \cup {"config-changed"}
    /\ UNCHANGED <<queens, resource, dir, success, missed, failed, run>>

\* juju attach-resource
Attach(r) ==
    /\ r # resource
    /\ Spend("events")
    /\ resource' = r
    /\ owed' = owed \cup {"upgrade-charm"}
    /\ UNCHANGED <<queens, enabled, dir, success, missed, failed, run>>

Operator == Toggle \/ \E r \in Resources : Attach(r)

-----------------------------------------------------------------------------
(* Properties. *)

PolicydTypeOK ==
    /\ queens \in BOOLEAN /\ enabled \in BOOLEAN /\ success \in BOOLEAN
    /\ missed \in BOOLEAN
    /\ resource \in Resources \cup {NotAttached}
    /\ dir \subseteq [of : Nat, file : Files]

\* The hooks have run, and none was skipped on a paused unit: if a hook is
\* killed and the unit paused before it is run again, the half-written directory
\* stays until the next config-changed.
AtRest == /\ Idle /\ failed = "none" /\ owed \cap PolicyHooks = {}
          /\ ~missed

\* policyd_status_message_prefix
Prefix == IF ~enabled THEN "none" ELSE IF success THEN "PO" ELSE "broken"

\* "If any error occurs, then the policy.d directory is cleared": whatever was
\* attached, toggled or killed, the directory holds one resource, and all of
\* it, or nothing.
AllOrNothing ==
    AtRest => dir = {} \/ \E r \in Resources : r.is = "good" /\ dir = FilesOf(r)

\* A good resource is never mistaken for a former one: what is installed is
\* what is attached.
InstalledIsAttached ==
    AtRest /\ enabled /\ dir # {} => dir = FilesOf(resource)

\* "No policy override files are installed if the PO (broken) is shown."
BrokenMeansNone == AtRest /\ Prefix = "broken" => dir = {}

\* "If the installation of the policy override YAML files failed for any reason
\* then the status line will be prefixed with PO (broken)."
FailureIsTold == AtRest /\ Prefix = "PO" => dir # {}

\* The overrides go when the option is set to false.
DisabledMeansNone == AtRest /\ queens /\ ~enabled => dir = {} /\ ~success

\* What maybe_do_policyd_overrides promises in its docstring, however toggles,
\* resources, pauses and killed hooks follow each other.
OverridesAreSound ==
    AllOrNothing /\ InstalledIsAttached /\ BrokenMeansNone /\ DisabledMeansNone
=============================================================================
