------------------------------- MODULE HookEnv -------------------------------
(***************************************************************************)
(* What one hook leaves for the next.  A hook is a process: it reads the   *)
(* options and the settings of its own unit once and keeps them, it opens  *)
(* transactions on the store of the unit, and at its end it saves the      *)
(* options it has seen.  It may fail, or be killed, at any step; Juju then *)
(* drops what it has set on its relations and runs it again, and what it   *)
(* has written to files and has committed to the store stays.              *)
(*                                                                         *)
(* The store holds two keys that are written together, as the triggers of  *)
(* endpoint_changed are, and the option that config_value_changed keeps.   *)
(***************************************************************************)
EXTENDS Integers, FiniteSets

CONSTANTS
    OptionValues,  \* the values of one option
    MaxNonce       \* the values of a setting: 0..MaxNonce, 0 when never set

ASSUME HookEnvAssumption == OptionValues # {} /\ MaxNonce \in Nat

Absent == "absent"   \* None: no file, no entry, not read yet
Uncached == -1
Torn   == "torn"     \* a file that ends in the middle
ASSUME HookEnvDistinct == {Absent, Torn} \cap OptionValues = {}

Triggers == {"trigger1", "trigger2"}   \* keys that one function sets together
Nonces   == 0..MaxNonce

VARIABLES
    option,    \* config-get
    own,       \* relation-get of the unit's own settings, as Juju has them
    saved,     \* .juju-persistent-config
    store,     \* .unit-state.db: what is committed
    \* The process of the hook that runs:
    body,      \* "none", "running", "scope", "saving", "ended"
    conf,      \* _cache_config
    set,       \* the settings, with what relation-set has been told
    cache,     \* the entry of relation_get for the unit itself
    seen,      \* the store as its connection sees it
    \* History:
    handled    \* what the last hook whose body ended has read

hookVars == <<option, own, saved, store, body, conf, set, cache, seen, handled>>

Keys == Triggers \cup {"option"}

HookEnvInit ==
    /\ option \in OptionValues
    /\ own = 0
    /\ saved = Absent
    /\ store = [k \in Keys |-> IF k = "option" THEN Absent ELSE 0]
    /\ body = "none"
    /\ conf = Absent
    /\ set = 0
    /\ cache = Uncached
    /\ seen = store
    /\ handled = Absent

process == <<body, conf, set, cache, seen>>
left    == <<own, saved, store, handled>>

-----------------------------------------------------------------------------
(* Options: hookenv.config. *)

\* config(): "config-get" once in a process; the instance registers its
\* implicit save to be run at the exit.
ReadConfig ==
    /\ body = "running"
    /\ conf = Absent
    /\ conf' = option
    /\ UNCHANGED <<option, body, set, cache, seen>>
    /\ UNCHANGED left

\* Config.load_previous: a file that is empty or cannot be parsed is no
\* previous value.
Previous == IF saved \in OptionValues THEN saved ELSE Absent

\* Config.changed
Changed == Previous = Absent \/ Previous # conf

-----------------------------------------------------------------------------
(* The store: unitdata. *)

\* HookData.__call__: hook_scope begins, the execution environment is recorded,
\* for which the settings of the unit are read.
OpenScope ==
    /\ body = "running"
    /\ body' = "scope"
    /\ cache' = IF cache = Uncached THEN set ELSE cache
    /\ conf' = IF conf = Absent THEN option ELSE conf
    /\ UNCHANGED <<option, set, seen>>
    /\ UNCHANGED left

\* save_endpoint_changed_triggers: one key after the other.
SetTrigger(k, n) ==
    /\ body = "scope"
    /\ seen[k] < n
    /\ \A j \in Triggers : seen[j] \in {seen[k], n}
    /\ seen' = [seen EXCEPT ![k] = n]
    /\ UNCHANGED <<option, body, conf, set, cache>>
    /\ UNCHANGED left

\* config_value_changed notes the value that it compares with the one before.
NoteOption ==
    /\ body = "scope"
    /\ seen' = [seen EXCEPT !["option"] = conf]
    /\ UNCHANGED <<option, body, conf, set, cache>>
    /\ UNCHANGED left

\* The block of hook_scope ends: flush.  A function ends its block when it has
\* set all its keys.
CloseScope ==
    /\ body = "scope"
    /\ \A j, k \in Triggers : seen[j] = seen[k]
    /\ body' = "running"
    /\ store' = seen
    /\ UNCHANGED <<option, own, saved, conf, set, cache, seen, handled>>

-----------------------------------------------------------------------------
(* Relation settings. *)

\* cached: the entry of the cache, or what the tool says.
RelationGet ==
    /\ body = "running"
    /\ cache = Uncached
    /\ cache' = set
    /\ UNCHANGED <<option, body, conf, set, seen>>
    /\ UNCHANGED left

\* Mutant: relation_set leaves the cache alone.
Flush_Nothing == cache

\* flush(local_unit())
Flush == Uncached

\* relation_set, relation_clear (n = 0).
RelationSet(n) ==
    /\ body = "running"
    /\ set' = n
    /\ cache' = Flush
    /\ UNCHANGED <<option, body, conf, seen>>
    /\ UNCHANGED left

-----------------------------------------------------------------------------
(* The process: Hooks.execute. *)

StartHook ==
    /\ body = "none"
    /\ body' = "running"
    /\ conf' = Absent
    /\ set' = own
    /\ cache' = Uncached
    /\ seen' = store
    /\ UNCHANGED option
    /\ UNCHANGED left

\* The body returns, or exits with 0, and _run_atexit calls Config.save, which
\* truncates the file and then writes it.
Truncate ==
    /\ body = "running"
    /\ body' = "saving"
    /\ saved' = IF conf = Absent THEN saved ELSE Torn
    /\ handled' = IF conf = Absent THEN handled ELSE conf
    /\ UNCHANGED <<option, own, store, conf, set, cache, seen>>

Save ==
    /\ body = "saving"
    /\ body' = "ended"
    /\ saved' = IF conf = Absent THEN saved ELSE conf
    /\ UNCHANGED <<option, own, store, conf, set, cache, seen, handled>>

Forget ==
    /\ body' = "none"
    /\ conf' = Absent
    /\ cache' = Uncached

\* The status is assessed and the process ends: Juju takes over the settings.
Succeed ==
    /\ body = "ended"
    /\ Forget
    /\ own' = set
    /\ UNCHANGED <<option, saved, store, set, seen, handled>>

\* Mutant: the callbacks run however the hook ends.
SavedByFailure_Always == IF conf = Absent THEN saved ELSE conf

\* "Do not invoke it if the hook fails."
SavedByFailure == saved

\* An exception ends the process, or it is killed: hook_scope rolls back, or
\* sqlite does.
HookFails ==
    /\ body # "none"
    /\ Forget
    /\ set' = own
    /\ seen' = store
    /\ saved' = IF body = "running" THEN SavedByFailure ELSE saved
    /\ UNCHANGED <<option, own, store, handled>>

ChangeOption(v) ==
    /\ v # option
    /\ option' = v
    /\ UNCHANGED process
    /\ UNCHANGED left

HookEnvNext ==
    \/ StartHook \/ ReadConfig \/ OpenScope \/ NoteOption \/ CloseScope
    \/ RelationGet \/ Truncate \/ Save \/ Succeed \/ HookFails
    \/ \E n \in Nonces : RelationSet(n) \/ \E k \in Triggers : SetTrigger(k, n)
    \/ \E v \in OptionValues : ChangeOption(v)

HookEnvSpec == HookEnvInit /\ [][HookEnvNext]_hookVars

-----------------------------------------------------------------------------
(* Properties. *)

\* A change of an option is told to a hook as long as no hook that has seen it
\* has come to the end of its body: not if one that saw it failed, nor if one
\* was killed while it saved the options.
ChangesAreSeen == (conf # Absent /\ body \in {"running", "scope"}
                    /\ conf # handled) => Changed

\* What a hook reads is what it has written: the cached settings of the unit
\* are those that Juju would give.  And what it leaves is whole: keys that are
\* set in one scope are committed together, wherever the hook dies, and the
\* settings published are those of a hook that succeeded.
WritesAreWhole ==
    /\ cache \in {Uncached, set}
    /\ \A j, k \in Triggers : store[j] = store[k]
    /\ body = "none" => set = own /\ seen = store

\* A hook that fails, or is killed at any point, leaves nothing half done: what
\* it should have told later hooks is told, and what it wrote is whole or gone.
NothingIsHalfDone == ChangesAreSeen /\ WritesAreWhole
=============================================================================
