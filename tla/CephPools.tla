------------------------------ MODULE CephPools ------------------------------
(***************************************************************************)
(* Pools of ceph.  A client puts operations together and checks them;      *)
(* ceph-mon carries an operation out, when it comes and again when it      *)
(* comes again, with the same classes: it creates the pool if there is     *)
(* none and updates it otherwise.  Every command may fail, which ends the  *)
(* call there.                                                             *)
(***************************************************************************)
EXTENDS Integers, Sequences

CONSTANTS
    Replicas,   \* the values of replicas that are asked for
    PgNums,     \* of pg_num, 0: not given
    OsdCounts,  \* how many OSDs ceph lists
    MaxCuts     \* how many commands may fail

\* A bound: with up to so many OSDs a share lies between two of the powers of NearestPower.
MostOsds == 10000

ASSUME CephPoolsAssumption ==
    /\ Replicas \subseteq Nat \ {0} /\ PgNums \subseteq Nat /\ OsdCounts \subseteq Nat
    /\ \A n \in OsdCounts : n <= MostOsds
    /\ MaxCuts \in Nat

VARIABLES
    expectedOsds, \* expected-osd-count
    osds,         \* the OSDs there are
    nautilus,     \* the version of ceph-common is 14.2.0 or later
    pool,         \* the pool, or NoPool
    call,         \* the call that runs: its operation and commands to run
    made,         \* the operation that the pool was created for (history)
    uncut,        \* no command of that call has failed (history)
    cuts

poolVars == <<expectedOsds, osds, nautilus, pool, call, made, uncut, cuts>>
cluster  == <<expectedOsds, osds, nautilus>>

\* What the properties tell apart of an operation; pg_num 0 and weight 10 are
\* those that are not given.  A value of compression-mode that is not in
\* op_validation_map is "wrong".
Op == [type : {"replicated", "erasure"}, replicas : Replicas, pg_num : PgNums,
       weight : {10, 100}, quota : BOOLEAN, compression : {"none", "force", "wrong"}]
NoOp == [type |-> "none"]

NoPool == [exists |-> FALSE]
Ready  == [op |-> NoOp, todo |-> <<>>, creates |-> FALSE]

PoolsInit ==
    /\ expectedOsds \in {0, 5} /\ osds \in OsdCounts /\ nautilus \in BOOLEAN
    /\ pool = NoPool /\ call = Ready
    /\ made = NoOp /\ uncut = TRUE /\ cuts = 0

-----------------------------------------------------------------------------
(* The size of a pool. *)

\* validator, for the keys of op_validation_map
ValidOp(op) == op.compression # "wrong"

\* add_op_create_replicated_pool, where pg_num and weight exclude each other;
\* add_op_create_erasure_pool, which knows neither number and gives the operation
\* in the place of the name, so that nothing of it is validated.
AddsOp(op) ==
    \/ op.type = "replicated" /\ ValidOp(op) /\ (op.pg_num = 0 \/ op.weight = 10)
    \/ op.type = "erasure" /\ op.pg_num = 0 /\ \A r \in Replicas : op.replicas <= r

Powers == {2^e : e \in 0..20}

\* The floor of the logarithm, as a power.
PowerBelow(n) == CHOOSE p \in Powers : p <= n /\ n < 2 * p

\* Mutant: the next power of two from a quarter on.
NearestPower_TooHigh(n) == IF n = PowerBelow(n) THEN PowerBelow(n) ELSE 2 * PowerBelow(n)

\* "find the nearest power of 2 such that 2^n <= num_pg, check to see if its
\* within the 25% tolerance"
NearestPower(n) ==
    IF 4 * (n - PowerBelow(n)) > n THEN 2 * PowerBelow(n) ELSE PowerBelow(n)

OsdCount == IF osds > expectedOsds THEN osds ELSE expectedOsds

\* 100 placement groups for each OSD, of which the pool has its percentage.
PgShare(size, percent) ==
    LET share == (OsdCount * percent) \div size IN IF share < 2 THEN 2 ELSE share

\* get_pgs; 200 when ceph tells no OSDs and no count is expected
GetPgs(size, percent) ==
    IF OsdCount = 0 THEN 200 ELSE NearestPower(PgShare(size, percent))

\* The profile of an erasure pool has k=2 and m=1.
PgNumOf(op) ==
    IF op.type = "erasure" THEN GetPgs(3, op.weight)
    ELSE IF op.pg_num = 0 THEN GetPgs(op.replicas, op.weight)
    ELSE LET most == GetPgs(op.replicas, 100)
         IN  IF op.pg_num < most THEN op.pg_num ELSE most

-----------------------------------------------------------------------------
(* Commands. *)

Only(c, p) == IF p THEN <<c>> ELSE <<>>

\* BasePool.update, after validate
UpdateCommands(op) ==
    Only("quota", op.quota) \o Only("compression", op.compression # "none")

\* BasePool._post_create, and what the classes put before and after it
PostCreateCommands(op) ==
    Only("size", op.type = "replicated") \o Only("ratio", nautilus)
        \o <<"application", "autoscale">> \o Only("overwrites", op.type = "erasure")

CreateCommands(op) == <<"create">> \o PostCreateCommands(op) \o UpdateCommands(op)

\* A request arrives: the caller asks whether the pool exists, and calls create or
\* update; either validates before its first command.
Apply(op) ==
    /\ call = Ready
    /\ AddsOp(op)
    /\ ValidOp(op)
    /\ call' = [op |-> op, creates |-> ~pool.exists,
                todo |-> IF pool.exists THEN UpdateCommands(op) ELSE CreateCommands(op)]
    /\ UNCHANGED <<cluster, pool, made, uncut, cuts>>

Doing(c) == call.todo # <<>> /\ Head(call.todo) = c
Done     == call' = [call EXCEPT !.todo = Tail(@)]

\* _create, with the defaults that ceph gives a pool
CreatePool ==
    /\ Doing("create")
    /\ pool' = [exists |-> TRUE, pgs |-> PgNumOf(call.op), size |-> 0, ratio |-> 0,
                application |-> FALSE, autoscale |-> FALSE, overwrites |-> FALSE,
                quota |-> FALSE, compression |-> "none"]
    /\ made' = call.op
    /\ Done
    /\ UNCHANGED <<cluster, uncut, cuts>>

\* update_pool, set_app_name_for_pool, enable_pg_autoscale, set_pool_quota
SetOfPool(c, key, value) ==
    /\ Doing(c)
    /\ pool' = [pool EXCEPT ![key] = value]
    /\ Done
    /\ UNCHANGED <<cluster, made, uncut, cuts>>

Set ==
    \/ SetOfPool("size", "size", call.op.replicas)
    \/ SetOfPool("ratio", "ratio", call.op.weight)
    \/ SetOfPool("application", "application", TRUE)
    \/ SetOfPool("autoscale", "autoscale", TRUE)
    \/ SetOfPool("overwrites", "overwrites", TRUE)
    \/ SetOfPool("quota", "quota", TRUE)
    \/ SetOfPool("compression", "compression", call.op.compression)

Returned ==
    /\ call # Ready /\ call.todo = <<>>
    /\ call' = Ready
    /\ UNCHANGED <<cluster, pool, made, uncut, cuts>>

\* CalledProcessError, which is logged for the name of the application and for
\* the autoscaler, and ends the call otherwise.
CommandFails ==
    /\ call.todo # <<>> /\ cuts < MaxCuts
    /\ cuts' = cuts + 1
    /\ IF Head(call.todo) \in {"application", "autoscale"}
       THEN Done /\ UNCHANGED uncut
       ELSE /\ call' = Ready
            /\ uncut' = (uncut /\ ~(call.creates /\ pool.exists))
    /\ UNCHANGED <<cluster, pool, made>>

PoolsNext ==
    \/ \E op \in Op : Apply(op)
    \/ CreatePool \/ Set \/ Returned \/ CommandFails

PoolsSpec == PoolsInit /\ [][PoolsNext]_poolVars

-----------------------------------------------------------------------------
(* Properties. *)

\* A pool is what was asked for: after the call that created it, if no command of
\* it failed, it has the size, share, quota and compression of the operation,
\* whatever other operations came later; it never has a value that is not valid;
\* its placement groups are at least three quarters of its share and less than
\* half as many again, and not more than were asked for.
PoolsAreAsAsked ==
    /\ (call = Ready /\ pool.exists /\ uncut) =>
          /\ made.type = "replicated" => pool.size = made.replicas
          /\ made.type = "erasure" => pool.overwrites
          /\ nautilus => pool.ratio = made.weight
          /\ made.quota => pool.quota
          /\ made.compression = "force" => pool.compression = "force"
    /\ pool.exists =>
          /\ pool.compression # "wrong"
          /\ made.type = "replicated" /\ made.pg_num # 0 => pool.pgs <= made.pg_num
    /\ (Doing("create") /\ OsdCount # 0) =>
          LET size  == IF call.op.type = "erasure" THEN 3 ELSE call.op.replicas
              share == PgShare(size, call.op.weight)
              pgs   == GetPgs(size, call.op.weight)
          IN  3 * share <= 4 * pgs /\ 2 * pgs < 3 * share
=============================================================================
