----------------------- MODULE OpenstackUpgrade_proofs -----------------------
(***************************************************************************)
(* Proofs about OpenstackUpgrade, for any number of releases and any       *)
(* bounds: what do_openstack_upgrade leaves behind.                        *)
(***************************************************************************)
EXTENDS OpenstackUpgrade, TLAPS

USE OpenstackUpgradeAssumption DEF OpenstackUpgradeAssumption

-----------------------------------------------------------------------------
(***************************************************************************)
(* The inductive invariant.                                                *)
(*                                                                         *)
(* The properties speak of the unit between two hooks, of one whose        *)
(* upgrades were not interrupted.  A flag that says an interruption has    *)
(* been made good is taken back by the last step of a later upgrade, so    *)
(* each part below says two things: what holds outside do_openstack_upgrade*)
(* of a unit that was not interrupted, and what the steps of an upgrade    *)
(* establish, whatever was wrong when it began.                            *)
(***************************************************************************)

\* The packages have been upgraded, in this process.
Installed == run.step \in {"purge", "render", "stop", "migrate", "start", "tell"}

\* The process is in do_openstack_upgrade.
Upgrading == run.step \in {"source", "apt"} \/ Installed

\* No package is being changed.
Settled == run.step \in {"idle", "begin", "source", "write", "restart"}

\* The packages are as they were when the process started, and so are the
\* services.
Untouched == Settled /\ ~run.upgraded

\* Such a unit was never interrupted, or what was interrupted is being done over.
Sound(steps) == (~cut /\ Settled) \/ run.upgraded \/ run.step \in steps

\* What a process knows.
RunInv ==
    /\ Upgrading => /\ run.src \in Release /\ run.src > run.configs
                    /\ ~run.upgraded
    /\ Upgrading \/ run.upgraded \/ At("begin")
          => run.kind \in {"config-changed", "action"}
    /\ run.upgraded => run.step \in {"write", "restart"}
    /\ run.upgraded /\ run.kind = "action" => run.configs = OsRelease
    /\ ~Idle /\ Untouched => run.configs = OsRelease
    /\ ~Idle /\ ~run.upgraded => run.told = told

\* The package that decides is of the release that is installed: while apt runs,
\* it and the others may be on their way to the release of the source.
PackageInv ==
    /\ ~cut /\ ~At("apt") => code = OsRelease
    /\ ~cut /\ At("apt")
          => \/ code = OsRelease
             \/ index = run.src /\ marker <= run.src /\ code <= run.src

\* Packages of python 2 are left over only by a release that has none, so that
\* remove_old_packages purges them, if it can tell the release.
LeftoverInv ==
    /\ leftover => code >= Py3
    /\ ~cut /\ Settled => ~leftover
    /\ run.upgraded \/ (Installed /\ ~At("purge"))
          => ~(leftover /\ code = OsRelease)

\* The leader has migrated, and what was started since is the code installed.
DatabaseInv ==
    /\ ran.code <= code
    /\ leader /\ Sound({"start", "tell"}) => schema = code
    /\ up /\ ~refused /\ Sound({"start", "tell"}) => ran.code = code
    /\ run.step \in {"migrate", "start"} => ~up \/ refused

\* What was announced, or is about to be.
ToldInv ==
    /\ run.upgraded => run.told["storage"] = OsRelease
    /\ ~cut /\ Untouched => told["storage"] = OsRelease

\* A write with CONFIGS of the installed release makes the files fit.
FileInv ==
    /\ ~cut /\ Untouched => OldFilesWritten \/ file = OsRelease
    /\ At("restart") => OldFilesWritten \/ file = OsRelease

\* Services do not run in a paused unit, nor does the wrapper hash its files.
PauseInv ==
    /\ paused => ~up \/ refused
    /\ paused /\ ~Idle => run.before = 0
    /\ ~Idle /\ run.step # "restart" /\ Untouched
          => run.before = IF paused THEN 0 ELSE file

\* While nothing failed, the services have read the files on disk, unless these
\* are the old ones that a config-changed wrote, which the next write replaces.
ReadInv ==
    /\ At("apt") => index = run.src
    /\ Installed => OsRelease >= run.src
    /\ run.upgraded /\ run.kind = "config-changed" => run.configs < OsRelease
    /\ Untouched /\ ~At("restart") /\ up /\ ~refused => ran.file = file \/ file # OsRelease
    /\ At("tell") /\ up /\ ~refused => ran.file = file
    /\ At("write") /\ run.upgraded /\ run.kind = "action" /\ up /\ ~refused
          => ran.file = file /\ run.before = file
    /\ At("restart") /\ up /\ ~refused
          => run.before \notin {0, file} \/ ran.file = file \/ file # OsRelease

MishapInv ==
    /\ budget.fails <= MaxFails /\ budget.flaky <= MaxFlaky
    /\ NoMishap => ReadInv

UpgradeInv ==
    /\ TypeOK /\ RunInv /\ PackageInv /\ LeftoverInv /\ DatabaseInv
    /\ ToldInv /\ FileInv /\ PauseInv /\ MishapInv

-----------------------------------------------------------------------------
(* It is inductive. *)

\* UpgradeInv holds initially.
LEMMA InitInv == Init => UpgradeInv
<1> SUFFICES ASSUME Init PROVE UpgradeInv OBVIOUS
<1> USE DEF Init, NoRun, Run, Kind, Step, Release, Backend, Unknown, OsRelease,
            Idle, At,
            Installed, Upgrading, Settled, Untouched, Sound
<1>1. TypeOK
  <2>1. run \in Run OBVIOUS
  <2> QED BY <2>1 DEF TypeOK
<1>2. RunInv BY DEF RunInv
<1>3. PackageInv BY DEF PackageInv
<1>4. LeftoverInv BY DEF LeftoverInv
<1>5. DatabaseInv BY DEF DatabaseInv
<1>6. ToldInv BY DEF ToldInv
<1>7. FileInv BY DEF FileInv, OldFilesWritten
<1>8. PauseInv BY DEF PauseInv
<1>9. MishapInv BY DEF MishapInv, ReadInv, NoMishap
<1> QED BY <1>1, <1>2, <1>3, <1>4, <1>5, <1>6, <1>7, <1>8, <1>9 DEF UpgradeInv

\* What the commands to the services do to the types, and what of the bounds they
\* leave alone: cited wherever one of them is called.
Budget == [sets : Nat, ops : Nat, fails : Nat, flaky : Nat, refused : Nat]

LEMMA CommandTypes ==
    ASSUME TypeOK, NEW b \in Budget, Start(b) \/ Stop(b) \/ Restart(b)
    PROVE  /\ up' \in BOOLEAN /\ ran' \in [code : Release, file : Release]
           /\ refused' \in BOOLEAN
           /\ budget' \in Budget
           /\ budget'.fails = b.fails /\ budget'.flaky = b.flaky
<1> USE DEF TypeOK, Budget, Obeys, Latest, services
<1>1. CASE Start(b)
  <2>1. CASE up /\ budget' = b /\ UNCHANGED services BY <2>1
  <2>2. CASE ~(up /\ budget' = b /\ UNCHANGED services)
    <3>1. PICK obeyed \in BOOLEAN : /\ Obeys(obeyed, b) /\ up' = obeyed
                                     /\ ran' = IF obeyed THEN Latest ELSE ran
      BY <1>1, <2>2, Zenon DEF Start
    <3> QED BY <3>1
  <2> QED BY <2>1, <2>2
<1>2. CASE Stop(b)
  <2>1. PICK obeyed \in BOOLEAN : /\ Obeys(obeyed, b) /\ up' = (up /\ ~obeyed)
                                   /\ ran' = ran
    BY <1>2, Zenon DEF Stop
  <2> QED BY <2>1
<1>3. CASE Restart(b)
  <2>1. PICK obeyed \in BOOLEAN : /\ Obeys(obeyed, b)
                                   /\ (up' = obeyed \/ (~obeyed /\ up' = up))
                                   /\ ran' = IF obeyed THEN Latest ELSE ran
    BY <1>3, Zenon DEF Restart
  <2> QED BY <2>1
<1> QED BY <1>1, <1>2, <1>3

\* Every step keeps every part of UpgradeInv.
LEMMA NextInv == UpgradeInv /\ [Next]_vars => UpgradeInv'
<1> SUFFICES ASSUME UpgradeInv, [Next]_vars PROVE UpgradeInv' OBVIOUS
<1> USE DEF UpgradeInv, TypeOK, RunInv, PackageInv, LeftoverInv, DatabaseInv,
            ToldInv, FileInv, PauseInv, MishapInv, ReadInv,
            Run, Kind, Step, Release, Backend, Unknown, Idle, At, Goto, OsRelease,
            Installed, Upgrading, Settled, Untouched, Sound, OldFilesWritten,
            NoMishap, options, place, packages, services
<1>1. CASE SetOption
  <2>1. TypeOK' BY <1>1 DEF SetOption, Spend
  <2>2. RunInv' BY <1>1 DEF SetOption, Spend
  <2>3. PackageInv' BY <1>1 DEF SetOption, Spend
  <2>4. LeftoverInv' BY <1>1 DEF SetOption, Spend
  <2>5. DatabaseInv' BY <1>1 DEF SetOption, Spend
  <2>6. ToldInv' BY <1>1 DEF SetOption, Spend
  <2>7. FileInv' BY <1>1 DEF SetOption, Spend
  <2>8. PauseInv' BY <1>1 DEF SetOption, Spend
  <2>9. MishapInv' BY <1>1 DEF SetOption, Spend
  <2> QED BY <2>1, <2>2, <2>3, <2>4, <2>5, <2>6, <2>7, <2>8, <2>9
<1>2. CASE StartConfigChanged
  <2>1. TypeOK'
    <3>1. NoRun \in Run /\ Started("config-changed", "begin") \in Run
      BY DEF NoRun, Started
    <3>2. run' \in Run
      BY <1>2, <3>1 DEF StartConfigChanged
    <3>3. UNCHANGED <<origin, managed, place, paused, packages, file, services,
                      schema, told, writer, cut, budget>>
          /\ owed' = FALSE /\ failed' = FALSE
      BY <1>2 DEF StartConfigChanged
    <3> HIDE DEF Run, Step
    <3> QED BY <3>2, <3>3
  <2>2. RunInv' BY <1>2 DEF StartConfigChanged, Started, NoRun
  <2>3. PackageInv' BY <1>2 DEF StartConfigChanged, Started, NoRun
  <2>4. LeftoverInv' BY <1>2 DEF StartConfigChanged, Started, NoRun
  <2>5. DatabaseInv' BY <1>2 DEF StartConfigChanged, Started, NoRun
  <2>6. ToldInv' BY <1>2 DEF StartConfigChanged, Started, NoRun
  <2>7. FileInv' BY <1>2 DEF StartConfigChanged, Started, NoRun
  <2>8. PauseInv' BY <1>2 DEF StartConfigChanged, Started, NoRun
  <2>9. MishapInv' BY <1>2 DEF StartConfigChanged, Started, NoRun
  <2> QED BY <2>1, <2>2, <2>3, <2>4, <2>5, <2>6, <2>7, <2>8, <2>9
<1>3. CASE StartAction
  <2>1. TypeOK' BY <1>3 DEF StartAction, Started, Spend
  <2>2. RunInv' BY <1>3 DEF StartAction, Started, Spend
  <2>3. PackageInv' BY <1>3 DEF StartAction, Started, Spend
  <2>4. LeftoverInv' BY <1>3 DEF StartAction, Started, Spend
  <2>5. DatabaseInv' BY <1>3 DEF StartAction, Started, Spend
  <2>6. ToldInv' BY <1>3 DEF StartAction, Started, Spend
  <2>7. FileInv' BY <1>3 DEF StartAction, Started, Spend
  <2>8. PauseInv' BY <1>3 DEF StartAction, Started, Spend
  <2>9. MishapInv' BY <1>3 DEF StartAction, Started, Spend
  <2> QED BY <2>1, <2>2, <2>3, <2>4, <2>5, <2>6, <2>7, <2>8, <2>9
<1>4. CASE StartOther
  <2>1. TypeOK' BY <1>4 DEF StartOther, Started, Spend
  <2>2. RunInv' BY <1>4 DEF StartOther, Started, Spend
  <2>3. PackageInv' BY <1>4 DEF StartOther, Started, Spend
  <2>4. LeftoverInv' BY <1>4 DEF StartOther, Started, Spend
  <2>5. DatabaseInv' BY <1>4 DEF StartOther, Started, Spend
  <2>6. ToldInv' BY <1>4 DEF StartOther, Started, Spend
  <2>7. FileInv' BY <1>4 DEF StartOther, Started, Spend
  <2>8. PauseInv' BY <1>4 DEF StartOther, Started, Spend
  <2>9. MishapInv' BY <1>4 DEF StartOther, Started, Spend
  <2> QED BY <2>1, <2>2, <2>3, <2>4, <2>5, <2>6, <2>7, <2>8, <2>9
<1>5. CASE UpgradeCharm
  <2> DEFINE b == [budget EXCEPT !.ops = @ - 1]
  <2>0. b \in Budget /\ b.fails = budget.fails /\ b.flaky = budget.flaky
    BY <1>5 DEF UpgradeCharm, Budget
  <2>1. TypeOK'
    <3>1. CASE Restart(b)
      <4> HIDE DEF b
      <4> QED BY <1>5, <2>0, <3>1, CommandTypes DEF UpgradeCharm, Budget
    <3>2. CASE budget' = b /\ UNCHANGED services
      BY <1>5, <2>0, <3>2 DEF UpgradeCharm, Budget
    <3> QED BY <1>5, <3>1, <3>2 DEF UpgradeCharm
  <2>2. RunInv' BY <1>5 DEF UpgradeCharm, Restart, Obeys, Latest
  <2>3. PackageInv' BY <1>5 DEF UpgradeCharm, Restart, Obeys, Latest
  <2>4. LeftoverInv' BY <1>5 DEF UpgradeCharm, Restart, Obeys, Latest
  <2>5. DatabaseInv' BY <1>5 DEF UpgradeCharm, Restart, Obeys, Latest
  <2>6. ToldInv' BY <1>5 DEF UpgradeCharm, Restart, Obeys, Latest
  <2>7. FileInv' BY <1>5 DEF UpgradeCharm, Restart, Obeys, Latest
  <2>8. PauseInv' BY <1>5 DEF UpgradeCharm, Restart, Obeys, Latest
  <2>9. MishapInv'
    <3>1. budget'.fails = budget.fails /\ budget'.flaky = budget.flaky
      <4>1. Restart(b) \/ budget' = b BY <1>5 DEF UpgradeCharm
      <4> HIDE DEF b
      <4> QED BY <2>0, <4>1, CommandTypes
    <3> QED BY <1>5, <3>1 DEF UpgradeCharm, Restart, Obeys, Latest
  <2> QED BY <2>1, <2>2, <2>3, <2>4, <2>5, <2>6, <2>7, <2>8, <2>9
<1>6. CASE PauseOrResume
  <2> DEFINE b == [budget EXCEPT !.ops = @ - 1]
  <2>0. b \in Budget /\ b.fails = budget.fails /\ b.flaky = budget.flaky
    BY <1>6 DEF PauseOrResume, Budget
  <2>1. TypeOK'
    <3>1. Start(b) \/ Stop(b) BY <1>6 DEF PauseOrResume
    <3> HIDE DEF b
    <3> QED BY <1>6, <2>0, <3>1, CommandTypes DEF PauseOrResume, Budget
  <2>2. RunInv' BY <1>6 DEF PauseOrResume, Start, Stop, Obeys, Latest
  <2>3. PackageInv' BY <1>6 DEF PauseOrResume, Start, Stop, Obeys, Latest
  <2>4. LeftoverInv' BY <1>6 DEF PauseOrResume, Start, Stop, Obeys, Latest
  <2>5. DatabaseInv' BY <1>6 DEF PauseOrResume, Start, Stop, Obeys, Latest
  <2>6. ToldInv' BY <1>6 DEF PauseOrResume, Start, Stop, Obeys, Latest
  <2>7. FileInv' BY <1>6 DEF PauseOrResume, Start, Stop, Obeys, Latest
  <2>8. PauseInv' BY <1>6 DEF PauseOrResume, Start, Stop, Obeys, Latest
  <2>9. MishapInv'
    <3>1. budget'.fails = budget.fails /\ budget'.flaky = budget.flaky
      <4>1. Start(b) \/ Stop(b) BY <1>6 DEF PauseOrResume
      <4> HIDE DEF b
      <4> QED BY <2>0, <4>1, CommandTypes
    <3> QED BY <1>6, <3>1 DEF PauseOrResume, Start, Stop, Obeys, Latest
  <2> QED BY <2>1, <2>2, <2>3, <2>4, <2>5, <2>6, <2>7, <2>8, <2>9
<1>7. CASE Decide
  <2>1. TypeOK' BY <1>7 DEF Decide, Upgrades, Asks, UpgradeAvailable, NoRun
  <2>2. RunInv' BY <1>7 DEF Decide, Upgrades, Asks, UpgradeAvailable, NoRun
  <2>3. PackageInv' BY <1>7 DEF Decide, Upgrades, Asks, UpgradeAvailable, NoRun
  <2>4. LeftoverInv' BY <1>7 DEF Decide, Upgrades, Asks, UpgradeAvailable, NoRun
  <2>5. DatabaseInv' BY <1>7 DEF Decide, Upgrades, Asks, UpgradeAvailable, NoRun
  <2>6. ToldInv' BY <1>7 DEF Decide, Upgrades, Asks, UpgradeAvailable, NoRun
  <2>7. FileInv' BY <1>7 DEF Decide, Upgrades, Asks, UpgradeAvailable, NoRun
  <2>8. PauseInv' BY <1>7 DEF Decide, Upgrades, Asks, UpgradeAvailable, NoRun
  <2>9. MishapInv' BY <1>7 DEF Decide, Upgrades, Asks, UpgradeAvailable, NoRun
  <2> QED BY <2>1, <2>2, <2>3, <2>4, <2>5, <2>6, <2>7, <2>8, <2>9
<1>8. CASE DecideUnknown
  <2>1. TypeOK' BY <1>8 DEF DecideUnknown, Asks, NoRun
  <2>2. RunInv' BY <1>8 DEF DecideUnknown, Asks, NoRun
  <2>3. PackageInv' BY <1>8 DEF DecideUnknown, Asks, NoRun
  <2>4. LeftoverInv' BY <1>8 DEF DecideUnknown, Asks, NoRun
  <2>5. DatabaseInv' BY <1>8 DEF DecideUnknown, Asks, NoRun
  <2>6. ToldInv' BY <1>8 DEF DecideUnknown, Asks, NoRun
  <2>7. FileInv' BY <1>8 DEF DecideUnknown, Asks, NoRun
  <2>8. PauseInv' BY <1>8 DEF DecideUnknown, Asks, NoRun
  <2>9. MishapInv' BY <1>8 DEF DecideUnknown, Asks, NoRun
  <2> QED BY <2>1, <2>2, <2>3, <2>4, <2>5, <2>6, <2>7, <2>8, <2>9
<1>9. CASE ConfigureSource
  <2>1. TypeOK' BY <1>9 DEF ConfigureSource, Spend
  <2>2. RunInv' BY <1>9 DEF ConfigureSource, Spend
  <2>3. PackageInv' BY <1>9 DEF ConfigureSource, Spend
  <2>4. LeftoverInv' BY <1>9 DEF ConfigureSource, Spend
  <2>5. DatabaseInv' BY <1>9 DEF ConfigureSource, Spend
  <2>6. ToldInv' BY <1>9 DEF ConfigureSource, Spend
  <2>7. FileInv' BY <1>9 DEF ConfigureSource, Spend
  <2>8. PauseInv' BY <1>9 DEF ConfigureSource, Spend
  <2>9. MishapInv' BY <1>9 DEF ConfigureSource, Spend
  <2> QED BY <2>1, <2>2, <2>3, <2>4, <2>5, <2>6, <2>7, <2>8, <2>9
<1>10. CASE AptUpgrade
  <2>1. TypeOK' BY <1>10 DEF AptUpgrade, Unpacked, Raised
  <2>2. RunInv' BY <1>10 DEF AptUpgrade, Unpacked, Raised
  <2>3. PackageInv' BY <1>10 DEF AptUpgrade, Unpacked, Raised
  <2>4. LeftoverInv' BY <1>10 DEF AptUpgrade, Unpacked, Raised
  <2>5. DatabaseInv' BY <1>10 DEF AptUpgrade, Unpacked, Raised
  <2>6. ToldInv' BY <1>10 DEF AptUpgrade, Unpacked, Raised
  <2>7. FileInv' BY <1>10 DEF AptUpgrade, Unpacked, Raised
  <2>8. PauseInv' BY <1>10 DEF AptUpgrade, Unpacked, Raised
  <2>9. MishapInv' BY <1>10 DEF AptUpgrade, Unpacked, Raised
  <2> QED BY <2>1, <2>2, <2>3, <2>4, <2>5, <2>6, <2>7, <2>8, <2>9
<1>11. CASE Purge
  <2>1. TypeOK' BY <1>11 DEF Purge
  <2>2. RunInv' BY <1>11 DEF Purge
  <2>3. PackageInv' BY <1>11 DEF Purge
  <2>4. LeftoverInv' BY <1>11 DEF Purge
  <2>5. DatabaseInv' BY <1>11 DEF Purge
  <2>6. ToldInv' BY <1>11 DEF Purge
  <2>7. FileInv' BY <1>11 DEF Purge
  <2>8. PauseInv' BY <1>11 DEF Purge
  <2>9. MishapInv' BY <1>11 DEF Purge
  <2> QED BY <2>1, <2>2, <2>3, <2>4, <2>5, <2>6, <2>7, <2>8, <2>9
<1>12. CASE Render
  <2>1. TypeOK' BY <1>12 DEF Render
  <2>2. RunInv' BY <1>12 DEF Render
  <2>3. PackageInv' BY <1>12 DEF Render
  <2>4. LeftoverInv' BY <1>12 DEF Render
  <2>5. DatabaseInv' BY <1>12 DEF Render
  <2>6. ToldInv' BY <1>12 DEF Render
  <2>7. FileInv' BY <1>12 DEF Render
  <2>8. PauseInv' BY <1>12 DEF Render
  <2>9. MishapInv' BY <1>12 DEF Render
  <2> QED BY <2>1, <2>2, <2>3, <2>4, <2>5, <2>6, <2>7, <2>8, <2>9
<1>13. CASE StopServices
  <2>1. TypeOK'
    <3>1. run' \in Run
      BY <1>13 DEF StopServices
    <3>2. Stop(budget) /\ budget \in Budget
      BY <1>13 DEF StopServices, Budget
    <3>3. UNCHANGED <<options, place, paused, packages, file, schema, told,
                      writer, cut>>
      BY <1>13 DEF StopServices
    <3> HIDE DEF Run, Step
    <3> QED BY <3>1, <3>2, <3>3, CommandTypes DEF Budget
  <2>2. RunInv' BY <1>13 DEF StopServices, Stop, Obeys
  <2>3. PackageInv' BY <1>13 DEF StopServices, Stop, Obeys
  <2>4. LeftoverInv' BY <1>13 DEF StopServices, Stop, Obeys
  <2>5. DatabaseInv' BY <1>13 DEF StopServices, Stop, Obeys
  <2>6. ToldInv' BY <1>13 DEF StopServices, Stop, Obeys
  <2>7. FileInv' BY <1>13 DEF StopServices, Stop, Obeys
  <2>8. PauseInv' BY <1>13 DEF StopServices, Stop, Obeys
  <2>9. MishapInv' BY <1>13 DEF StopServices, Stop, Obeys
  <2> QED BY <2>1, <2>2, <2>3, <2>4, <2>5, <2>6, <2>7, <2>8, <2>9
<1>14. CASE MigrateDatabase
  <2>1. TypeOK' BY <1>14 DEF MigrateDatabase
  <2>2. RunInv' BY <1>14 DEF MigrateDatabase
  <2>3. PackageInv' BY <1>14 DEF MigrateDatabase
  <2>4. LeftoverInv' BY <1>14 DEF MigrateDatabase
  <2>5. DatabaseInv' BY <1>14 DEF MigrateDatabase
  <2>6. ToldInv' BY <1>14 DEF MigrateDatabase
  <2>7. FileInv' BY <1>14 DEF MigrateDatabase
  <2>8. PauseInv' BY <1>14 DEF MigrateDatabase
  <2>9. MishapInv' BY <1>14 DEF MigrateDatabase
  <2> QED BY <2>1, <2>2, <2>3, <2>4, <2>5, <2>6, <2>7, <2>8, <2>9
<1>15. CASE StartServices
  <2>1. TypeOK'
    <3>1. CASE Start(budget)
      BY <1>15, <3>1, CommandTypes DEF StartServices, Budget
    <3>2. CASE UNCHANGED <<services, budget>>
      BY <1>15, <3>2 DEF StartServices
    <3> QED BY <1>15, <3>1, <3>2 DEF StartServices
  <2>2. RunInv' BY <1>15 DEF StartServices, Start, Obeys, Latest
  <2>3. PackageInv' BY <1>15 DEF StartServices, Start, Obeys, Latest
  <2>4. LeftoverInv' BY <1>15 DEF StartServices, Start, Obeys, Latest
  <2>5. DatabaseInv' BY <1>15 DEF StartServices, Start, Obeys, Latest
  <2>6. ToldInv' BY <1>15 DEF StartServices, Start, Obeys, Latest
  <2>7. FileInv' BY <1>15 DEF StartServices, Start, Obeys, Latest
  <2>8. PauseInv' BY <1>15 DEF StartServices, Start, Obeys, Latest
  <2>9. MishapInv' BY <1>15 DEF StartServices, Start, Obeys, Latest
  <2> QED BY <2>1, <2>2, <2>3, <2>4, <2>5, <2>6, <2>7, <2>8, <2>9
<1>16. CASE TellBackends
  <2>1. TypeOK'
    <3>1. run' \in Run
      BY <1>16 DEF TellBackends
    <3>2. /\ up' \in BOOLEAN /\ ran' \in [code : Release, file : Release]
          /\ refused' \in BOOLEAN /\ budget' \in Budget
      <4>1. CASE Start(budget)
        BY <4>1, CommandTypes DEF Budget
      <4>2. CASE UNCHANGED <<services, budget>>
        BY <4>2 DEF Budget
      <4> QED BY <1>16, <4>1, <4>2 DEF TellBackends, Resumed
    <3>3. paused' \in BOOLEAN
      BY <1>16 DEF TellBackends, Resumed
    <3>4. UNCHANGED <<options, place, packages, file, schema, told, writer, cut>>
      BY <1>16 DEF TellBackends
    <3> HIDE DEF Run, Step
    <3> QED BY <3>1, <3>2, <3>3, <3>4 DEF Budget
  <2>2. RunInv' BY <1>16 DEF TellBackends, Resumed, Resumes, Start, Obeys, Latest
  <2>3. PackageInv' BY <1>16 DEF TellBackends, Resumed, Resumes, Start, Obeys, Latest
  <2>4. LeftoverInv' BY <1>16 DEF TellBackends, Resumed, Resumes, Start, Obeys, Latest
  <2>5. DatabaseInv' BY <1>16 DEF TellBackends, Resumed, Resumes, Start, Obeys, Latest
  <2>6. ToldInv' BY <1>16 DEF TellBackends, Resumed, Resumes, Start, Obeys, Latest
  <2>7. FileInv' BY <1>16 DEF TellBackends, Resumed, Resumes, Start, Obeys, Latest
  <2>8. PauseInv' BY <1>16 DEF TellBackends, Resumed, Resumes, Start, Obeys, Latest
  <2>9. MishapInv' BY <1>16 DEF TellBackends, Resumed, Resumes, Start, Obeys, Latest
  <2> QED BY <2>1, <2>2, <2>3, <2>4, <2>5, <2>6, <2>7, <2>8, <2>9
<1>17. CASE Write
  <2>1. TypeOK' BY <1>17 DEF Write
  <2>2. RunInv' BY <1>17 DEF Write
  <2>3. PackageInv' BY <1>17 DEF Write
  <2>4. LeftoverInv' BY <1>17 DEF Write
  <2>5. DatabaseInv' BY <1>17 DEF Write
  <2>6. ToldInv' BY <1>17 DEF Write
  <2>7. FileInv' BY <1>17 DEF Write
  <2>8. PauseInv' BY <1>17 DEF Write
  <2>9. MishapInv' BY <1>17 DEF Write
  <2> QED BY <2>1, <2>2, <2>3, <2>4, <2>5, <2>6, <2>7, <2>8, <2>9
<1>18. CASE Finish
  <2>0. /\ up' \in BOOLEAN /\ ran' \in [code : Release, file : Release]
        /\ refused' \in BOOLEAN /\ budget' \in Budget
        /\ budget'.fails = budget.fails /\ budget'.flaky = budget.flaky
    <3>1. CASE Restart(budget)
      BY <3>1, CommandTypes DEF Budget
    <3>2. CASE UNCHANGED <<services, budget>>
      BY <3>2 DEF Budget
    <3> QED BY <1>18, <3>1, <3>2 DEF Finish
  <2>1. TypeOK'
    <3>1. run' \in Run /\ run.told \in [Backend -> Release]
      BY <1>18 DEF Finish, NoRun
    <3>2. cut' \in BOOLEAN
      BY <1>18, SMT DEF Finish
    <3> QED BY <1>18, <2>0, <3>1, <3>2 DEF Finish, Budget
  <2>2. RunInv' BY <1>18 DEF Finish, NoRun, Restart, Obeys, Latest
  <2>3. PackageInv' BY <1>18 DEF Finish, NoRun, Restart, Obeys, Latest
  <2>4. LeftoverInv' BY <1>18 DEF Finish, NoRun, Restart, Obeys, Latest
  <2>5. DatabaseInv'
    <3>1. CASE run.before \in {0, file}
      BY <1>18, <3>1 DEF Finish, NoRun
    <3>2. CASE run.before \notin {0, file}
      <4>1. PICK obeyed \in BOOLEAN :
                /\ refused' = ~obeyed
                /\ (up' = obeyed \/ (~obeyed /\ up' = up))
                /\ ran' = IF obeyed THEN Latest ELSE ran
        BY <1>18, <3>2, Zenon DEF Finish, Restart, Obeys
      <4> QED BY <1>18, <2>0, <3>2, <4>1 DEF Finish, NoRun, Latest
    <3> QED BY <3>1, <3>2
  <2>6. ToldInv' BY <1>18 DEF Finish, NoRun, Restart, Obeys, Latest
  <2>7. FileInv' BY <1>18 DEF Finish, NoRun, Restart, Obeys, Latest
  <2>8. PauseInv' BY <1>18 DEF Finish, NoRun, Restart, Obeys, Latest
  <2>9. MishapInv'
    <3>1. CASE run.before \in {0, file}
      BY <1>18, <3>1 DEF Finish, NoRun
    <3>2. CASE run.before \notin {0, file}
      <4>1. PICK obeyed \in BOOLEAN :
                /\ refused' = ~obeyed
                /\ (up' = obeyed \/ (~obeyed /\ up' = up))
                /\ ran' = IF obeyed THEN Latest ELSE ran
        BY <1>18, <3>2, Zenon DEF Finish, Restart, Obeys
      <4> QED BY <1>18, <2>0, <3>2, <4>1 DEF Finish, NoRun, Latest
    <3> QED BY <3>1, <3>2
  <2> QED BY <2>1, <2>2, <2>3, <2>4, <2>5, <2>6, <2>7, <2>8, <2>9
<1>19. CASE AptRetry
  <2>1. TypeOK' BY <1>19 DEF AptRetry, Unpacked, Raised
  <2>2. RunInv' BY <1>19 DEF AptRetry, Unpacked, Raised
  <2>3. PackageInv' BY <1>19 DEF AptRetry, Unpacked, Raised
  <2>4. LeftoverInv' BY <1>19 DEF AptRetry, Unpacked, Raised
  <2>5. DatabaseInv' BY <1>19 DEF AptRetry, Unpacked, Raised
  <2>6. ToldInv' BY <1>19 DEF AptRetry, Unpacked, Raised
  <2>7. FileInv' BY <1>19 DEF AptRetry, Unpacked, Raised
  <2>8. PauseInv' BY <1>19 DEF AptRetry, Unpacked, Raised
  <2>9. MishapInv' BY <1>19 DEF AptRetry, Unpacked, Raised
  <2> QED BY <2>1, <2>2, <2>3, <2>4, <2>5, <2>6, <2>7, <2>8, <2>9
<1>20. CASE Fail
  <2>1. TypeOK' BY <1>20 DEF Fail, Spend, Unpacked, Raised, NoRun
  <2>2. RunInv' BY <1>20 DEF Fail, Spend, Unpacked, Raised, NoRun
  <2>3. PackageInv' BY <1>20 DEF Fail, Spend, Unpacked, Raised, NoRun
  <2>4. LeftoverInv' BY <1>20 DEF Fail, Spend, Unpacked, Raised, NoRun
  <2>5. DatabaseInv' BY <1>20 DEF Fail, Spend, Unpacked, Raised, NoRun
  <2>6. ToldInv' BY <1>20 DEF Fail, Spend, Unpacked, Raised, NoRun
  <2>7. FileInv' BY <1>20 DEF Fail, Spend, Unpacked, Raised, NoRun
  <2>8. PauseInv' BY <1>20 DEF Fail, Spend, Unpacked, Raised, NoRun
  <2>9. MishapInv' BY <1>20 DEF Fail, Spend, Unpacked, Raised, NoRun
  <2> QED BY <2>1, <2>2, <2>3, <2>4, <2>5, <2>6, <2>7, <2>8, <2>9
<1>21. CASE ResumeFails
  <2>1. TypeOK'
    <3>1. run' \in Run
      BY <1>21 DEF ResumeFails, NoRun
    <3>2. Start(budget) /\ budget \in Budget
      BY <1>21 DEF ResumeFails, Budget
    <3>3. UNCHANGED <<options, place, packages, file, schema, told, writer>>
          /\ cut' = TRUE /\ paused' = FALSE
      BY <1>21 DEF ResumeFails
    <3> HIDE DEF Run, Step
    <3> QED BY <3>1, <3>2, <3>3, CommandTypes DEF Budget
  <2>2. RunInv' BY <1>21 DEF ResumeFails, Resumes, Start, Obeys, Latest, NoRun
  <2>3. PackageInv' BY <1>21 DEF ResumeFails, Resumes, Start, Obeys, Latest, NoRun
  <2>4. LeftoverInv' BY <1>21 DEF ResumeFails, Resumes, Start, Obeys, Latest, NoRun
  <2>5. DatabaseInv' BY <1>21 DEF ResumeFails, Resumes, Start, Obeys, Latest, NoRun
  <2>6. ToldInv' BY <1>21 DEF ResumeFails, Resumes, Start, Obeys, Latest, NoRun
  <2>7. FileInv' BY <1>21 DEF ResumeFails, Resumes, Start, Obeys, Latest, NoRun
  <2>8. PauseInv' BY <1>21 DEF ResumeFails, Resumes, Start, Obeys, Latest, NoRun
  <2>9. MishapInv'
    <3>1. budget'.fails = budget.fails /\ budget'.flaky = budget.flaky
      BY <1>21, CommandTypes DEF ResumeFails, Budget
    <3> QED BY <1>21, <3>1 DEF ResumeFails, Resumes, Start, Obeys, Latest, NoRun
  <2> QED BY <2>1, <2>2, <2>3, <2>4, <2>5, <2>6, <2>7, <2>8, <2>9
<1>22. CASE UNCHANGED vars BY <1>22 DEF vars
<1> QED
  BY <1>1, <1>2, <1>3, <1>4, <1>5, <1>6, <1>7, <1>8, <1>9, <1>10, <1>11, <1>12,
     <1>13, <1>14, <1>15, <1>16, <1>17, <1>18, <1>19, <1>20, <1>21, <1>22 DEF Next,
     Proceed, Upgrade

LEMMA Invariance == Spec => []UpgradeInv
BY InitInv, NextInv, PTL DEF Spec

-----------------------------------------------------------------------------
(* The theorems. *)

\* The variables keep their types: no upgrade is to a release that has no name,
\* and what a process remembers of releases are releases.
THEOREM TypeCorrect == Spec => []TypeOK
<1>1. UpgradeInv => TypeOK BY DEF UpgradeInv
<1> QED BY <1>1, Invariance, PTL

\* For any releases, and however often hooks fail and apt is tried again: a leader
\* that serves after an upgrade has migrated the database to its code, unless the
\* upgrade was interrupted.
THEOREM LeadersMigrateFirst == Spec => []MigratedBeforeServing
<1>1. UpgradeInv => MigratedBeforeServing
  BY DEF UpgradeInv, TypeOK, Release, DatabaseInv, Sound, Settled, Idle,
         MigratedBeforeServing
<1> QED BY <1>1, Invariance, PTL

\* For any releases: an upgrade that was not cut short, or that was done over,
\* leaves nothing to do in files, services, packages and announcements, but for
\* the old files that config-changed writes.
THEOREM UpgradesAreWhole == Spec => []UpgradeIsWhole
<1>1. UpgradeInv => UpgradeIsWhole
  <2> SUFFICES ASSUME UpgradeInv PROVE UpgradeIsWhole OBVIOUS
  <2> USE DEF UpgradeInv, Idle, At, Settled, Untouched, Sound
  <2>1. Idle => ~run.upgraded
    BY DEF RunInv
  <2>2. FilesFitPackages
    BY <2>1 DEF FilesFitPackages, FileInv, DatabaseInv, MishapInv, ReadInv,
                PackageInv, OldFilesWritten
  <2>3. NothingLeftOver
    BY <2>1 DEF NothingLeftOver, LeftoverInv
  <2>4. BackendsAreTold
    BY <2>1 DEF BackendsAreTold, ToldInv
  <2> QED BY <2>2, <2>3, <2>4 DEF UpgradeIsWhole
<1> QED BY <1>1, Invariance, PTL
=============================================================================
