---------------------------- MODULE DbInit_proofs ----------------------------
(***************************************************************************)
(* Proofs about DbInit, for any set of units and any bounds.               *)
(*                                                                         *)
(* Only MaySync, the guards of StartUpgrade and Depart, and                *)
(* InitialisedOnce count the members of a set; only the proof of           *)
(* InitialisedOnlyOnce depends on what is counted.                         *)
(***************************************************************************)
EXTENDS DbInit, FiniteSetTheorems, TLAPS

USE DbInitAssumption DEF DbInitAssumption

\* What a unit has set in the hook it is running obeys what the committed
\* settings obey.
LEMMA IdleIsHook == \A u \in Unit : Idle(u) \in Hook
BY DEF Idle, Hook, At, Kind, Settings, NoSettings, NoId

\* A restart keeps the types of what it changes.
LEMMA RestartType ==
    ASSUME TypeOK, NEW u \in Unit, NEW n \in Nat, RestartUnlessPaused(u, n)
    PROVE  up' \in [Unit -> BOOLEAN] /\ svc' \in [Unit -> Nat]
BY DEF TypeOK, RestartUnlessPaused

\* The variables keep their types: in particular `tries` never falls below 0,
\* and every id in the relation is one that a unit of the application made.
THEOREM TypeCorrect == Spec => []TypeOK
<1>1. Init => TypeOK
  <2> SUFFICES ASSUME Init PROVE TypeOK
    OBVIOUS
  <2>1. bag \in [Unit -> Settings]
    BY DEF Init, Settings, NoSettings, NoId
  <2>2. hook \in [Unit -> Hook]
    BY IdleIsHook DEF Init
  <2>3. pend \in [Unit -> [Unit -> Due]]
    BY DEF Init, Due
  <2>4. budget \in [terms : Nat, fails : Nat, pauses : Nat]
    BY DEF Init
  <2>5. /\ up \in [Unit -> BOOLEAN]
        /\ paused \in [Unit -> BOOLEAN]
        /\ pkg \in [Unit -> BOOLEAN]
    BY DEF Init
  <2>6. svc \in [Unit -> Nat]
    BY DEF Init
  <2>7. leader \in Unit /\ schema \in Nat /\ migrated \in BOOLEAN
        /\ left \subseteq Unit
    BY DEF Init
  <2> QED BY <2>1, <2>2, <2>3, <2>4, <2>5, <2>6, <2>7 DEF TypeOK
<1>2. TypeOK /\ [Next]_vars => TypeOK'
  <2> SUFFICES ASSUME TypeOK, [Next]_vars PROVE TypeOK'
    OBVIOUS
  <2>1. CASE UNCHANGED vars
    BY <2>1 DEF TypeOK, vars
  <2>2. ASSUME NEW u \in Unit, DbChanged(u) PROVE TypeOK'
    <3>1. [at |-> "sync", kind |-> "db", from |-> u, tries |-> Retries,
           set |-> bag[u]] \in Hook
      BY <2>2 DEF TypeOK, Hook, At, Kind
    <3> QED BY <2>2, <3>1 DEF TypeOK, DbChanged
  <2>3. ASSUME NEW u \in Unit, StartUpgrade(u) PROVE TypeOK'
    <3>1. [at |-> IF Syncs(u, TRUE) THEN "sync" ELSE "done",
           kind |-> "upgrade", from |-> u, tries |-> Retries,
           set |-> bag[u]] \in Hook
      BY <2>3 DEF TypeOK, Hook, At, Kind
    <3>2. up' \in [Unit -> BOOLEAN]
      BY <2>3 DEF TypeOK, StartUpgrade, Syncs
    <3>3. svc' \in [Unit -> Nat]
      BY <2>3 DEF TypeOK, StartUpgrade
    <3> QED BY <2>3, <3>1, <3>2, <3>3 DEF TypeOK, StartUpgrade
  <2>4. ASSUME NEW u \in Unit, SyncOk(u) PROVE TypeOK'
    <3>1. hook' \in [Unit -> Hook] /\ schema + 1 \in Nat
      <4>1. hook[u] \in Hook /\ schema + 1 \in Nat
        BY DEF TypeOK
      <4>2. [hook[u] EXCEPT !.at = "announce"] \in Hook
        BY <4>1 DEF Hook, At
      <4> QED BY <2>4, <4>1, <4>2 DEF TypeOK, SyncOk
    <3> QED BY <2>4, <3>1 DEF TypeOK, SyncOk
  <2>15. ASSUME NEW u \in Unit, Announce(u) PROVE TypeOK'
    <3>1. hook[u] \in Hook /\ schema \in Nat
      BY DEF TypeOK
    <3>2. [by |-> u, n |-> schema] \in Id
      BY <3>1 DEF Id
    <3>3. [[hook[u] EXCEPT !.at = "done"]
              EXCEPT !.set.init = [by |-> u, n |-> schema]] \in Hook
      BY <3>1, <3>2 DEF Hook, At, Settings
    <3>4. hook' \in [Unit -> Hook]
      BY <2>15, <3>3 DEF TypeOK, Announce
    <3>5. up' \in [Unit -> BOOLEAN] /\ svc' \in [Unit -> Nat]
      BY <2>15, <3>1, RestartType DEF Announce
    <3> QED BY <2>15, <3>1, <3>4, <3>5 DEF TypeOK, Announce
  <2>5. ASSUME NEW u \in Unit, SyncNeedsOnlineMigrations(u) PROVE TypeOK'
    <3>1. hook' \in [Unit -> Hook]
      <4>1. hook[u] \in Hook
        BY DEF TypeOK
      <4>2. [hook[u] EXCEPT !.at = "online"] \in Hook
        BY <4>1 DEF Hook, At
      <4> QED BY <2>5, <4>2 DEF TypeOK, SyncNeedsOnlineMigrations
    <3> QED BY <2>5, <3>1 DEF TypeOK, SyncNeedsOnlineMigrations
  <2>6. ASSUME NEW u \in Unit, OnlineMigrationsDone(u) PROVE TypeOK'
    <3>1. hook' \in [Unit -> Hook]
      <4>1. hook[u] \in Hook
        BY DEF TypeOK
      <4>2. [hook[u] EXCEPT !.at = "resync"] \in Hook
        BY <4>1 DEF Hook, At
      <4> QED BY <2>6, <4>2 DEF TypeOK, OnlineMigrationsDone
    <3> QED BY <2>6, <3>1 DEF TypeOK, OnlineMigrationsDone
  <2>7. ASSUME NEW u \in Unit, Retry(u) PROVE TypeOK'
    <3>1. hook' \in [Unit -> Hook]
      <4>1. hook[u] \in Hook
        BY DEF TypeOK
      <4>2. hook[u].tries - 1 \in Nat
        BY <2>7, <4>1 DEF Retry, Hook
      <4>3. [[hook[u] EXCEPT !.at = "sync"]
                EXCEPT !.tries = hook[u].tries - 1] \in Hook
        BY <4>1, <4>2 DEF Hook, At
      <4>4. hook' = [hook EXCEPT ![u] =
                        [[hook[u] EXCEPT !.at = "sync"]
                            EXCEPT !.tries = hook[u].tries - 1]]
        BY <2>7, <4>1 DEF TypeOK, Retry, Hook
      <4> QED BY <4>3, <4>4 DEF TypeOK
    <3> QED BY <2>7, <3>1 DEF TypeOK, Retry
  <2>8. ASSUME NEW u \in Unit, NEW v \in Unit, ClusterHook(u, v) PROVE TypeOK'
    <3>1. pend' \in [Unit -> [Unit -> Due]]
      BY <2>8 DEF TypeOK, ClusterHook, Taken, Due
    <3>2. Echoed(u, bag[v].init) \in Settings
      BY DEF TypeOK, Echoed, Settings
    <3>3. [at |-> "done", kind |-> pend[u][v], from |-> v, tries |-> 0,
           set |-> IF Notified(u, v) THEN Echoed(u, bag[v].init)
                                     ELSE bag[u]] \in Hook
      BY <2>8, <3>2 DEF TypeOK, ClusterHook, Hook, At, Kind
    <3>4. up' \in [Unit -> BOOLEAN] /\ svc' \in [Unit -> Nat]
      <4>1. CASE Notified(u, v)
        <5>1. RestartUnlessPaused(u, schema)
          BY <2>8, <4>1 DEF ClusterHook
        <5> QED BY <5>1, RestartType DEF TypeOK
      <4>2. CASE ~Notified(u, v)
        BY <2>8, <4>2 DEF TypeOK, ClusterHook
      <4> QED BY <4>1, <4>2
    <3> QED BY <2>8, <3>1, <3>3, <3>4 DEF TypeOK, ClusterHook
  <2>9. ASSUME NEW u \in Unit, HookEnds(u) PROVE TypeOK'
    <3>1. hook[u].set \in Settings
      BY DEF TypeOK, Hook
    <3>2. pend' \in [Unit -> [Unit -> Due]]
      BY <2>9 DEF TypeOK, HookEnds, Due
    <3>3. hook' \in [Unit -> Hook]
      BY <2>9, IdleIsHook DEF TypeOK, HookEnds
    <3>4. paused' \in [Unit -> BOOLEAN] /\ up' \in [Unit -> BOOLEAN]
      BY <2>9 DEF TypeOK, HookEnds
    <3> QED BY <2>9, <3>1, <3>2, <3>3, <3>4 DEF TypeOK, HookEnds
  <2>10. ASSUME NEW u \in Unit, HookFails(u) PROVE TypeOK'
    <3>1. hook[u].from \in Unit /\ hook[u].kind \in Kind
      BY DEF TypeOK, Hook
    <3>2. pend' \in [Unit -> [Unit -> Due]]
      BY <2>10, <3>1 DEF TypeOK, HookFails, Due
    <3>3. hook' \in [Unit -> Hook]
      BY <2>10, IdleIsHook DEF TypeOK, HookFails
    <3> QED BY <2>10, <3>2, <3>3 DEF TypeOK, HookFails
  <2>11. ASSUME NEW u \in Unit, Pause(u) PROVE TypeOK'
    BY <2>11 DEF TypeOK, Pause
  <2>12. ASSUME NEW u \in Unit, Resume(u) PROVE TypeOK'
    BY <2>12 DEF TypeOK, Resume
  <2>13. ASSUME NEW u \in Unit, ElectLeader(u) PROVE TypeOK'
    BY <2>13 DEF TypeOK, ElectLeader
  <2>14. ASSUME NEW u \in Unit, Depart(u) PROVE TypeOK'
    BY <2>14 DEF TypeOK, Depart, Due
  <2> QED BY <2>1, <2>2, <2>3, <2>4, <2>5, <2>6, <2>7, <2>8, <2>9, <2>10,
             <2>11, <2>12, <2>13, <2>14, <2>15 DEF Next, Migrate
<1> QED BY <1>1, <1>2, PTL DEF Spec

-----------------------------------------------------------------------------
(* What a unit announces. *)

\* The ids in s are those of syncs that have run, and the running services of u
\* were started after them.
Covered(u, s) ==
    /\ s.init.n <= schema
    /\ s.echo.n <= schema
    /\ up[u] => svc[u] >= s.init.n /\ svc[u] >= s.echo.n

\* The inductive invariant: also what a hook has set and not yet published is
\* covered, and a paused unit is down, so that skipping its restart is sound.
AnnounceInv == \A u \in Unit : /\ paused[u] => ~up[u]
                               /\ Covered(u, bag[u])
                               /\ Covered(u, hook[u].set)

\* Every id counts syncs.
LEMMA IdsCount == \A s \in Settings : s.init.n \in Nat /\ s.echo.n \in Nat
<1>1. \A i \in Id \cup {NoId} : i.n \in Nat
  BY DEF Id, NoId
<1> QED BY <1>1 DEF Settings

LEMMA AnnounceInit == Init => AnnounceInv
BY DEF Init, AnnounceInv, Covered, Idle, NoSettings, NoId

\* A restart covers every id that was covered, and the ids of all syncs.
LEMMA RestartCovers ==
    ASSUME TypeOK, AnnounceInv, NEW u \in Unit, NEW n \in Nat, n >= schema,
           RestartUnlessPaused(u, n)
    PROVE  /\ paused[u] => ~up'[u]
           /\ up'[u] => svc'[u] = n
           /\ \A w \in Unit \ {u} : up'[w] = up[w] /\ svc'[w] = svc[w]
BY DEF TypeOK, AnnounceInv, RestartUnlessPaused

\* A sync by itself sets nothing.
LEMMA SyncSetsNothing ==
    ASSUME TypeOK, NEW u \in Unit, SyncOk(u)
    PROVE  /\ \A w \in Unit : /\ hook'[w].set = hook[w].set
                              /\ hook'[w].at # "idle" => hook[w].at # "idle"
           /\ schema' = schema + 1
           /\ UNCHANGED <<bag, pend, paused, up, svc>>
BY DEF SyncOk, TypeOK, Hook

LEMMA AnnounceStep ==
    ASSUME TypeOK, AnnounceInv, [Next]_vars
    PROVE  AnnounceInv'
<1>1. CASE UNCHANGED vars
  BY <1>1 DEF AnnounceInv, Covered, vars
<1>2. ASSUME NEW u \in Unit, DbChanged(u) PROVE AnnounceInv'
  BY <1>2 DEF DbChanged, TypeOK, AnnounceInv, Covered
<1>3. ASSUME NEW u \in Unit, StartUpgrade(u) PROVE AnnounceInv'
  <2>1. /\ up' \in [Unit -> BOOLEAN] /\ (up'[u] => svc'[u] = schema)
        /\ paused[u] => ~up'[u]
        /\ \A w \in Unit \ {u} : up'[w] = up[w] /\ svc'[w] = svc[w]
    BY <1>3 DEF StartUpgrade, TypeOK
  <2>2. \A w \in Unit : hook'[w].set = IF w = u THEN bag[w] ELSE hook[w].set
    BY <1>3 DEF StartUpgrade, TypeOK
  <2> QED BY <1>3, <2>1, <2>2 DEF StartUpgrade, TypeOK, AnnounceInv, Covered
<1>4. ASSUME NEW u \in Unit, SyncOk(u) PROVE AnnounceInv'
  <2>1. \A w \in Unit : /\ bag[w].init.n \in Nat /\ bag[w].echo.n \in Nat
                       /\ hook[w].set.echo.n \in Nat
                       /\ hook[w].set.init.n \in Nat
    BY IdsCount DEF TypeOK, Hook
  <2>2. schema \in Nat
    BY DEF TypeOK
  <2> QED BY <1>4, <2>1, <2>2, SyncSetsNothing DEF AnnounceInv, Covered
<1>12. ASSUME NEW u \in Unit, Announce(u) PROVE AnnounceInv'
  <2>1. schema \in Nat /\ schema >= schema
    BY DEF TypeOK
  <2>2. /\ paused[u] => ~up'[u]
        /\ up'[u] => svc'[u] = schema
        /\ \A w \in Unit \ {u} : up'[w] = up[w] /\ svc'[w] = svc[w]
    BY <1>12, <2>1, RestartCovers DEF Announce
  <2>3. /\ hook'[u].set.init.n = schema
        /\ hook'[u].set.echo = hook[u].set.echo
        /\ \A w \in Unit \ {u} : hook'[w] = hook[w]
    BY <1>12 DEF Announce, TypeOK, Hook, Settings
  <2>4. \A w \in Unit : /\ bag[w].init.n \in Nat /\ bag[w].echo.n \in Nat
                       /\ hook[w].set.echo.n \in Nat
                       /\ hook[w].set.init.n \in Nat
    BY IdsCount DEF TypeOK, Hook
  <2>5. schema' = schema /\ bag' = bag /\ paused' = paused
    BY <1>12 DEF Announce
  <2>6. ASSUME NEW w \in Unit
        PROVE  /\ paused'[w] => ~up'[w]
               /\ Covered(w, bag[w])'
               /\ Covered(w, hook[w].set)'
    <3>1. CASE w = u
      BY <3>1, <2>1, <2>2, <2>3, <2>4, <2>5 DEF AnnounceInv, Covered
    <3>2. CASE w # u
      BY <3>2, <2>1, <2>2, <2>3, <2>4, <2>5 DEF AnnounceInv, Covered
    <3> QED BY <3>1, <3>2
  <2> QED BY <2>6 DEF AnnounceInv
<1>5. ASSUME NEW u \in Unit,
             \/ SyncNeedsOnlineMigrations(u)
             \/ OnlineMigrationsDone(u)
             \/ Retry(u)
      PROVE  AnnounceInv'
  <2>1. \A w \in Unit : hook'[w].set = hook[w].set
    <3>1. CASE SyncNeedsOnlineMigrations(u)
      BY <3>1 DEF SyncNeedsOnlineMigrations, TypeOK, Hook
    <3>2. CASE OnlineMigrationsDone(u)
      BY <3>2 DEF OnlineMigrationsDone, TypeOK, Hook
    <3>3. CASE Retry(u)
      BY <3>3 DEF Retry, TypeOK, Hook
    <3> QED BY <1>5, <3>1, <3>2, <3>3
  <2> QED BY <1>5, <2>1 DEF SyncNeedsOnlineMigrations, OnlineMigrationsDone,
                            Retry, AnnounceInv, Covered
<1>6. ASSUME NEW u \in Unit, NEW v \in Unit, ClusterHook(u, v)
      PROVE  AnnounceInv'
  <2>1. \A w \in Unit \ {u} : hook'[w] = hook[w]
    BY <1>6 DEF ClusterHook, TypeOK
  <2>2. CASE Notified(u, v)
    <3>1. hook'[u].set = Echoed(u, bag[v].init)
      BY <1>6, <2>2 DEF ClusterHook, TypeOK
    <3>2. /\ hook'[u].set.init.n <= schema
          /\ hook'[u].set.echo.n <= schema
      BY <3>1 DEF Echoed, NoId, AnnounceInv, Covered, TypeOK
    <3>3. RestartUnlessPaused(u, schema)
      BY <1>6, <2>2 DEF ClusterHook
    <3>4. /\ paused[u] => ~up'[u]
          /\ up'[u] => svc'[u] = schema
          /\ \A w \in Unit \ {u} : up'[w] = up[w] /\ svc'[w] = svc[w]
      BY <3>3, RestartCovers DEF TypeOK
    <3> QED BY <1>6, <2>1, <3>2, <3>4
            DEF ClusterHook, TypeOK, AnnounceInv, Covered
  <2>3. CASE ~Notified(u, v)
    <3>1. hook'[u].set = bag[u] /\ UNCHANGED <<up, svc>>
      BY <1>6, <2>3 DEF ClusterHook, TypeOK
    <3> QED BY <1>6, <2>1, <3>1 DEF ClusterHook, AnnounceInv, Covered
  <2> QED BY <2>2, <2>3
<1>7. ASSUME NEW u \in Unit, HookEnds(u) PROVE AnnounceInv'
  <2> DEFINE resumes == hook[u].kind = "upgrade" /\ paused[u]
  <2>0. /\ bag' = [bag EXCEPT ![u] = hook[u].set]
        /\ hook' = [hook EXCEPT ![u] = Idle(u)]
        /\ paused' = [paused EXCEPT ![u] = paused[u] /\ ~resumes]
        /\ up' = [up EXCEPT ![u] = up[u] \/ resumes]
        /\ svc' = [svc EXCEPT ![u] = IF resumes THEN schema ELSE svc[u]]
    BY <1>7 DEF HookEnds
  <2>1. /\ bag'[u] = hook[u].set
        /\ \A w \in Unit \ {u} : bag'[w] = bag[w] /\ hook'[w] = hook[w]
    BY <2>0 DEF TypeOK
  <2>2. hook'[u].set.init.n = 0 /\ hook'[u].set.echo.n = 0
    BY <2>0 DEF TypeOK, Idle, NoSettings, NoId
  <2>3. /\ paused'[u] => paused[u] /\ up'[u] = up[u] /\ svc'[u] = svc[u]
        /\ up'[u] => svc'[u] = schema \/ (up[u] /\ svc'[u] = svc[u])
        /\ \A w \in Unit \ {u} : /\ paused'[w] = paused[w]
                                /\ up'[w] = up[w]
                                /\ svc'[w] = svc[w]
    <3>1. CASE resumes
      BY <2>0, <3>1 DEF TypeOK
    <3>2. CASE ~resumes
      <4>1. paused' = paused /\ up' = up /\ svc' = svc
        BY <2>0, <3>2 DEF TypeOK
      <4> QED BY <4>1
    <3> QED BY <3>1, <3>2
  <2>4. schema' = schema /\ schema \in Nat /\ svc[u] \in Nat
    BY <1>7 DEF HookEnds, TypeOK
  <2> QED BY <2>1, <2>2, <2>3, <2>4 DEF AnnounceInv, Covered
<1>8. ASSUME NEW u \in Unit, HookFails(u) PROVE AnnounceInv'
  <2>1. /\ hook'[u].set.init.n = 0 /\ hook'[u].set.echo.n = 0
        /\ \A w \in Unit \ {u} : hook'[w] = hook[w]
    BY <1>8 DEF HookFails, TypeOK, Idle, NoSettings, NoId
  <2> QED BY <1>8, <2>1 DEF HookFails, TypeOK, AnnounceInv, Covered
<1>9. ASSUME NEW u \in Unit, Pause(u) PROVE AnnounceInv'
  BY <1>9 DEF Pause, TypeOK, AnnounceInv, Covered
<1>10. ASSUME NEW u \in Unit, Resume(u) PROVE AnnounceInv'
  BY <1>10 DEF Resume, TypeOK, AnnounceInv, Covered
<1>11. ASSUME NEW u \in Unit, ElectLeader(u) \/ Depart(u) PROVE AnnounceInv'
  BY <1>11 DEF ElectLeader, Depart, AnnounceInv, Covered
<1> QED BY <1>1, <1>2, <1>3, <1>4, <1>5, <1>6, <1>7, <1>8, <1>9, <1>10, <1>11, <1>12
        DEF Next, Migrate

\* Whoever leads, whatever fails and whenever a unit is paused, a unit that
\* runs has picked up every sync that it has announced or echoed.
THEOREM AnnouncementsAreCovered ==
    Spec => [](AnnouncedMeansRestarted /\ PausedMeansDown)
<1>1. AnnounceInv => AnnouncedMeansRestarted /\ PausedMeansDown
  BY DEF AnnounceInv, Covered, AnnouncedMeansRestarted, PausedMeansDown
<1> QED BY <1>1, TypeCorrect, AnnounceInit, AnnounceStep, PTL DEF Spec
-----------------------------------------------------------------------------
(* KnowledgeIsKept.  The published settings change only when a hook ends, to *)
(* what the hook has set: a unit that knows runs no hook that would forget.  *)

KnowInv == \A u \in Unit : /\ hook[u].at # "idle"
                           /\ bag[u] # NoSettings
                           => hook[u].set # NoSettings

\* An announcement sets an id of the unit, and an echo is an id of some unit: neither
\* leaves the settings empty.
LEMMA SetsSomething ==
    ASSUME TypeOK, NEW u \in Unit
    PROVE  /\ Announce(u) => hook'[u].set # NoSettings
           /\ \A v \in Unit : Notified(u, v) =>
                  Echoed(u, bag[v].init) # NoSettings
<1>1. ASSUME Announce(u) PROVE hook'[u].set # NoSettings
  <2>1. hook'[u].set.init = [by |-> u, n |-> schema]
    BY <1>1 DEF Announce, TypeOK, Hook, Settings
  <2>2. [by |-> u, n |-> schema] # NoId
    <3>1. [by |-> u, n |-> schema].by # NoId.by
      BY DEF NoId
    <3> QED BY <3>1
  <2> QED BY <2>1, <2>2 DEF NoSettings
<1>2. ASSUME NEW v \in Unit, Notified(u, v)
      PROVE  Echoed(u, bag[v].init) # NoSettings
  <2>1. bag[v].init # NoId
    BY <1>2 DEF Notified, IsNewNotification
  <2>2. Echoed(u, bag[v].init).echo # NoSettings.echo
    BY <2>1 DEF Echoed, NoSettings
  <2> QED BY <2>2
<1> QED BY <1>1, <1>2

\* A step either leaves the settings of w and of its hook alone, or starts a
\* hook of w, ends it or lets it set something.
LEMMA KnowStep ==
    ASSUME TypeOK, KnowInv, [Next]_vars
    PROVE  /\ KnowInv'
           /\ \A w \in Unit : bag[w] # NoSettings => bag'[w] # NoSettings
<1>1. CASE UNCHANGED vars
  BY <1>1 DEF KnowInv, vars
<1>2. ASSUME NEW u \in Unit, DbChanged(u) \/ StartUpgrade(u)
      PROVE  KnowInv' /\ bag' = bag
  <2>1. \A w \in Unit : hook'[w] = hook[w] \/ hook'[w].set = bag[w]
    <3>1. CASE DbChanged(u)
      BY <3>1 DEF DbChanged, TypeOK
    <3>2. CASE StartUpgrade(u)
      BY <3>2 DEF StartUpgrade, TypeOK
    <3> QED BY <1>2, <3>1, <3>2
  <2>2. bag' = bag
    BY <1>2 DEF DbChanged, StartUpgrade
  <2> QED BY <2>1, <2>2 DEF KnowInv
<1>3. ASSUME NEW u \in Unit, SyncOk(u)
      PROVE  KnowInv' /\ bag' = bag
  BY <1>3, SyncSetsNothing DEF KnowInv
<1>9. ASSUME NEW u \in Unit, Announce(u)
      PROVE  KnowInv' /\ bag' = bag
  <2>1. \A w \in Unit \ {u} : hook'[w] = hook[w]
    BY <1>9 DEF Announce, TypeOK
  <2>2. hook'[u].set # NoSettings
    BY <1>9, SetsSomething
  <2>3. bag' = bag
    BY <1>9 DEF Announce
  <2> QED BY <2>1, <2>2, <2>3 DEF KnowInv
<1>4. ASSUME NEW u \in Unit,
             \/ SyncNeedsOnlineMigrations(u)
             \/ OnlineMigrationsDone(u)
             \/ Retry(u)
      PROVE  KnowInv' /\ bag' = bag
  <2>1. \A w \in Unit : /\ hook'[w].set = hook[w].set
                        /\ hook'[w].at # "idle" => hook[w].at # "idle"
    <3>1. CASE SyncNeedsOnlineMigrations(u)
      BY <3>1 DEF SyncNeedsOnlineMigrations, TypeOK, Hook
    <3>2. CASE OnlineMigrationsDone(u)
      BY <3>2 DEF OnlineMigrationsDone, TypeOK, Hook
    <3>3. CASE Retry(u)
      BY <3>3 DEF Retry, Migrating, TypeOK, Hook
    <3> QED BY <1>4, <3>1, <3>2, <3>3
  <2>2. bag' = bag
    BY <1>4 DEF SyncNeedsOnlineMigrations, OnlineMigrationsDone, Retry
  <2> QED BY <2>1, <2>2 DEF KnowInv
<1>5. ASSUME NEW u \in Unit, NEW v \in Unit, ClusterHook(u, v)
      PROVE  KnowInv' /\ bag' = bag
  <2>1. \A w \in Unit \ {u} : hook'[w] = hook[w]
    BY <1>5 DEF ClusterHook, TypeOK
  <2>2. hook'[u].set = IF Notified(u, v) THEN Echoed(u, bag[v].init)
                                         ELSE bag[u]
    BY <1>5 DEF ClusterHook, TypeOK
  <2>3. bag' = bag
    BY <1>5 DEF ClusterHook
  <2> QED BY <2>1, <2>2, <2>3, SetsSomething DEF KnowInv
<1>6. ASSUME NEW u \in Unit, HookEnds(u)
      PROVE  /\ KnowInv'
             /\ \A w \in Unit : bag[w] # NoSettings => bag'[w] # NoSettings
  <2>1. /\ hook[u].at = "done"
        /\ bag' = [bag EXCEPT ![u] = hook[u].set]
        /\ hook' = [hook EXCEPT ![u] = Idle(u)]
    BY <1>6 DEF HookEnds
  <2>2. \A w \in Unit \ {u} : bag'[w] = bag[w] /\ hook'[w] = hook[w]
    BY <2>1 DEF TypeOK
  <2>3. bag'[u] = hook[u].set /\ hook'[u].at = "idle"
    BY <2>1 DEF TypeOK, Idle
  <2> QED BY <2>1, <2>2, <2>3 DEF KnowInv
<1>7. ASSUME NEW u \in Unit, HookFails(u) PROVE KnowInv' /\ bag' = bag
  <2>1. /\ \A w \in Unit \ {u} : hook'[w] = hook[w]
        /\ hook'[u].at = "idle"
        /\ bag' = bag
    BY <1>7 DEF HookFails, TypeOK, Idle
  <2> QED BY <2>1 DEF KnowInv
<1>8. ASSUME NEW u \in Unit,
             Pause(u) \/ Resume(u) \/ ElectLeader(u) \/ Depart(u)
      PROVE  KnowInv' /\ bag' = bag
  BY <1>8 DEF Pause, Resume, ElectLeader, Depart, KnowInv
<1> QED BY <1>1, <1>2, <1>3, <1>4, <1>5, <1>6, <1>7, <1>8, <1>9
        DEF Next, Migrate, vars

\* No unit ever forgets that the database is initialised, whoever leads,
\* whatever fails and whoever leaves.
THEOREM DatabaseStaysKnown == Spec => KnowledgeIsKept
<1>1. Init => KnowInv
  BY DEF Init, KnowInv
<1>2. TypeOK /\ KnowInv /\ [Next]_vars => KnowInv'
  BY KnowStep
<1>3. TypeOK /\ KnowInv /\ [Next]_vars =>
          [\A u \in Unit : bag[u] # NoSettings => bag'[u] # NoSettings]_vars
  BY KnowStep
<1> QED BY <1>1, <1>2, <1>3, TypeCorrect, PTL DEF Spec, KnowledgeIsKept
-----------------------------------------------------------------------------
(* DbInit implements Migration: with the two invariants above, each step of  *)
(* a unit maps to a step of the same unit there, or to none.                 *)

\* What a unit acknowledges changes with its settings only.
LEMMA AcknowledgedKept ==
    ASSUME UNCHANGED bag
    PROVE  Acknowledged' = Acknowledged
BY DEF Acknowledged

\* Settings that are not empty name a sync, all they name are covered.
LEMMA SomethingAcknowledged ==
    ASSUME TypeOK, NEW s \in Settings, NEW u \in Unit, Covered(u, s), s # NoSettings
    PROVE  /\ {id.n : id \in {s.init, s.echo} \ {NoId}} \in (SUBSET (0..schema)) \ {{}}
           /\ up[u] => \A n \in {id.n : id \in {s.init, s.echo} \ {NoId}} : n <= svc[u]
<1> DEFINE A == {id.n : id \in {s.init, s.echo} \ {NoId}}
<1>1. s.init # NoId \/ s.echo # NoId
  BY DEF Settings, NoSettings
<1>2. s.init.n \in Nat /\ s.echo.n \in Nat
  BY IdsCount
<1>3. \A n \in A : n = s.init.n \/ n = s.echo.n
  OBVIOUS
<1>4. A # {}
  BY <1>1
<1>5. A \subseteq 0..schema
  BY <1>2, <1>3 DEF Covered, TypeOK
<1>6. up[u] => \A n \in A : n <= svc[u]
  BY <1>2, <1>3 DEF Covered, TypeOK
<1> QED BY <1>4, <1>5, <1>6

\* A restart that a pause forbids leaves a unit as it was, which is down.
LEMMA RestartIsPromised ==
    ASSUME TypeOK, AnnounceInv, NEW u \in Unit, NEW n \in Nat, RestartUnlessPaused(u, n)
    PROVE  \/ up' = [up EXCEPT ![u] = TRUE] /\ svc' = [svc EXCEPT ![u] = n]
           \/ ~up[u] /\ UNCHANGED <<up, svc>>
<1>1. CASE paused[u]
  BY <1>1 DEF TypeOK, AnnounceInv, RestartUnlessPaused
<1>2. CASE ~paused[u]
  BY <1>2 DEF TypeOK, RestartUnlessPaused
<1> QED BY <1>1, <1>2

LEMMA PromiseInit == Init => Promise!MigrationInit
BY DEF Init, Promise!MigrationInit, Acknowledged, NoSettings

LEMMA PromiseStep ==
    ASSUME TypeOK, AnnounceInv, KnowInv, [Next]_vars
    PROVE  [Promise!MigrationNext]_(Promise!migrationVars)
<1> USE DEF Promise!migrationVars
<1>1. ASSUME UNCHANGED <<schema, up, svc, bag>>
      PROVE  UNCHANGED Promise!migrationVars
  BY <1>1, AcknowledgedKept
<1>2. CASE UNCHANGED vars
  BY <1>1, <1>2 DEF vars
<1>3. ASSUME NEW u \in Unit, StartUpgrade(u)
      PROVE  Promise!Stop(u) \/ Promise!Restart(u)
  <2>1. UNCHANGED <<schema, Acknowledged>>
    BY <1>3, AcknowledgedKept DEF StartUpgrade
  <2>2. CASE up'[u]
    <3>1. up' = [up EXCEPT ![u] = TRUE] /\ svc' = [svc EXCEPT ![u] = schema]
      BY <1>3, <2>2 DEF StartUpgrade, TypeOK
    <3> QED BY <2>1, <3>1 DEF Promise!Restart, Promise!Starts
  <2>3. CASE ~up'[u]
    <3>1. up' = [up EXCEPT ![u] = FALSE] /\ svc' = svc
      BY <1>3, <2>3 DEF StartUpgrade, TypeOK
    <3> QED BY <2>1, <3>1 DEF Promise!Stop
  <2> QED BY <2>2, <2>3
<1>4. ASSUME NEW u \in Unit, SyncOk(u) PROVE Promise!Sync
  BY <1>4, SyncSetsNothing, AcknowledgedKept DEF Promise!Sync
<1>10. ASSUME NEW u \in Unit, Announce(u)
      PROVE  Promise!Restart(u) \/ UNCHANGED Promise!migrationVars
  <2>1. RestartUnlessPaused(u, schema) /\ schema \in Nat /\ schema' = schema
    BY <1>10 DEF Announce, TypeOK
  <2>2. UNCHANGED Acknowledged
    BY <1>10, AcknowledgedKept DEF Announce
  <2> QED BY <2>1, <2>2, RestartIsPromised DEF Promise!Restart, Promise!Starts
<1>5. ASSUME NEW u \in Unit, NEW v \in Unit, ClusterHook(u, v)
      PROVE  Promise!Restart(u) \/ UNCHANGED Promise!migrationVars
  <2>1. UNCHANGED <<schema, Acknowledged>> /\ schema \in Nat
    BY <1>5, AcknowledgedKept DEF ClusterHook, TypeOK
  <2>2. CASE Notified(u, v)
    <3>1. RestartUnlessPaused(u, schema)
      BY <1>5, <2>2 DEF ClusterHook
    <3> QED BY <2>1, <3>1, RestartIsPromised DEF Promise!Restart, Promise!Starts
  <2>3. CASE ~Notified(u, v)
    BY <1>5, <2>1, <2>3 DEF ClusterHook
  <2> QED BY <2>2, <2>3
<1>6. ASSUME NEW u \in Unit, HookEnds(u)
      PROVE  \/ Promise!Acknowledge(u) \/ Promise!Restart(u)
             \/ UNCHANGED Promise!migrationVars
  <2> DEFINE resumes == hook[u].kind = "upgrade" /\ paused[u]
             set == hook[u].set
             A == {id.n : id \in {set.init, set.echo} \ {NoId}}
  <2>1. /\ hook[u].at = "done" /\ set \in Settings
        /\ bag' = [bag EXCEPT ![u] = set]
        /\ schema' = schema /\ schema \in Nat
    BY <1>6 DEF HookEnds, TypeOK, Hook
  <2>2. \/ up' = [up EXCEPT ![u] = TRUE] /\ svc' = [svc EXCEPT ![u] = schema]
        \/ UNCHANGED <<up, svc>>
    <3>1. CASE resumes
      BY <1>6, <3>1 DEF HookEnds, TypeOK
    <3>2. CASE ~resumes
      BY <1>6, <3>2 DEF HookEnds, TypeOK
    <3> QED BY <3>1, <3>2
  <2>3. CASE set = NoSettings
    <3>1. bag[u] = NoSettings
      BY <2>1, <2>3 DEF KnowInv
    <3>2. bag' = bag
      BY <2>1, <2>3, <3>1 DEF TypeOK
    <3> QED BY <2>1, <2>2, <3>2, AcknowledgedKept DEF Promise!Restart, Promise!Starts
  <2>4. CASE set # NoSettings
    <3>1. /\ A \in (SUBSET (0..schema)) \ {{}}
          /\ up[u] => \A n \in A : n <= svc[u]
      <4>1. Covered(u, set)
        BY DEF AnnounceInv
      <4> QED BY <2>1, <2>4, <4>1, SomethingAcknowledged
    <3>2. Acknowledged' = [Acknowledged EXCEPT ![u] = A]
      <4>1. Acknowledged'[u] = A
        BY <2>1 DEF Acknowledged, TypeOK
      <4>2. \A w \in Unit \ {u} : Acknowledged'[w] = Acknowledged[w]
        BY <2>1 DEF Acknowledged, TypeOK
      <4> QED BY <4>1, <4>2 DEF Acknowledged
    <3>3. up'[u] => \A n \in A : n <= svc'[u]
      <4>1. CASE up' = [up EXCEPT ![u] = TRUE] /\ svc' = [svc EXCEPT ![u] = schema]
        BY <2>1, <3>1, <4>1 DEF TypeOK
      <4>2. CASE UNCHANGED <<up, svc>>
        BY <3>1, <4>2
      <4> QED BY <2>2, <4>1, <4>2
    <3>4. Acknowledged'[u] = A
      BY <3>2 DEF Acknowledged
    <3> HIDE DEF A
    <3> QED BY <2>1, <2>2, <3>1, <3>2, <3>3, <3>4
            DEF Promise!Acknowledge, Promise!Starts
  <2> QED BY <2>3, <2>4
<1>7. ASSUME NEW u \in Unit, Pause(u) PROVE Promise!Stop(u)
  BY <1>7, AcknowledgedKept DEF Pause, Promise!Stop
<1>8. ASSUME NEW u \in Unit, Resume(u) PROVE Promise!Restart(u)
  BY <1>8, AcknowledgedKept DEF Resume, Promise!Restart, Promise!Starts
<1>9. ASSUME NEW u \in Unit,
             \/ DbChanged(u) \/ SyncNeedsOnlineMigrations(u)
             \/ OnlineMigrationsDone(u) \/ Retry(u) \/ HookFails(u)
             \/ ElectLeader(u) \/ Depart(u)
      PROVE  UNCHANGED Promise!migrationVars
  BY <1>1, <1>9 DEF DbChanged, SyncNeedsOnlineMigrations, OnlineMigrationsDone,
                    Retry, HookFails, ElectLeader, Depart
<1> QED BY <1>2, <1>3, <1>4, <1>5, <1>6, <1>7, <1>8, <1>9, <1>10
        DEF Next, Migrate, Promise!MigrationNext

\* The protocol implements Migration for any units and any bounds.
THEOREM MigrationIsImplemented == Spec => MigrationIsKept
<1>1. Init => AnnounceInv /\ KnowInv
  BY AnnounceInit DEF Init, KnowInv
<1>2. TypeOK /\ AnnounceInv /\ KnowInv /\ [Next]_vars => AnnounceInv' /\ KnowInv'
  BY AnnounceStep, KnowStep
<1>3. TypeOK /\ AnnounceInv /\ KnowInv /\ [Next]_vars
          => [Promise!MigrationNext]_(Promise!migrationVars)
  BY PromiseStep
<1> QED BY <1>1, <1>2, <1>3, PromiseInit, TypeCorrect, PTL
        DEF Spec, MigrationIsKept, Promise!MigrationSpec
-----------------------------------------------------------------------------
(* DeliveredMeansRestarted, when no unit's name is part of another's.        *)

\* An id is published by the unit that it names.
AuthorInv == \A u \in Unit : /\ bag[u].init = NoId \/ bag[u].init.by = u
                             /\ hook[u].set.init = NoId \/ hook[u].set.init.by = u

\* An id that is published is from its author: only an announcement makes one, and an
\* echo goes to the other key.
LEMMA AuthorStep ==
    ASSUME TypeOK, AuthorInv, [Next]_vars
    PROVE  AuthorInv'
<1>1. CASE UNCHANGED vars
  BY <1>1 DEF AuthorInv, vars
<1>2. ASSUME NEW u \in Unit, DbChanged(u) \/ StartUpgrade(u)
      PROVE  AuthorInv'
  <2>1. \A w \in Unit : hook'[w] = hook[w] \/ hook'[w].set = bag[w]
    <3>1. CASE DbChanged(u)
      BY <3>1 DEF DbChanged, TypeOK
    <3>2. CASE StartUpgrade(u)
      BY <3>2 DEF StartUpgrade, TypeOK
    <3> QED BY <1>2, <3>1, <3>2
  <2>2. bag' = bag
    BY <1>2 DEF DbChanged, StartUpgrade
  <2> QED BY <2>1, <2>2 DEF AuthorInv
<1>3. ASSUME NEW u \in Unit, SyncOk(u) PROVE AuthorInv'
  BY <1>3, SyncSetsNothing DEF AuthorInv
<1>8. ASSUME NEW u \in Unit, Announce(u) PROVE AuthorInv'
  <2>1. \A w \in Unit \ {u} : hook'[w] = hook[w]
    BY <1>8 DEF Announce, TypeOK
  <2>2. hook'[u].set.init = [by |-> u, n |-> schema]
    BY <1>8 DEF Announce, TypeOK, Hook, Settings
  <2>3. hook'[u].set.init.by = u
    BY <2>2
  <2>4. bag' = bag
    BY <1>8 DEF Announce
  <2> QED BY <2>1, <2>3, <2>4 DEF AuthorInv
<1>4. ASSUME NEW u \in Unit,
             \/ SyncNeedsOnlineMigrations(u)
             \/ OnlineMigrationsDone(u)
             \/ Retry(u)
      PROVE  AuthorInv'
  <2>1. \A w \in Unit : hook'[w].set = hook[w].set
    <3>1. CASE SyncNeedsOnlineMigrations(u)
      BY <3>1 DEF SyncNeedsOnlineMigrations, TypeOK, Hook
    <3>2. CASE OnlineMigrationsDone(u)
      BY <3>2 DEF OnlineMigrationsDone, TypeOK, Hook
    <3>3. CASE Retry(u)
      BY <3>3 DEF Retry, TypeOK, Hook
    <3> QED BY <1>4, <3>1, <3>2, <3>3
  <2>2. bag' = bag
    BY <1>4 DEF SyncNeedsOnlineMigrations, OnlineMigrationsDone, Retry
  <2> QED BY <2>1, <2>2 DEF AuthorInv
<1>5. ASSUME NEW u \in Unit, NEW v \in Unit, ClusterHook(u, v)
      PROVE  AuthorInv'
  <2>1. \A w \in Unit \ {u} : hook'[w] = hook[w]
    BY <1>5 DEF ClusterHook, TypeOK
  <2>2. hook'[u].set = IF Notified(u, v) THEN Echoed(u, bag[v].init)
                                         ELSE bag[u]
    BY <1>5 DEF ClusterHook, TypeOK
  <2>3. hook'[u].set.init = NoId \/ hook'[u].set.init = bag[u].init
    BY <2>2 DEF Echoed
  <2>4. bag' = bag
    BY <1>5 DEF ClusterHook
  <2> QED BY <2>1, <2>3, <2>4 DEF AuthorInv
<1>6. ASSUME NEW u \in Unit, HookEnds(u) \/ HookFails(u) PROVE AuthorInv'
  <2>1. /\ hook' = [hook EXCEPT ![u] = Idle(u)]
        /\ bag' = bag \/ bag' = [bag EXCEPT ![u] = hook[u].set]
    BY <1>6 DEF HookEnds, HookFails
  <2>2. \A w \in Unit \ {u} : bag'[w] = bag[w] /\ hook'[w] = hook[w]
    BY <2>1 DEF TypeOK
  <2>3. /\ hook'[u].set.init = NoId
        /\ bag'[u] = bag[u] \/ bag'[u] = hook[u].set
    BY <2>1 DEF TypeOK, Idle, NoSettings
  <2> QED BY <2>2, <2>3 DEF AuthorInv
<1>7. ASSUME NEW u \in Unit,
             Pause(u) \/ Resume(u) \/ ElectLeader(u) \/ Depart(u)
      PROVE  AuthorInv'
  BY <1>7 DEF Pause, Resume, ElectLeader, Depart, AuthorInv
<1> QED BY <1>1, <1>2, <1>3, <1>4, <1>5, <1>6, <1>7, <1>8 DEF Next, Migrate

\* Starting services, or leaving them alone, keeps what has been delivered, as
\* long as nothing new is published or delivered.
LEMMA NothingDelivered ==
    ASSUME TypeOK, TypeOK', AnnounceInv', DeliveredMeansRestarted,
           bag' = bag,
           \A u \in Unit : \/ up'[u] => up[u] /\ svc'[u] = svc[u]
                           \/ up'[u] => svc'[u] = schema',
           \A u, v \in Unit : pend'[u][v] = "clean" => pend[u][v] = "clean"
    PROVE  DeliveredMeansRestarted'
<1>1. \A v \in Unit : bag'[v].init.n \in Nat /\ bag'[v].init.n <= schema'
  BY IdsCount DEF TypeOK, AnnounceInv, Covered
<1>2. schema' \in Nat
  BY DEF TypeOK
<1> QED BY <1>1, <1>2 DEF DeliveredMeansRestarted

\* When a hook has dealt with an id of v that it does not take for its own, the
\* services of u are down or not older than the id.
LEMMA HandledIsCovered ==
    ASSUME Prefix = {}, TypeOK, TypeOK', AnnounceInv, AnnounceInv', AuthorInv,
           NEW u \in Unit, NEW v \in Unit, ClusterHook(u, v),
           pend'[u][v] = "clean", up'[u]
    PROVE  svc'[u] >= bag'[v].init.n
<1>1. bag' = bag /\ schema' = schema /\ v # u
  BY DEF ClusterHook
<1>2. bag'[v].init.n \in Nat /\ bag'[v].init.n <= schema /\ schema \in Nat
  BY <1>1, IdsCount DEF TypeOK, AnnounceInv, Covered
<1>3. svc[u] \in Nat
  BY DEF TypeOK
<1>4. CASE Notified(u, v)
  <2>1. RestartUnlessPaused(u, schema)
    BY <1>4 DEF ClusterHook
  <2>2. up'[u] => svc'[u] = schema
    BY <2>1, <1>2, RestartCovers
  <2> QED BY <1>2, <2>2
<1>5. CASE ~Notified(u, v) /\ bag[v].init = NoId
  BY <1>1, <1>5, <1>2, <1>3 DEF NoId, ClusterHook
<1>6. CASE ~Notified(u, v) /\ bag[v].init # NoId
  <2>1. Taken(u, v)[u][v] = "clean"
    BY DEF ClusterHook
  <2>2. DbInitialised(u, Taken(u, v))
    BY <1>1, <1>6, <2>1 DEF DbInitialised, Related
  <2>3. ~NamesLocalUnit(u, bag[v].init)
    BY <1>1, <1>6 DEF NamesLocalUnit, AuthorInv
  <2>4. bag[u].echo = bag[v].init
    BY <1>6, <2>2, <2>3 DEF Notified, IsNewNotification
  <2>5. up' = up /\ svc' = svc
    BY <1>6 DEF ClusterHook
  <2> QED BY <1>1, <2>4, <2>5 DEF AnnounceInv, Covered
<1> QED BY <1>4, <1>5, <1>6

LEMMA DeliverStep ==
    ASSUME Prefix = {}, TypeOK, TypeOK', AnnounceInv, AnnounceInv', AuthorInv,
           DeliveredMeansRestarted, [Next]_vars
    PROVE  DeliveredMeansRestarted'
<1>1. CASE UNCHANGED vars
  BY <1>1 DEF DeliveredMeansRestarted, vars
<1>2. ASSUME NEW u \in Unit, DbChanged(u) PROVE DeliveredMeansRestarted'
  BY <1>2, NothingDelivered DEF DbChanged
<1>3. ASSUME NEW u \in Unit, StartUpgrade(u) PROVE DeliveredMeansRestarted'
  <2>1. bag' = bag /\ pend' = pend /\ schema' = schema
    BY <1>3 DEF StartUpgrade
  <2>2. up'[u] => svc'[u] = schema'
    BY <1>3, <2>1 DEF StartUpgrade, TypeOK
  <2>3. \A w \in Unit \ {u} : up'[w] = up[w] /\ svc'[w] = svc[w]
    BY <1>3 DEF StartUpgrade, TypeOK
  <2> QED BY <2>1, <2>2, <2>3, NothingDelivered
<1>4. ASSUME NEW u \in Unit, SyncOk(u) PROVE DeliveredMeansRestarted'
  BY <1>4, SyncSetsNothing, NothingDelivered
<1>11. ASSUME NEW u \in Unit, Announce(u) PROVE DeliveredMeansRestarted'
  <2>1. bag' = bag /\ pend' = pend /\ schema' = schema
    BY <1>11 DEF Announce
  <2>2. /\ up'[u] => svc'[u] = schema'
        /\ \A w \in Unit \ {u} : up'[w] = up[w] /\ svc'[w] = svc[w]
    <3>1. schema \in Nat /\ schema >= schema
      BY DEF TypeOK
    <3> QED BY <1>11, <2>1, <3>1, RestartCovers DEF Announce
  <2> QED BY <2>1, <2>2, NothingDelivered
<1>5. ASSUME NEW u \in Unit,
             \/ SyncNeedsOnlineMigrations(u)
             \/ OnlineMigrationsDone(u)
             \/ Retry(u)
             \/ ElectLeader(u)
      PROVE  DeliveredMeansRestarted'
  BY <1>5, NothingDelivered
     DEF SyncNeedsOnlineMigrations, OnlineMigrationsDone, Retry, ElectLeader
<1>6. ASSUME NEW u \in Unit, NEW v \in Unit, ClusterHook(u, v)
      PROVE  DeliveredMeansRestarted'
  <2>1. bag' = bag /\ schema' = schema /\ pend' = Taken(u, v)
    BY <1>6 DEF ClusterHook
  <2>2. \A w, x \in Unit : <<w, x>> # <<u, v>> => pend'[w][x] = pend[w][x]
    BY <2>1 DEF Taken, TypeOK
  <2>3. /\ (up'[u] => svc'[u] = schema) \/ (up' = up /\ svc' = svc)
        /\ \A w \in Unit \ {u} : up'[w] = up[w] /\ svc'[w] = svc[w]
    <3>1. CASE Notified(u, v)
      <4>1. RestartUnlessPaused(u, schema) /\ schema \in Nat
        BY <1>6, <3>1 DEF ClusterHook, TypeOK
      <4> QED BY <4>1, RestartCovers
    <3>2. CASE ~Notified(u, v)
      BY <1>6, <3>2 DEF ClusterHook
    <3> QED BY <3>1, <3>2
  <2>4. \A w \in Unit : bag[w].init.n \in Nat /\ bag[w].init.n <= schema
    BY IdsCount DEF TypeOK, AnnounceInv, Covered
  <2>5. schema \in Nat
    BY DEF TypeOK
  <2>6. ASSUME NEW w \in Unit, NEW x \in Unit, pend'[w][x] = "clean", up'[w]
        PROVE  svc'[w] >= bag'[x].init.n
    <3>1. CASE w = u /\ x = v
      BY <1>6, <2>6, <3>1, HandledIsCovered
    <3>2. CASE ~(w = u /\ x = v)
      BY <2>1, <2>2, <2>3, <2>4, <2>5, <2>6, <3>2 DEF DeliveredMeansRestarted
    <3> QED BY <3>1, <3>2
  <2> QED BY <2>6 DEF DeliveredMeansRestarted
<1>7. ASSUME NEW u \in Unit, HookEnds(u) PROVE DeliveredMeansRestarted'
  <2>1. /\ bag' = [bag EXCEPT ![u] = hook[u].set]
        /\ pend' = [w \in Unit |-> [pend[w] EXCEPT ![u] =
                        IF pend[w][u] = "clean" /\ hook[u].set # bag[u]
                        THEN "changed" ELSE pend[w][u]]]
        /\ schema' = schema
    BY <1>7 DEF HookEnds
  <2>2. \A w, x \in Unit : pend'[w][x] = "clean" =>
            pend[w][x] = "clean" /\ bag'[x] = bag[x]
    BY <2>1 DEF TypeOK
  <2>3. \A w \in Unit : \/ up'[w] => up[w] /\ svc'[w] = svc[w]
                        \/ up'[w] => svc'[w] = schema
    <3> DEFINE resumes == hook[u].kind = "upgrade" /\ paused[u]
    <3>1. /\ up' = [up EXCEPT ![u] = up[u] \/ resumes]
          /\ svc' = [svc EXCEPT ![u] = IF resumes THEN schema ELSE svc[u]]
      BY <1>7 DEF HookEnds
    <3>2. CASE resumes
      BY <3>1, <3>2 DEF TypeOK
    <3>3. CASE ~resumes
      <4>1. up' = up /\ svc' = svc
        BY <3>1, <3>3 DEF TypeOK
      <4> QED BY <4>1
    <3> QED BY <3>2, <3>3
  <2>4. \A w \in Unit : bag'[w].init.n \in Nat /\ bag'[w].init.n <= schema
    BY <2>1, IdsCount DEF TypeOK, AnnounceInv, Covered
  <2>5. schema \in Nat
    BY DEF TypeOK
  <2> QED BY <2>2, <2>3, <2>4, <2>5 DEF DeliveredMeansRestarted
<1>8. ASSUME NEW u \in Unit, HookFails(u) PROVE DeliveredMeansRestarted'
  <2>1. bag' = bag /\ up' = up /\ svc' = svc
    BY <1>8 DEF HookFails
  <2>2. \A w, x \in Unit : pend'[w][x] = "clean" => pend[w][x] = "clean"
    BY <1>8 DEF HookFails, TypeOK, Hook, Kind
  <2> QED BY <2>1, <2>2, NothingDelivered
<1>9. ASSUME NEW u \in Unit, Pause(u) \/ Resume(u)
      PROVE  DeliveredMeansRestarted'
  <2>1. bag' = bag /\ pend' = pend /\ schema' = schema
    BY <1>9 DEF Pause, Resume
  <2>2. \A w \in Unit : \/ up'[w] => up[w] /\ svc'[w] = svc[w]
                        \/ up'[w] => svc'[w] = schema'
    BY <1>9 DEF Pause, Resume, TypeOK
  <2> QED BY <2>1, <2>2, NothingDelivered
<1>10. ASSUME NEW u \in Unit, Depart(u) PROVE DeliveredMeansRestarted'
  <2>1. bag' = bag /\ up' = up /\ svc' = svc
    BY <1>10 DEF Depart
  <2>2. \A w, x \in Unit : pend'[w][x] = "clean" => pend[w][x] = "clean"
    BY <1>10 DEF Depart, TypeOK
  <2> QED BY <2>1, <2>2, NothingDelivered
<1> QED BY <1>1, <1>2, <1>3, <1>4, <1>5, <1>6, <1>7, <1>8, <1>9, <1>10, <1>11
        DEF Next, Migrate

\* Unless the name of a unit is part of another's, a running unit that has
\* dealt with everything it is owed about a peer has picked up what that peer
\* announces, whoever leads, whatever fails and whoever joins or leaves.
THEOREM DeliveriesAreHandled ==
    ASSUME Prefix = {}
    PROVE  Spec => []DeliveredMeansRestarted
<1>1. Init => AuthorInv /\ DeliveredMeansRestarted
  BY DEF Init, AuthorInv, DeliveredMeansRestarted, Idle, NoSettings, NoId
<1>2. AuthorInv /\ TypeOK /\ [Next]_vars => AuthorInv'
  BY AuthorStep
<1>3. /\ TypeOK /\ TypeOK' /\ AnnounceInv /\ AnnounceInv' /\ AuthorInv
      /\ DeliveredMeansRestarted /\ [Next]_vars
      => DeliveredMeansRestarted'
  BY DeliverStep
<1>4. TypeOK /\ AnnounceInv /\ [Next]_vars => AnnounceInv'
  BY AnnounceStep
<1> QED BY <1>1, <1>2, <1>3, <1>4, TypeCorrect, AnnounceInit, PTL DEF Spec

-----------------------------------------------------------------------------
(***************************************************************************)
(* Under one leader, and with no hook that fails, the database is          *)
(* initialised once and an upgrade of all units migrates it.               *)
(***************************************************************************)

Steady == MaxTerms = 0 /\ MaxFails = 0

\* Only the leader syncs.  Once it has, it knows of the sync, in its settings or in
\* those that its hook is about to publish, or about to set, and does not initialise
\* again; it is upgraded once, and that hook syncs.
LeaderInv ==
    /\ TypeOK
    /\ budget.terms = 0 /\ budget.fails = 0 /\ leader \notin left
    /\ \A u \in Unit : Migrating(u) => u = leader
    /\ schema > 0 => IF hook[leader].at = "idle"
                     THEN bag[leader].init # NoId
                     ELSE hook[leader].at = "announce" \/ hook[leader].set.init # NoId
    /\ \A u \in Unit : hook[u].at = "announce" => u = leader
    /\ schema + (IF Migrating(leader) THEN 1 ELSE 0)
           <= 1 + (IF pkg[leader] THEN 1 ELSE 0)
    /\ pkg[leader] => migrated \/ Migrating(leader)

LEMMA LeaderStep ==
    ASSUME LeaderInv, [Next]_vars, TypeOK' PROVE LeaderInv'
<1> USE DbInitAssumption DEF DbInitAssumption, LeaderInv, TypeOK
<1>1. CASE UNCHANGED vars
  BY <1>1 DEF vars, Migrating
<1>2. ASSUME NEW u \in Unit, DbChanged(u) PROVE LeaderInv'
  <2>1. /\ u = leader /\ hook[u].at = "idle"
        /\ bag[u].init = NoId
    BY <1>2 DEF DbChanged, Free, Syncs, DbInitialised
  <2>2. schema = 0 /\ ~Migrating(leader)
    BY <2>1 DEF Migrating
  <2>3. \A w \in Unit : hook'[w].at = IF w = u THEN "sync" ELSE hook[w].at
    BY <1>2 DEF DbChanged
  <2>4. Migrating(leader)' /\ \A w \in Unit : Migrating(w)' => w = leader
    BY <1>2, <2>1, <2>3 DEF DbChanged, Migrating
  <2> QED BY <1>2, <2>1, <2>2, <2>4 DEF DbChanged
<1>3. ASSUME NEW u \in Unit, StartUpgrade(u) PROVE LeaderInv'
  <2>1. /\ hook[u].at = "idle" /\ ~pkg[u] /\ ~Migrating(u)
        /\ Syncs(u, TRUE) <=> u = leader
    BY <1>3 DEF StartUpgrade, Free, Syncs, Migrating
  <2>2. \A w \in Unit : /\ w # u => hook'[w] = hook[w] /\ pkg'[w] = pkg[w]
                        /\ w = u => /\ hook'[w].at = (IF u = leader THEN "sync" ELSE "done")
                                    /\ hook'[w].set = bag[u] /\ pkg'[w]
    BY <1>3, <2>1 DEF StartUpgrade
  <2>4. UNCHANGED <<leader, bag, schema, migrated, left, budget>>
    BY <1>3 DEF StartUpgrade
  <2>3. \A w \in Unit : w # u => (Migrating(w)' <=> Migrating(w))
    BY <2>2 DEF Migrating
  <2>5. CASE u = leader
    <3>1. Migrating(leader)'
      BY <2>2, <2>4, <2>5 DEF Migrating
    <3>2. \A w \in Unit : Migrating(w)' => w = leader
      BY <2>3, <2>5
    <3> QED BY <2>1, <2>2, <2>4, <2>5, <3>1, <3>2
  <2>6. CASE u # leader
    <3>1. ~Migrating(u)'
      BY <2>2, <2>6 DEF Migrating
    <3>2. Migrating(leader)' <=> Migrating(leader)
      BY <2>3, <2>4, <2>6
    <3> QED BY <2>2, <2>3, <2>4, <2>6, <3>1, <3>2
  <2> QED BY <2>5, <2>6
<1>4. ASSUME NEW u \in Unit, SyncOk(u) PROVE LeaderInv'
  <2>1. u = leader /\ Migrating(u) /\ hook[u].at # "idle"
    BY <1>4 DEF SyncOk, Migrating
  <2>2. \A w \in Unit : /\ w # u => hook'[w] = hook[w]
                        /\ w = u => hook'[w].at = "announce"
    BY <1>4 DEF SyncOk, Hook
  <2>3. \A w \in Unit : ~Migrating(w)'
    BY <2>1, <2>2 DEF Migrating
  <2> QED BY <1>4, <2>1, <2>2, <2>3 DEF SyncOk
<1>11. ASSUME NEW u \in Unit, Announce(u) PROVE LeaderInv'
  <2>1. u = leader /\ hook[u].at = "announce" /\ ~Migrating(u)
    BY <1>11 DEF Announce, Migrating
  <2>2. \A w \in Unit : /\ w # u => hook'[w] = hook[w]
                        /\ w = u => /\ hook'[w].at = "done"
                                    /\ hook'[w].set.init = [by |-> u, n |-> schema]
    BY <1>11 DEF Announce, Hook, Settings
  <2>3. [by |-> u, n |-> schema] # NoId
    BY DEF NoId
  <2>4. \A w \in Unit : Migrating(w)' <=> Migrating(w)
    BY <2>1, <2>2 DEF Migrating
  <2>5. UNCHANGED <<leader, bag, schema, pkg, migrated, left, budget>>
    BY <1>11 DEF Announce
  <2> QED BY <2>1, <2>2, <2>3, <2>4, <2>5
<1>5. ASSUME NEW u \in Unit,
             SyncNeedsOnlineMigrations(u) \/ OnlineMigrationsDone(u) \/ Retry(u)
      PROVE  LeaderInv'
  <2>1. \A w \in Unit : /\ w # u => hook'[w] = hook[w]
                        /\ w = u => /\ hook'[w].at \in {"sync", "online", "resync"}
                                    /\ hook'[w].set = hook[w].set
    BY <1>5 DEF SyncNeedsOnlineMigrations, OnlineMigrationsDone, Retry, Hook
  <2>2. Migrating(u) /\ \A w \in Unit : Migrating(w)' <=> Migrating(w)
    BY <1>5, <2>1 DEF SyncNeedsOnlineMigrations, OnlineMigrationsDone, Retry, Migrating
  <2>3. UNCHANGED <<leader, bag, schema, pkg, migrated, left, budget>>
    BY <1>5 DEF SyncNeedsOnlineMigrations, OnlineMigrationsDone, Retry
  <2>4. {hook[u].at, hook'[u].at} \cap {"idle", "announce"} = {}
    BY <2>1, <2>2 DEF Migrating
  <2>5. u = leader
    BY <2>2
  <2>6. \A w \in Unit : hook'[w].at = "announce" => w = leader
    BY <2>1, <2>5
  <2>7. schema > 0 => hook'[leader].set.init # NoId
    BY <2>1, <2>4, <2>5
  <2>8. schema' > 0 => (IF hook'[leader].at = "idle" THEN bag'[leader].init # NoId
                       ELSE hook'[leader].at = "announce" \/ hook'[leader].set.init # NoId)
    BY <2>3, <2>4, <2>5, <2>7
  <2> QED BY <2>2, <2>3, <2>6, <2>8
<1>6. ASSUME NEW u \in Unit, NEW v \in Unit, ClusterHook(u, v) PROVE LeaderInv'
  <2>1. \A w \in Unit : /\ w # u => hook'[w] = hook[w]
                        /\ w = u => /\ hook[w].at = "idle" /\ hook'[w].at = "done"
                                    /\ hook'[w].set \in {bag[u], Echoed(u, bag[v].init)}
    BY <1>6 DEF ClusterHook, Free
  <2>2. \A w \in Unit : Migrating(w)' <=> Migrating(w)
    BY <2>1 DEF Migrating
  <2>3. Echoed(leader, bag[v].init).init = bag[leader].init
    BY DEF Echoed
  <2>4. UNCHANGED <<leader, bag, schema, pkg, migrated, left, budget>>
    BY <1>6 DEF ClusterHook
  <2> QED BY <2>1, <2>2, <2>3, <2>4
<1>7. ASSUME NEW u \in Unit, HookEnds(u) PROVE LeaderInv'
  <2>1. \A w \in Unit : /\ w # u => hook'[w] = hook[w] /\ bag'[w] = bag[w]
                        /\ w = u => /\ hook[w].at = "done" /\ hook'[w].at = "idle"
                                    /\ bag'[w] = hook[w].set
    BY <1>7 DEF HookEnds, Idle
  <2>2. \A w \in Unit : Migrating(w)' <=> Migrating(w)
    BY <2>1 DEF Migrating
  <2>3. UNCHANGED <<leader, schema, pkg, migrated, left, budget>>
    BY <1>7 DEF HookEnds
  <2> QED BY <2>1, <2>2, <2>3
<1>8. ASSUME NEW u \in Unit, HookFails(u) PROVE LeaderInv'
  BY <1>8 DEF HookFails
<1>9. ASSUME NEW u \in Unit, Pause(u) \/ Resume(u) \/ Depart(u) PROVE LeaderInv'
  <2>1. /\ UNCHANGED <<leader, bag, hook, schema, pkg, migrated>>
        /\ budget'.terms = budget.terms /\ budget'.fails = budget.fails
        /\ leader \notin left'
    BY <1>9 DEF Pause, Resume, Depart
  <2> QED BY <2>1 DEF Migrating
<1>10. ASSUME NEW u \in Unit, ElectLeader(u) PROVE LeaderInv'
  BY <1>10 DEF ElectLeader
<1> QED BY <1>1, <1>2, <1>3, <1>4, <1>5, <1>6, <1>7, <1>8, <1>9, <1>10, <1>11
        DEF Next, Migrate

LEMMA LeaderIsInductive == Steady /\ Spec => []LeaderInv
<1> SUFFICES ASSUME Steady PROVE Spec => []LeaderInv
  BY DEF Steady
<1>1. Init /\ TypeOK => LeaderInv
  BY DbInitAssumption DEF DbInitAssumption, Steady, Init, LeaderInv, Idle, Migrating
<1> QED BY <1>1, LeaderStep, TypeCorrect, PTL DEF Spec

\* Under one leader, and with no failed hook, the leader of an application all of whose
\* units are upgraded has migrated the database, whatever joins, leaves, is paused
\* or is retried.  With a change of leader TLC finds a counterexample.
THEOREM UpgradesMigrate == Steady /\ Spec => []UpgradeMigrates
<1>1. LeaderInv => UpgradeMigrates
  BY DEF LeaderInv, TypeOK, UpgradeMigrates, Quiescent, Migrating
<1> QED BY <1>1, LeaderIsInductive, PTL

\* Under one leader, and with no failed hook, the database is initialised once: any
\* other sync is of an upgrade.
THEOREM InitialisedOnlyOnce == Steady /\ IsFiniteSet(Unit) /\ Spec => []InitialisedOnce
<1> SUFFICES ASSUME Steady, IsFiniteSet(Unit) PROVE Spec => []InitialisedOnce
  BY DEF Steady
<1>1. LeaderInv => InitialisedOnce
  <2> SUFFICES ASSUME LeaderInv PROVE InitialisedOnce
    OBVIOUS
  <2> DEFINE P == {u \in Unit : pkg[u]}
  <2>1. IsFiniteSet(P)
    BY FS_Subset
  <2>2. Cardinality(P) \in Nat
    BY <2>1, FS_CardinalityType
  <2>3. pkg[leader] => Cardinality(P) # 0
    <3>1. leader \in Unit
      BY DEF LeaderInv, TypeOK
    <3>2. pkg[leader] => P # {}
      BY <3>1
    <3> QED BY <2>1, <3>2, FS_EmptySet
  <2> DEFINE c == Cardinality(P)
  <2>4. schema <= 1 + c
    <3>1. schema \in Nat /\ schema <= 1 + (IF pkg[leader] THEN 1 ELSE 0)
      BY DEF LeaderInv, TypeOK
    <3>2. c \in Nat /\ (pkg[leader] => c # 0)
      BY <2>2, <2>3
    <3> HIDE DEF c
    <3> QED BY <3>1, <3>2
  <2> QED BY <2>4 DEF InitialisedOnce
<1> QED BY <1>1, LeaderIsInductive, PTL
=============================================================================
