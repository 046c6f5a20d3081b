--------------------------- MODULE Library_proofs ---------------------------
(***************************************************************************)
(* Proofs about the modules that MCLibrary puts together, a section for    *)
(* each: what makes its property inductive, the lemmas, the theorem.       *)
(***************************************************************************)
EXTENDS ServiceTable, ServiceRoles, ApiFrontend, RbdStorage, Contexts,
        CephPools, PeerReadiness, HaResources, Addresses, Nrpe,
        DeferredEvents, HookEnv, ServiceManager, Templating,
        Sources, Hardening, FiniteSetTheorems, SequenceTheorems,
        WellFoundedInduction, TLAPS

(* Numbers. *)

\* A set of numbers that is not empty has a least one.
LEMMA LeastNumber ==
    ASSUME NEW T, T \subseteq Nat, T # {}
    PROVE  \E x \in T : \A y \in T : x <= y
<1>1. PICK x \in T : \A y \in T : ~ (<<y, x>> \in OpToRel(<, Nat))
  BY NatLessThanWellFounded, WFMin, Zenon
<1>2. ASSUME NEW y \in T, y < x PROVE FALSE
  <2>1. <<y, x>> \in OpToRel(<, Nat)
    BY <1>2 DEF OpToRel
  <2> QED BY <1>1, <2>1
<1>3. \A y \in T : x \in Nat /\ y \in Nat /\ ~ (y < x)
  BY <1>2
<1>4. \A y \in T : x <= y
  BY <1>3
<1> QED BY <1>4

\* And a greatest one, if there is a bound.
LEMMA GreatestNumber ==
    ASSUME NEW T, T \subseteq Int, T # {}, NEW bound \in Int, \A x \in T : x <= bound
    PROVE  \E x \in T : \A y \in T : y <= x
<1> DEFINE below == {bound - x : x \in T}
<1>1. below \subseteq Nat /\ below # {}
  <2>1. \A x \in T : bound - x \in Nat
    OBVIOUS
  <2>2. PICK x \in T : bound - x \in below
    OBVIOUS
  <2> QED BY <2>1, <2>2
<1>2. PICK least \in below : \A y \in below : least <= y
  <2> HIDE DEF below
  <2> QED BY <1>1, LeastNumber
<1>3. PICK x \in T : least = bound - x
  OBVIOUS
<1>4. ASSUME NEW y \in T PROVE y <= x
  <2>1. bound - y \in below
    OBVIOUS
  <2>2. bound - x <= bound - y
    BY <1>2, <1>3, <2>1
  <2> HIDE DEF below
  <2> QED BY <2>2
<1> QED BY <1>4

-----------------------------------------------------------------------------
(* ServiceTable, for any units and hosts. *)

TableTypeOK ==
    /\ services \subseteq ServiceHosts
    /\ registered \in [ServiceHosts -> Int]
    /\ removed \in [ServiceHosts -> Int]
    /\ reported \in [ServiceHosts -> Int]
    /\ DOMAIN action = Operated

\* What an action still has to remove are hosts, and a default name only if some
\* operator has named it.
TodoIsMeant ==
    \A u \in Operated : action[u].kind = "remove" =>
        /\ action[u].todo \subseteq ServiceHosts
        /\ action[u].todo \cap DefaultServices \subseteq named

TableInv == TableTypeOK /\ TodoIsMeant /\ RemovalsAreReported

LEMMA TableInitInv == TableInit => TableInv
<1> SUFFICES ASSUME TableInit PROVE TableInv OBVIOUS
<1>1. TableTypeOK BY DEF TableInit, TableTypeOK
<1>2. TodoIsMeant BY DEF TableInit, TodoIsMeant, NoAction
<1>3. RemovalsAreReported BY DEF TableInit, RemovalsAreReported
<1> QED BY <1>1, <1>2, <1>3 DEF TableInv

LEMMA BeginRemoveKeeps ==
    ASSUME TableInv, NEW u \in Operated, NEW machine \in ServiceHosts \cup {"unused"},
           BeginRemove(u, machine)
    PROVE  TableInv'
<1> USE DEF TableInv
<1>1. TableTypeOK' BY DEF TableTypeOK, BeginRemove
<1>2. TodoIsMeant'
  <2> SUFFICES ASSUME NEW w \in Operated, action'[w].kind = "remove"
               PROVE  /\ action'[w].todo \subseteq ServiceHosts
                      /\ action'[w].todo \cap DefaultServices \subseteq named'
      BY DEF TodoIsMeant
  <2>1. CASE w = u
    <3>1. action'[w].todo = ToRemove(machine) BY <2>1 DEF BeginRemove, TableTypeOK
    <3>2. named' = named \cup {machine} BY DEF BeginRemove
    <3> QED BY <3>1, <3>2 DEF ToRemove, TableTypeOK
  <2>2. CASE w # u
    <3>1. action'[w] = action[w] /\ named' = named \cup {machine}
          BY <2>2 DEF BeginRemove, TableTypeOK
    <3> QED BY <3>1 DEF TodoIsMeant
  <2> QED BY <2>1, <2>2
<1>3. RemovalsAreReported' BY DEF RemovalsAreReported, BeginRemove
<1> QED BY <1>1, <1>2, <1>3

LEMMA RemoveOneKeeps ==
    ASSUME TableInv, NEW u \in Operated, RemoveOne(u)
    PROVE  TableInv'
<1> USE DEF TableInv
<1>1. PICK h \in action[u].todo :
          /\ action' = [action EXCEPT ![u].todo = @ \ {h}]
          /\ services' = services \ {h}
          /\ removed' = [removed EXCEPT ![h] = IF h \in services \ services' THEN @ + 1 ELSE @]
          /\ reported' = [reported EXCEPT ![h] = IF Reports(h) THEN @ + 1 ELSE @]
          /\ UNCHANGED <<registered, named>>
      BY DEF RemoveOne
<1>2. action[u].kind = "remove" BY DEF RemoveOne
<1>3. h \in ServiceHosts /\ (h \in DefaultServices => h \in named)
      BY <1>1, <1>2 DEF TodoIsMeant
<1>4. TableTypeOK' BY <1>1, <1>3 DEF TableTypeOK
<1>5. TodoIsMeant'
  <2> SUFFICES ASSUME NEW w \in Operated, action'[w].kind = "remove"
               PROVE  /\ action'[w].todo \subseteq ServiceHosts
                      /\ action'[w].todo \cap DefaultServices \subseteq named'
      BY DEF TodoIsMeant
  <2>1. CASE w = u
    <3>1. action'[u] = [action[u] EXCEPT !.todo = @ \ {h}] BY <1>1 DEF TableTypeOK
    <3>2. action'[u].todo \subseteq action[u].todo
      <4>1. CASE "todo" \in DOMAIN action[u] BY <3>1, <4>1
      <4>2. CASE "todo" \notin DOMAIN action[u] BY <3>1, <4>2
      <4> QED BY <4>1, <4>2
    <3> QED BY <1>1, <1>2, <2>1, <3>2 DEF TodoIsMeant
  <2>2. CASE w # u
    <3>1. action'[w] = action[w] BY <1>1, <2>2 DEF TableTypeOK
    <3> QED BY <1>1, <3>1 DEF TodoIsMeant
  <2> QED BY <2>1, <2>2
<1>6. RemovalsAreReported'
  <2> SUFFICES ASSUME NEW g \in ServiceHosts
               PROVE  /\ reported'[g] = removed'[g]
                      /\ registered'[g] - removed'[g] = IF g \in services' THEN 1 ELSE 0
                      /\ g \in DefaultServices /\ g \notin named' => removed'[g] = 0
      BY DEF RemovalsAreReported
  <2>1. /\ reported[g] = removed[g]
        /\ registered[g] - removed[g] = IF g \in services THEN 1 ELSE 0
        /\ g \in DefaultServices /\ g \notin named => removed[g] = 0
        /\ registered[g] \in Int /\ removed[g] \in Int /\ reported[g] \in Int
      BY DEF RemovalsAreReported, TableTypeOK
  <2>2. CASE g = h
    <3>1. CASE h \in services
      <4>1. removed'[g] = removed[g] + 1 /\ reported'[g] = reported[g] + 1
            BY <1>1, <1>3, <2>2, <3>1 DEF Reports, TableTypeOK
      <4> QED BY <1>1, <1>3, <2>1, <2>2, <3>1, <4>1
    <3>2. CASE h \notin services
      <4>1. removed'[g] = removed[g] /\ reported'[g] = reported[g]
            BY <1>1, <1>3, <2>2, <3>2 DEF Reports, TableTypeOK
      <4> QED BY <1>1, <2>1, <2>2, <3>2, <4>1
    <3> QED BY <3>1, <3>2
  <2>3. CASE g # h
    <3>1. removed'[g] = removed[g] /\ reported'[g] = reported[g]
          BY <1>1, <2>3 DEF TableTypeOK
    <3> QED BY <1>1, <2>1, <2>3, <3>1
  <2> QED BY <2>2, <2>3
<1> QED BY <1>4, <1>5, <1>6

\* The steps that neither remove nor register anything.
LEMMA OthersKeep ==
    ASSUME TableInv, NEW u \in Operated,
           UNCHANGED <<services, registered, removed, reported, named>>,
           DOMAIN action' = Operated,
           \A w \in Operated \ {u} : action'[w] = action[w],
           action'[u] = action[u] \/ action'[u].kind # "remove"
    PROVE  TableInv'
<1>1. TableTypeOK' BY DEF TableTypeOK, TableInv
<1>2. TodoIsMeant'
  <2> SUFFICES ASSUME NEW w \in Operated, action'[w].kind = "remove"
               PROVE  /\ action'[w].todo \subseteq ServiceHosts
                      /\ action'[w].todo \cap DefaultServices \subseteq named'
      BY DEF TodoIsMeant
  <2>1. action'[w] = action[w] OBVIOUS
  <2> QED BY <2>1 DEF TodoIsMeant, TableInv
<1>3. RemovalsAreReported' BY DEF RemovalsAreReported, TableInv
<1> QED BY <1>1, <1>2, <1>3 DEF TableInv

LEMMA RegistersKeeps ==
    ASSUME TableInv, NEW h \in ServiceHosts, Registers(h)
    PROVE  TableInv'
<1> USE DEF TableInv
<1>1. TableTypeOK' BY DEF TableTypeOK, Registers
<1>2. TodoIsMeant' BY DEF TodoIsMeant, Registers
<1>3. RemovalsAreReported'
  <2> SUFFICES ASSUME NEW g \in ServiceHosts
               PROVE  /\ reported'[g] = removed'[g]
                      /\ registered'[g] - removed'[g] = IF g \in services' THEN 1 ELSE 0
                      /\ g \in DefaultServices /\ g \notin named' => removed'[g] = 0
      BY DEF RemovalsAreReported
  <2>1. registered[g] \in Int /\ removed[g] \in Int BY DEF TableTypeOK
  <2>2. registered'[g] = IF g = h THEN registered[g] + 1 ELSE registered[g]
        BY DEF Registers, TableTypeOK
  <2> QED BY <2>1, <2>2 DEF Registers, RemovalsAreReported
<1> QED BY <1>1, <1>2, <1>3

LEMMA NextKeeps == TableInv /\ [TableNext]_tableVars => TableInv'
<1> SUFFICES ASSUME TableInv, [TableNext]_tableVars PROVE TableInv' OBVIOUS
<1>1. ASSUME NEW u \in Operated, NEW machine \in ServiceHosts \cup {"unused"}, BeginRemove(u, machine)
      PROVE  TableInv'
      BY <1>1, BeginRemoveKeeps
<1>2. ASSUME NEW u \in Operated, RemoveOne(u) PROVE TableInv'
      BY <1>2, RemoveOneKeeps
<1>3. ASSUME NEW u \in Operated, EndsRemove(u) PROVE TableInv'
  <2>1. /\ UNCHANGED <<services, registered, removed, reported, named>>
        /\ DOMAIN action' = Operated
        /\ \A w \in Operated \ {u} : action'[w] = action[w]
        /\ action'[u].kind # "remove"
        BY <1>3 DEF EndsRemove, history, NoAction, TableTypeOK, TableInv
  <2> QED BY <2>1, OthersKeep
<1>4. ASSUME NEW u \in Operated, NEW c, NEW n, BeginRename(u, c, n) PROVE TableInv'
  <2>1. /\ UNCHANGED <<services, registered, removed, reported, named>>
        /\ DOMAIN action' = Operated
        /\ \A w \in Operated \ {u} : action'[w] = action[w]
        /\ action'[u] = action[u] \/ action'[u].kind # "remove"
        BY <1>4 DEF BeginRename, history, TableTypeOK, TableInv
  <2> QED BY <2>1, OthersKeep
<1>5. ASSUME NEW u \in Operated, UpdateHost(u) PROVE TableInv'
  <2>1. /\ UNCHANGED <<services, registered, removed, reported, named>>
        /\ DOMAIN action' = Operated
        /\ \A w \in Operated \ {u} : action'[w] = action[w]
        /\ action'[u].kind # "remove"
        BY <1>5 DEF UpdateHost, history, NoAction, TableTypeOK, TableInv
  <2> QED BY <2>1, OthersKeep
<1>6. ASSUME NEW h \in ServiceHosts, Registers(h) PROVE TableInv'
      BY <1>6, RegistersKeeps
<1>7. CASE UNCHANGED tableVars
      BY <1>7 DEF tableVars, TableInv, TableTypeOK, TodoIsMeant, RemovalsAreReported
<1> QED BY <1>1, <1>2, <1>3, <1>4, <1>5, <1>6, <1>7 DEF TableNext

\* Two operators who clean the table up at once are told the truth, on any number of
\* units and for any hosts: remove_services reports what it has removed.
THEOREM OperatorsAreToldTheTruth == TableSpec => []RemovalsAreReported
<1>1. TableInv => RemovalsAreReported BY DEF TableInv
<1> QED BY TableInitInv, NextKeeps, <1>1, PTL DEF TableSpec

-----------------------------------------------------------------------------
(* ServiceRoles, for any values of enabled-services and whatever the packages
   map of a subordinate says. *)

\* What makes the property inductive.  Only a pause stops a service, and it masks
\* what it stops: what is installed and not masked runs.  What is masked belongs to
\* the unit or has left it since, and on a paused unit what has not joined since
\* the pause is masked.
MaskInv ==
    /\ present \ maskedUnits \subseteq running
    /\ maskedUnits \subseteq dropped \cup Managed
    /\ ~unitPaused => maskedUnits \subseteq dropped
    /\ unitPaused => Managed \ newcomers \subseteq maskedUnits \ running

\* The packages of a unit without a subordinate are those of its services.
LEMMA PackagesAreManaged ==
    ASSUME backup = FALSE PROVE DeterminePackages \subseteq Managed
<1>1. SubordinatePackages.install = {}
  BY DEF SubordinatePackages
<1>2. ASSUME NEW s \in DeterminePackages
      PROVE  \E f \in DOMAIN FilesOf \cup {"memcached"} : s \in RestartMapOf[f]
  <2>1. CASE s = "memcached"
    BY <2>1 DEF RestartMapOf, FilesOf
  <2>2. CASE s \in {"cinder-volume", "cinder-scheduler"} /\ ServiceEnabled(RoleOf[s])
    <3>1. s \in FilterServices(FilesOf.conf)
      BY <2>2, <1>2 DEF FilterServices, FilesOf
    <3>2. s \in InApache(FilterServices(FilesOf.conf))
      BY <2>2, <3>1 DEF InApache
    <3> QED BY <3>2 DEF RestartMapOf, FilesOf
  <2>3. CASE s \in {"haproxy", "apache2"} /\ ServiceEnabled("api")
    <3>1. s = "haproxy" => s \in InApache(FilterServices(FilesOf.haproxy))
      BY <2>3 DEF FilterServices, FilesOf, InApache, RoleOf, UnitServices
    <3>2. s = "apache2" => s \in InApache(FilterServices(FilesOf.site))
      BY <2>3 DEF FilterServices, FilesOf, InApache, RoleOf, UnitServices
    <3> QED BY <2>3, <3>1, <3>2 DEF RestartMapOf, FilesOf
  <2>4. CASE s = "cinder-api" /\ ServiceEnabled("api") /\ ~RunInApache
    <3>1. s \in InApache(FilterServices(FilesOf.paste))
      BY <2>4 DEF FilterServices, FilesOf, InApache, RoleOf, UnitServices
    <3> QED BY <3>1 DEF RestartMapOf, FilesOf
  <2> QED BY <1>1, <1>2, <2>1, <2>2, <2>3, <2>4 DEF DeterminePackages
<1>3. DOMAIN RestartMapOf = DOMAIN FilesOf \cup {"memcached"}
  BY DEF RestartMapOf
<1>4. \A s : (\E f \in DOMAIN RestartMapOf : s \in RestartMapOf[f]) => s \in Managed
  BY DEF Managed
<1> QED BY <1>2, <1>3, <1>4

\* Which services a unit has follows from its inputs.
LEMMA ManagedFollowsInputs ==
    ASSUME UNCHANGED inputs PROVE Managed' = Managed
  BY DEF inputs, Managed, RestartMapOf, FilesOf, InApache, RunInApache,
         FilterServices, ServiceEnabled

\* Every hook and action keeps masks, services and their history together.
LEMMA MasksAreKept ==
    ASSUME MaskInv, [RolesNext]_rolesVars PROVE MaskInv'
<1> USE DEF MaskInv
<1>1. CASE RolesConfigChanged
  <2>1. Managed' = Managed
    BY <1>1, ManagedFollowsInputs DEF RolesConfigChanged
  <2>2. running \subseteq running' /\ (unitPaused => running' = running)
    BY <1>1 DEF RolesConfigChanged
  <2> QED BY <1>1, <2>1, <2>2 DEF RolesConfigChanged, packages
<1>2. CASE RolesUpgradeCharm
  <2>1. Managed' = Managed
    BY <1>2, ManagedFollowsInputs DEF RolesUpgradeCharm
  <2>2. /\ running \subseteq running'
        /\ (present' \ present) \ maskedUnits \subseteq running'
        /\ running' \cap maskedUnits \subseteq running
    BY <1>2 DEF RolesUpgradeCharm, CanStart
  <2> QED BY <1>2, <2>1, <2>2 DEF RolesUpgradeCharm
<1>3. CASE PauseRoles
  <2>1. Managed' = Managed
    BY <1>3, ManagedFollowsInputs DEF PauseRoles
  <2> QED BY <1>3, <2>1 DEF PauseRoles, packages
<1>4. CASE ResumeRoles
  <2>1. Managed' = Managed
    BY <1>4, ManagedFollowsInputs DEF ResumeRoles
  <2> QED BY <1>4, <2>1 DEF ResumeRoles, ToResume, packages
<1>5. CASE RelateBackup
  BY <1>5 DEF RelateBackup, Follow
<1>6. ASSUME NEW E \in EnabledChoices, ChangeEnabled(E) PROVE MaskInv'
  BY <1>6 DEF ChangeEnabled, Follow, packages
<1>7. CASE UNCHANGED rolesVars
  <2>1. Managed' = Managed
    BY <1>7, ManagedFollowsInputs DEF rolesVars, inputs
  <2> QED BY <1>7, <2>1 DEF rolesVars
<1> QED BY <1>1, <1>2, <1>3, <1>4, <1>5, <1>6, <1>7 DEF RolesNext

\* On a paused unit only services run that joined it since, and on another all that
\* are installed run, but those that left in a pause and came back after it.
THEOREM PauseReachesAll == RolesSpec => []PauseReachesServices
<1>1. RolesInit => MaskInv
  BY PackagesAreManaged DEF RolesInit, MaskInv
<1>2. MaskInv /\ [RolesNext]_rolesVars => MaskInv'
  BY MasksAreKept
<1>3. MaskInv => PauseReachesServices
  BY DEF MaskInv, PauseReachesServices
<1> QED BY <1>1, <1>2, <1>3, PTL DEF RolesSpec

-----------------------------------------------------------------------------
(* ApiFrontend, on a cluster of any size. *)

FrontTypeOK ==
    /\ port \in FrontPorts
    /\ sslSet \in BOOLEAN /\ apiInApache \in BOOLEAN
    /\ members \subseteq ApiUnits /\ delivered \subseteq ApiUnits
    /\ DOMAIN confFile = ApiUnits /\ confFile = [u \in ApiUnits |-> confFile[u]]
    /\ DOMAIN wsgiFile = ApiUnits /\ wsgiFile = [u \in ApiUnits |-> wsgiFile[u]]
    /\ DOMAIN siteFile = ApiUnits /\ siteFile = [u \in ApiUnits |-> siteFile[u]]
    /\ DOMAIN front = ApiUnits /\ front = [u \in ApiUnits |-> front[u]]
    /\ DOMAIN owedHooks = ApiUnits /\ owedHooks = [u \in ApiUnits |-> owedHooks[u]]

\* The four files of a unit are those of the options and relations of now.
FilesAreCurrent(u) ==
    /\ confFile[u] = ApiPort(u, port)
    /\ front[u] = FrontContext(u)
    /\ siteFile[u] = SiteContext(u)
    /\ wsgiFile[u] = IF apiInApache THEN ApiPort(u, port) ELSE NoPort

\* Whatever takes a file from being current owes the unit a hook that writes all
\* four, or is remembered in lagging.
FilesAreFollowed ==
    \A u \in members \ lagging : owedHooks[u] = {} => FilesAreCurrent(u)

FrontInv == FrontTypeOK /\ FilesAreFollowed

LEMMA FrontInitInv == FrontInit => FrontInv
<1> SUFFICES ASSUME FrontInit PROVE FrontInv
  OBVIOUS
<1>1. members \subseteq ApiUnits
  <2>1. PICK u \in ApiUnits : TRUE
    BY ApiFrontendAssumption
  <2>2. (CHOOSE w \in ApiUnits : TRUE) \in ApiUnits
    BY <2>1
  <2> QED BY <2>2 DEF FrontInit
<1>2. FrontTypeOK
  BY <1>1 DEF FrontInit, FrontTypeOK
<1> QED BY <1>1, <1>2 DEF FrontInit, FrontInv, FilesAreFollowed

\* What a file should be depends on the options and relations alone.
LEMMA CurrentFollows ==
    ASSUME NEW u, FilesAreCurrent(u),
           port' = port, members' = members, apiInApache' = apiInApache,
           FrontHttps(u)' = FrontHttps(u),
           confFile'[u] = confFile[u], front'[u] = front[u],
           siteFile'[u] = siteFile[u], wsgiFile'[u] = wsgiFile[u]
    PROVE  FilesAreCurrent(u)'
BY DEF FilesAreCurrent, ApiPort, ApachePort, FrontContext, FrontBackends, SiteContext

LEMMA FrontNextInv == FrontInv /\ [FrontNext]_frontVars => FrontInv'
<1> SUFFICES ASSUME FrontInv, [FrontNext]_frontVars PROVE FrontInv'
  OBVIOUS
<1> USE DEF FrontInv, FrontTypeOK, FilesAreFollowed
<1>1. ASSUME NEW p \in FrontPorts, NEW s \in BOOLEAN, SetFront(p, s) PROVE FrontInv'
  BY <1>1 DEF SetFront, Owes, frontFiles
<1>2. ASSUME NEW u \in ApiUnits, Deliver(u) PROVE FrontInv'
  <2>1. FrontTypeOK'
    BY <1>2 DEF Deliver, Owes, frontFiles
  <2>2. ASSUME NEW w \in members' \ lagging', owedHooks'[w] = {} PROVE FilesAreCurrent(w)'
    <3>1. w # u /\ owedHooks[w] = {}
      BY <1>2, <2>2 DEF Deliver, Owes
    <3>2. FilesAreCurrent(w) /\ FrontHttps(w)' = FrontHttps(w)
      BY <1>2, <2>2, <3>1 DEF Deliver, FrontHttps
    <3> QED BY <1>2, <3>2, CurrentFollows DEF Deliver, frontFiles
  <2> QED BY <2>1, <2>2
<1>3. CASE BreakCertificates
  <2>1. FrontTypeOK'
    BY <1>3 DEF BreakCertificates, frontFiles
  <2>2. ASSUME NEW w \in members' \ lagging', owedHooks'[w] = {} PROVE FilesAreCurrent(w)'
    <3>1. FilesAreCurrent(w) /\ FrontHttps(w)' = FrontHttps(w)
      BY <1>3, <2>2 DEF BreakCertificates, FrontHttps
    <3> QED BY <1>3, <3>1, CurrentFollows DEF BreakCertificates, frontFiles
  <2> QED BY <2>1, <2>2
<1>4. ASSUME NEW u \in ApiUnits, PeerComes(u) PROVE FrontInv'
  BY <1>4 DEF PeerComes, frontFiles
<1>5. ASSUME NEW u \in ApiUnits, PeerGoes(u) PROVE FrontInv'
  BY <1>5 DEF PeerGoes, frontFiles
<1>6. ASSUME NEW u \in ApiUnits, WritesConf(u) PROVE FrontInv'
  <2>1. FrontTypeOK'
    BY <1>6 DEF WritesConf, choices
  <2>2. ASSUME NEW w \in members' \ lagging', owedHooks'[w] = {} PROVE FilesAreCurrent(w)'
    <3>1. FilesAreCurrent(w) /\ FrontHttps(w)' = FrontHttps(w)
      BY <1>6, <2>2 DEF WritesConf, choices, FrontHttps
    <3>2. confFile'[w] = confFile[w]
      BY <1>6, <2>2, <3>1 DEF WritesConf, choices, FilesAreCurrent
    <3> QED BY <1>6, <3>1, <3>2, CurrentFollows DEF WritesConf, choices
  <2> QED BY <2>1, <2>2
<1>7. ASSUME NEW u \in ApiUnits, FrontPause(u) PROVE FrontInv'
  <2>1. FrontTypeOK'
    BY <1>7 DEF FrontPause, choices, frontFiles
  <2>2. ASSUME NEW w \in members' \ lagging', owedHooks'[w] = {} PROVE FilesAreCurrent(w)'
    <3>1. FilesAreCurrent(w) /\ FrontHttps(w)' = FrontHttps(w)
      BY <1>7, <2>2 DEF FrontPause, choices, FrontHttps
    <3> QED BY <1>7, <3>1, CurrentFollows DEF FrontPause, choices, frontFiles
  <2> QED BY <2>1, <2>2
<1>8. ASSUME NEW u \in ApiUnits, NEW h \in FrontHooks, WritingHook(u, h) PROVE FrontInv'
  <2>1. FrontTypeOK'
    BY <1>8 DEF WritingHook, WritesAll, choices, frontFiles
  <2>2. ASSUME NEW w \in members' \ lagging', owedHooks'[w] = {} PROVE FilesAreCurrent(w)'
    <3>1. CASE w = u
      <4>1. WritesAll(u)
        BY <1>8, <2>2, <3>1 DEF WritingHook
      <4> QED BY <1>8, <2>2, <3>1, <4>1
              DEF WritingHook, WritesAll, choices, FilesAreCurrent, ApiPort, ApachePort,
                  FrontContext, FrontBackends, SiteContext, FrontHttps
    <3>2. CASE w # u
      <4>1. FilesAreCurrent(w) /\ FrontHttps(w)' = FrontHttps(w)
        BY <1>8, <2>2, <3>2 DEF WritingHook, choices, FrontHttps
      <4>2. /\ confFile'[w] = confFile[w] /\ front'[w] = front[w]
            /\ siteFile'[w] = siteFile[w] /\ wsgiFile'[w] = wsgiFile[w]
        BY <1>8, <3>2 DEF WritingHook, WritesAll, choices, frontFiles
      <4> QED BY <1>8, <4>1, <4>2, CurrentFollows DEF WritingHook, choices
    <3> QED BY <3>1, <3>2
  <2> QED BY <2>1, <2>2
<1>9. CASE UNCHANGED frontVars
  <2>1. FrontTypeOK'
    BY <1>9 DEF frontVars
  <2>2. ASSUME NEW w \in members' \ lagging', owedHooks'[w] = {} PROVE FilesAreCurrent(w)'
    <3>1. FilesAreCurrent(w) /\ FrontHttps(w)' = FrontHttps(w)
      BY <1>9, <2>2 DEF frontVars, FrontHttps
    <3> QED BY <1>9, <3>1, CurrentFollows DEF frontVars
  <2> QED BY <2>1, <2>2
<1> QED BY <1>1, <1>2, <1>3, <1>4, <1>5, <1>6, <1>7, <1>8, <1>9 DEF FrontNext

\* The ports of files that are current fit together, within a unit and from one
\* unit to another.
LEMMA PortsFit ==
    ASSUME FrontTypeOK, NEW u \in members, NEW w \in members, FilesAreCurrent(u), FilesAreCurrent(w),
           port = ExternalPort \/ ~FrontHttps(w)
    PROVE  WayOpen(u, w) /\ front[u].backends \subseteq members
<1>1. port \in Nat \ {0}
  BY ApiFrontendAssumption DEF FrontTypeOK
<1>2. ApiListens(w) = ApiPort(w, port)
  BY DEF ApiListens, FilesAreCurrent
<1>3. /\ front[u].bind = port /\ front[u].to = ApachePort(port)
      /\ front[u].backends = members /\ front[u].tls = FrontHttps(u)
      /\ front[w].bind = port
  BY DEF FilesAreCurrent, FrontContext, FrontBackends
<1>. FrontHttps(u) \in BOOLEAN /\ FrontHttps(w) \in BOOLEAN
  BY DEF FrontHttps
<1>4. CASE FrontHttps(w)
  <2>1. siteFile[w] # NoSite /\ siteFile[w].listen = ApachePort(port)
        /\ siteFile[w].to = ApiPort(w, port) /\ port = 8776
    BY <1>4 DEF FilesAreCurrent, SiteContext, NoSite, NoPort, ApachePort, ExternalPort
  <2>2. ApachePort(port) = 8766 /\ ApiPort(w, port) = 8756
    BY <1>4, <2>1 DEF ApiPort, ApachePort
  <2>3. ApiListens(w) = 8756 /\ siteFile[w].listen = 8766 /\ siteFile[w].to = 8756
    BY <1>2, <2>1, <2>2
  <2>4. front[u].bind = port /\ front[w].bind = 8776 /\ front[u].to = 8766
    BY <1>3, <2>1, <2>2
  <2>5. ASSUME FrontHttps(u) = FrontHttps(w) PROVE front[u].tls = (siteFile[w] # NoSite)
    <3>1. FrontHttps(u) = TRUE
      BY <1>4, <2>5
    <3>2. (siteFile[w] # NoSite) = TRUE
      BY <2>1
    <3>3. front[u].tls = TRUE
      BY <1>3, <3>1
    <3> QED BY <3>2, <3>3
  <2>6. w \in front[u].backends /\ front[u].backends \subseteq members
    BY <1>3
  <2> QED BY <2>1, <2>3, <2>4, <2>5, <2>6 DEF WayOpen
<1>5. CASE ~FrontHttps(w)
  <2>1. siteFile[w] = NoSite
    BY <1>5 DEF FilesAreCurrent, SiteContext
  <2>2. ApiPort(w, port) = port - 10 /\ ApachePort(port) = port - 10
    BY <1>1, <1>5 DEF ApiPort, ApachePort
  <2>3. siteFile[w].listen = 0
    BY <2>1 DEF NoSite, NoPort
  <2>4. port \notin {port - 10, 0}
    BY <1>1
  <2> QED BY <1>2, <1>3, <1>5, <2>1, <2>2, <2>3, <2>4 DEF WayOpen
<1> QED BY <1>4, <1>5

\* Any two units of a cluster that have run their hooks reach the api of each other.
THEOREM TheWayIsOpen == FrontSpec => []ChainIsClosed
<1>1. FrontInv => ChainIsClosed
  BY PortsFit DEF FrontInv, FilesAreFollowed, ChainIsClosed
<1> QED BY <1>1, FrontInitInv, FrontNextInv, PTL DEF FrontSpec

-----------------------------------------------------------------------------
(* RbdStorage, for any number of versions of the data. *)

RbdTypeOK ==
    /\ tmpMounted \in BOOLEAN /\ inPlace \in BOOLEAN /\ fstab \in BOOLEAN
    /\ serviceUp \in BOOLEAN /\ mishap \in BOOLEAN

\* The function is between the look at the mount and the mount.
Moving == rbdStep \in {"mkfs", "stop", "tmp", "copy", "umount", "mount"}

\* Why nothing is lost: no service runs while data are copied, the copy is to the
\* device, and it is whole when the device replaces the directory.
MoveIsSafe ==
    /\ Visible = newest
    /\ inPlace => ~tmpMounted /\ fstab
    /\ Moving => ~inPlace
    /\ rbdStep \in {"tmp", "copy", "umount", "mount"} => ~serviceUp
    /\ rbdStep \in {"stop", "tmp", "mount", "start"} => ~tmpMounted
    /\ rbdStep \in {"copy", "umount"} => tmpMounted
    /\ rbdStep \in {"umount", "mount"} => device = directory

RbdInv == RbdTypeOK /\ (~mishap => MoveIsSafe)

LEMMA RbdInitInv == RbdInit => RbdInv
BY DEF RbdInit, RbdInv, RbdTypeOK, MoveIsSafe, Moving, Visible

LEMMA RbdNextInv == RbdInv /\ [RbdNext]_rbdVars => RbdInv'
<1> SUFFICES ASSUME RbdInv, [RbdNext]_rbdVars PROVE RbdInv' OBVIOUS
<1> USE DEF RbdInv, RbdTypeOK, MoveIsSafe, Moving, Visible, ceph
<1>1. CASE EnsureCephStorage BY <1>1 DEF EnsureCephStorage
<1>2. CASE EnsurePool BY <1>2 DEF EnsurePool
<1>3. CASE EnsureImage BY <1>3 DEF EnsureImage
<1>4. CASE MapImage BY <1>4 DEF MapImage, AfterMapping
<1>5. CASE MakeFilesystem BY <1>5 DEF MakeFilesystem
<1>6. CASE StopServices BY <1>6 DEF StopServices, StopsServices
<1>7. CASE MountTmp BY <1>7 DEF MountTmp
<1>8. CASE CopyData BY <1>8 DEF CopyData
<1>9. CASE UmountTmp BY <1>9 DEF UmountTmp
<1>10. CASE MountInPlace BY <1>10 DEF MountInPlace
<1>11. CASE StartServices BY <1>11 DEF StartServices
<1>12. CASE RbdCommandFails BY <1>12 DEF RbdCommandFails
<1>13. CASE ServiceWrites BY <1>13 DEF ServiceWrites
<1>14. CASE OperatorStarts BY <1>14 DEF OperatorStarts
<1>15. CASE Reboot BY <1>15 DEF Reboot
<1>16. CASE UNCHANGED rbdVars BY <1>16 DEF rbdVars
<1> QED BY <1>1, <1>2, <1>3, <1>4, <1>5, <1>6, <1>7, <1>8, <1>9, <1>10, <1>11,
           <1>12, <1>13, <1>14, <1>15, <1>16 DEF RbdNext

\* ensure_ceph_storage loses no data, wherever it is interrupted, however often it
\* runs and whatever services write: unless a service does not stop or a mount fails,
\* of which the function takes no notice, or the machine reboots.
THEOREM TheMoveKeepsData == RbdSpec => []MoveKeepsData
<1>1. RbdInv => MoveKeepsData BY DEF RbdInv, MoveIsSafe, MoveKeepsData
<1> QED BY RbdInitInv, RbdNextInv, <1>1, PTL DEF RbdSpec

-----------------------------------------------------------------------------
(* Contexts, for any number of units of the other application. *)

FirstOf(units) == CHOOSE u \in units : \A v \in units : u <= v
LastOf(units)   == CHOOSE u \in units : \A v \in units : v <= u

\* What the loop of a class has made of the units up to n, without the loop: of each
\* key what the last unit with the key gives.
Through(n)         == {u \in joined : u <= n}
Givers(dict, n, k) == {u \in Through(n) : k \in DOMAIN dict[u]}
GivenKeys(dict, n)  == UNION {DOMAIN dict[u] : u \in Through(n)}
Gathered(dict, n)   == [k \in GivenKeys(dict, n) |-> dict[LastOf(Givers(dict, n, k))][k]]

\* The units with which the dictionary is complete; the first ends the loop.
Enough(dict) == {u \in joined : MissingOf(Gathered(dict, u)) = {}}

LastRead(dict, n) ==
    IF Enough(dict) \cap Through(n) = {} THEN LastOf(Through(n))
    ELSE FirstOf(Enough(dict) \cap Through(n))

Read(dict, n) ==
    IF Through(n) = {} THEN Nothing
    ELSE Judged(LastRead(dict, n), Gathered(dict, LastRead(dict, n)))

AreDictionaries(dict) == \A u \in Units : dict[u] = [k \in DOMAIN dict[u] |-> dict[u][k]]

LEMMA UnitsAreNumbers ==
    ContextsAssumption /\ joined \subseteq Units
        => MaxUnits \in Nat /\ Units \subseteq Int /\ joined \subseteq Int /\ \A u \in Units : 1 <= u
BY DEF ContextsAssumption, Units

\* The units before a unit and itself.
LEMMA ThroughGrows ==
    ASSUME ContextsAssumption, joined \subseteq Units, NEW n \in Units
    PROVE  /\ n \in joined => Through(n) = Through(n - 1) \cup {n}
           /\ n \notin joined => Through(n) = Through(n - 1)
           /\ \A m \in Units : m \in Through(n - 1) => m < n
<1>1. joined \subseteq Int /\ n \in Int
  BY UnitsAreNumbers
<1>2. \A u \in joined : u <= n <=> u = n \/ u <= n - 1
  BY <1>1
<1>3. \A u \in joined : u <= n - 1 => u < n
  BY <1>1
<1> QED BY <1>2, <1>3 DEF Through

LEMMA Extremes ==
    ASSUME ContextsAssumption, joined \subseteq Units, NEW S, S \subseteq joined, S # {}
    PROVE  /\ LastOf(S) \in S /\ \A v \in S : v <= LastOf(S)
           /\ FirstOf(S) \in S /\ \A v \in S : FirstOf(S) <= v
<1>1. S \subseteq Nat /\ S \subseteq Int /\ MaxUnits \in Int /\ \A v \in S : v <= MaxUnits
  BY DEF ContextsAssumption, Units
<1>2. \E u \in S : \A v \in S : v <= u
  BY <1>1, GreatestNumber
<1>3. \E u \in S : \A v \in S : u <= v
  BY <1>1, LeastNumber
<1> QED BY <1>2, <1>3 DEF LastOf, FirstOf

\* What a unit gives itself goes before what others give.
LEMMA OwnIsGathered ==
    ASSUME ContextsAssumption, joined \subseteq Units, NEW dict, NEW u \in joined,
           NEW k \in DOMAIN dict[u]
    PROVE  k \in GivenKeys(dict, u) /\ Gathered(dict, u)[k] = dict[u][k]
<1>1. u \in Through(u) /\ u \in Givers(dict, u, k) /\ Givers(dict, u, k) \subseteq joined
  BY DEF Through, Givers, Units, ContextsAssumption
<1>2. LastOf(Givers(dict, u, k)) = u
  <2>1. /\ LastOf(Givers(dict, u, k)) \in Givers(dict, u, k)
        /\ u <= LastOf(Givers(dict, u, k))
    BY <1>1, Extremes
  <2>2. LastOf(Givers(dict, u, k)) <= u /\ LastOf(Givers(dict, u, k)) \in Int /\ u \in Int
    BY <2>1, UnitsAreNumbers DEF Givers, Through
  <2> QED BY <2>1, <2>2
<1> QED BY <1>1, <1>2 DEF GivenKeys, Gathered

\* Each key is given by some unit that has been read, after which none gives it.
LEMMA GatheredIsGiven ==
    ASSUME ContextsAssumption, joined \subseteq Units, NEW dict, NEW n \in Units,
           NEW k \in GivenKeys(dict, n)
    PROVE  \E v \in Through(n) : /\ k \in DOMAIN dict[v] /\ Gathered(dict, n)[k] = dict[v][k]
                                 /\ \A w \in Through(n) : k \in DOMAIN dict[w] => w <= v
<1> DEFINE v == LastOf(Givers(dict, n, k))
<1>1. Givers(dict, n, k) # {} /\ Givers(dict, n, k) \subseteq joined
  BY DEF GivenKeys, Givers, Through
<1>2. v \in Givers(dict, n, k) /\ \A w \in Givers(dict, n, k) : w <= v
  BY <1>1, Extremes
<1>3. Gathered(dict, n)[k] = dict[v][k]
  BY DEF Gathered
<1> HIDE DEF v
<1> QED BY <1>2, <1>3 DEF Givers

\* One more unit.
LEMMA OneMore ==
    ASSUME ContextsAssumption, joined \subseteq Units, NEW dict, AreDictionaries(dict),
           NEW n \in joined
    PROVE  Gathered(dict, n) =
              Updated(IF Through(n - 1) = {} THEN <<>>
                      ELSE Gathered(dict, LastOf(Through(n - 1))), dict[n])
<1> USE DEF ContextsAssumption
<1>1. Through(n) = Through(n - 1) \cup {n}
  BY ThroughGrows
<1>2. \A k \in DOMAIN dict[n] : k \in GivenKeys(dict, n) /\ Gathered(dict, n)[k] = dict[n][k]
  BY OwnIsGathered
<1>3. CASE Through(n - 1) = {}
  <2>1. GivenKeys(dict, n) = DOMAIN dict[n]
    BY <1>1, <1>3 DEF GivenKeys
  <2>2. Gathered(dict, n) = [k \in DOMAIN dict[n] |-> dict[n][k]]
    <3>1. Gathered(dict, n) = [k \in DOMAIN dict[n] |-> Gathered(dict, n)[k]]
      BY <2>1 DEF Gathered
    <3> QED BY <3>1, <1>2
  <2>3. Updated(<<>>, dict[n]) = [k \in DOMAIN dict[n] |-> dict[n][k]]
    BY DEF Updated
  <2> QED BY <1>3, <2>2, <2>3
<1>4. CASE Through(n - 1) # {}
  <2> DEFINE m == LastOf(Through(n - 1))
  <2>1. m \in Through(n - 1) /\ \A v \in Through(n - 1) : v <= m
    BY <1>4, Extremes DEF Through
  <2> HIDE DEF m
  <2>2. Through(m) = Through(n - 1) /\ m \in Units
    <3>1. m \in joined /\ m \in Units /\ m \in Int /\ n \in Int /\ m <= n - 1 /\ joined \subseteq Int
      BY <2>1, UnitsAreNumbers DEF Through
    <3>2. \A u \in joined : u <= m <=> u <= n - 1
      BY <2>1, <3>1 DEF Through
    <3> QED BY <3>1, <3>2 DEF Through
  <2>3. GivenKeys(dict, n) = GivenKeys(dict, m) \cup DOMAIN dict[n]
    BY <1>1, <2>2 DEF GivenKeys
  <2>4. ASSUME NEW k \in GivenKeys(dict, m), k \notin DOMAIN dict[n]
        PROVE  Gathered(dict, n)[k] = Gathered(dict, m)[k]
    <3>1. Givers(dict, n, k) = Givers(dict, m, k)
      BY <1>1, <2>2, <2>4 DEF Givers
    <3> QED BY <2>3, <2>4, <3>1 DEF Gathered
  <2>5. DOMAIN Gathered(dict, m) = GivenKeys(dict, m)
    BY DEF Gathered
  <2>6. Gathered(dict, n) = [k \in GivenKeys(dict, m) \cup DOMAIN dict[n] |-> Gathered(dict, n)[k]]
    BY <2>3 DEF Gathered
  <2>7. Updated(Gathered(dict, m), dict[n]) =
           [k \in GivenKeys(dict, m) \cup DOMAIN dict[n] |->
               IF k \in DOMAIN dict[n] THEN dict[n][k] ELSE Gathered(dict, m)[k]]
    BY <2>5 DEF Updated
  <2> HIDE DEF m
  <2>8. Gathered(dict, n) = Updated(Gathered(dict, m), dict[n])
    BY <1>2, <2>4, <2>6, <2>7
  <2> QED BY <1>4, <2>8 DEF m
<1> QED BY <1>3, <1>4

LEMMA ReadIsTheLoop ==
    ASSUME ContextsAssumption, joined \subseteq Units, NEW dict, AreDictionaries(dict),
           NEW n \in Units
    PROVE  Read(dict, n) =
              IF Read(dict, n - 1).complete \/ n \notin joined THEN Read(dict, n - 1)
              ELSE Judged(n, Updated(Read(dict, n - 1).ctxt, dict[n]))
<1> USE DEF ContextsAssumption
<1>1. CASE n \notin joined
  <2>1. Through(n) = Through(n - 1)
    BY <1>1, ThroughGrows
  <2> QED BY <1>1, <2>1 DEF Read, LastRead
<1>2. CASE n \in joined /\ Enough(dict) \cap Through(n - 1) # {}
  <2> DEFINE e == FirstOf(Enough(dict) \cap Through(n - 1))
             f == FirstOf(Enough(dict) \cap Through(n))
  <2>1. Through(n) = Through(n - 1) \cup {n}
    BY <1>2, ThroughGrows
  <2>2. /\ e \in Enough(dict) \cap Through(n - 1)
        /\ \A v \in Enough(dict) \cap Through(n - 1) : e <= v
    BY <1>2, Extremes DEF Enough
  <2>3. /\ f \in Enough(dict) \cap Through(n)
        /\ \A v \in Enough(dict) \cap Through(n) : f <= v
    BY <1>2, <2>1, Extremes DEF Enough
  <2>4. e \in Int /\ f \in Int /\ n \in Int /\ e <= n - 1
    <3>1. joined \subseteq Int /\ n \in Int /\ e \in joined /\ f \in joined /\ e <= n - 1
      BY <2>2, <2>3, UnitsAreNumbers DEF Through
    <3> QED BY <3>1
  <2> HIDE DEF e, f
  <2>5. e = f
    BY <2>1, <2>2, <2>3, <2>4
  <2>6. Read(dict, n) = Judged(f, Gathered(dict, f)) /\ Read(dict, n - 1) = Judged(e, Gathered(dict, e))
    BY <1>2, <2>1 DEF Read, LastRead, e, f
  <2>7. Judged(e, Gathered(dict, e)).complete
    BY <2>2 DEF Judged, Enough
  <2> QED BY <2>5, <2>6, <2>7
<1>3. CASE n \in joined /\ Enough(dict) \cap Through(n - 1) = {}
  <2>1. Through(n) = Through(n - 1) \cup {n}
    BY <1>3, ThroughGrows
  <2>2. LastRead(dict, n) = n
    <3>1. CASE n \in Enough(dict)
      <4>1. Enough(dict) \cap Through(n) = {n}
        BY <1>3, <2>1, <3>1
      <4>2. FirstOf({n}) = n
        BY <1>3 DEF FirstOf, Units
      <4> QED BY <4>1, <4>2 DEF LastRead
    <3>2. CASE n \notin Enough(dict)
      <4>1. Enough(dict) \cap Through(n) = {}
        BY <1>3, <2>1, <3>2
      <4>2. LastOf(Through(n)) \in Through(n) /\ n <= LastOf(Through(n))
        BY <2>1, Extremes DEF Through
      <4>3. LastOf(Through(n)) = n
        <5>1. LastOf(Through(n)) \in Int /\ n \in Int /\ LastOf(Through(n)) <= n
          BY <4>2, UnitsAreNumbers DEF Through
        <5> QED BY <4>2, <5>1
      <4> QED BY <4>1, <4>3 DEF LastRead
    <3> QED BY <3>1, <3>2
  <2>3. Read(dict, n) = Judged(n, Gathered(dict, n))
    BY <2>1, <2>2 DEF Read
  <2>4. /\ Read(dict, n - 1).ctxt = IF Through(n - 1) = {} THEN <<>>
                                    ELSE Gathered(dict, LastOf(Through(n - 1)))
        /\ ~Read(dict, n - 1).complete
    <3>1. CASE Through(n - 1) = {}
      BY <3>1 DEF Read, Nothing
    <3>2. CASE Through(n - 1) # {}
      <4> DEFINE m == LastOf(Through(n - 1))
      <4>1. Read(dict, n - 1) = Judged(m, Gathered(dict, m))
        BY <1>3, <3>2 DEF Read, LastRead
      <4>2. m \in Through(n - 1)
        BY <3>2, Extremes DEF Through
      <4> HIDE DEF m
      <4>3. MissingOf(Gathered(dict, m)) # {}
        BY <1>3, <4>2 DEF Enough, Through
      <4>4. Read(dict, n - 1).ctxt = Gathered(dict, m) /\ ~Read(dict, n - 1).complete
        <5>1. Judged(m, Gathered(dict, m)).ctxt = Gathered(dict, m)
          BY DEF Judged
        <5>2. Judged(m, Gathered(dict, m)).complete = (MissingOf(Gathered(dict, m)) = {})
          BY DEF Judged
        <5> QED BY <4>1, <4>3, <5>1, <5>2
      <4> QED BY <3>2, <4>4 DEF m
    <3> QED BY <3>1, <3>2
  <2> QED BY <1>3, <2>3, <2>4, OneMore
<1> QED BY <1>1, <1>2, <1>3

\* The loop and what it comes to: by way of the least number at which they differ.
LEMMA LoopIsRead ==
    ASSUME ContextsAssumption, joined \subseteq Units, NEW dict, AreDictionaries(dict)
    PROVE  ForUnits(dict) = Read(dict, MaxUnits)
<1> DEFINE Loops(f) ==
              f = [n \in 0..MaxUnits |->
                      IF n = 0 THEN Nothing
                      ELSE IF f[n - 1].complete \/ n \notin joined THEN f[n - 1]
                      ELSE Judged(n, Updated(f[n - 1].ctxt, dict[n]))]
           reads == [n \in 0..MaxUnits |-> Read(dict, n)]
           loop  == CHOOSE f : Loops(f)
           wrong == {n \in 0..MaxUnits : loop[n] # Read(dict, n)}
<1>1. MaxUnits \in Nat /\ \A n \in 0..MaxUnits : n = 0 \/ (n \in Units /\ n - 1 \in 0..MaxUnits)
  BY DEF ContextsAssumption, Units
<1>2. Read(dict, 0) = Nothing
  <2>1. Through(0) = {}
    BY UnitsAreNumbers DEF Through
  <2> QED BY <2>1 DEF Read
<1>3. Loops(reads)
  <2>1. ASSUME NEW n \in 0..MaxUnits, n # 0
        PROVE  Read(dict, n) =
                  IF reads[n - 1].complete \/ n \notin joined THEN reads[n - 1]
                  ELSE Judged(n, Updated(reads[n - 1].ctxt, dict[n]))
    <3>1. n \in Units /\ reads[n - 1] = Read(dict, n - 1)
      BY <1>1, <2>1
    <3> QED BY <3>1, ReadIsTheLoop
  <2> QED BY <1>2, <2>1
<1>4. ForUnits(dict) = loop[MaxUnits]
  BY DEF ForUnits
<1> HIDE DEF Loops
<1>5. Loops(loop)
  BY <1>3
<1> HIDE DEF loop
<1>6. /\ loop[0] = Nothing
      /\ \A n \in Units : loop[n] = IF loop[n - 1].complete \/ n \notin joined THEN loop[n - 1]
                                    ELSE Judged(n, Updated(loop[n - 1].ctxt, dict[n]))
  <2>1. 0 \in 0..MaxUnits /\ Units \subseteq 0..MaxUnits /\ \A n \in Units : n # 0
    BY <1>1 DEF Units
  <2> QED BY <1>5, <2>1 DEF Loops
<1>7. wrong = {}
  <2> SUFFICES ASSUME wrong # {} PROVE FALSE
    OBVIOUS
  <2>1. PICK n \in wrong : \A m \in wrong : n <= m
    <3>1. wrong \subseteq Nat
      OBVIOUS
    <3> HIDE DEF wrong
    <3> QED BY <3>1, LeastNumber
  <2>2. n \in Units /\ n - 1 \in 0..MaxUnits
    BY <1>1, <1>2, <1>6, <2>1
  <2>3. loop[n - 1] = Read(dict, n - 1)
    <3>1. n - 1 \notin wrong
      <4>1. n \in Int /\ ~(n <= n - 1)
        BY <2>2 DEF Units
      <4> HIDE DEF wrong
      <4> QED BY <2>1, <4>1
    <3> QED BY <2>2, <3>1
  <2>4. loop[n] = Read(dict, n)
    BY <1>6, <2>2, <2>3, ReadIsTheLoop
  <2> QED BY <2>1, <2>4
<1> QED BY <1>1, <1>4, <1>7

\* What a context is made of: the dictionary as it is with some unit, a complete one
\* if there is any.
LEMMA LoopEnds ==
    ASSUME ContextsAssumption, joined \subseteq Units, NEW dict, AreDictionaries(dict)
    PROVE  /\ joined = {} => ForUnits(dict) = Nothing
           /\ joined # {} =>
                 \E u \in joined : /\ ForUnits(dict) = Judged(u, Gathered(dict, u))
                                   /\ u \in Enough(dict) <=> Enough(dict) # {}
<1>1. Through(MaxUnits) = joined
  <2>1. \A u \in Units : u <= MaxUnits
    BY DEF ContextsAssumption, Units
  <2> QED BY <2>1 DEF Through
<1>2. CASE joined = {}
  BY <1>1, <1>2, LoopIsRead DEF Read
<1>3. CASE joined # {}
  <2> DEFINE u == LastRead(dict, MaxUnits)
  <2>1. u \in joined /\ (u \in Enough(dict) <=> Enough(dict) # {})
    <3>1. Enough(dict) \subseteq joined
      BY DEF Enough
    <3>2. CASE Enough(dict) = {}
      BY <1>1, <1>3, <3>2, Extremes DEF LastRead
    <3>3. CASE Enough(dict) # {}
      <4>1. Enough(dict) \cap Through(MaxUnits) = Enough(dict)
        BY <1>1, <3>1
      <4> QED BY <3>1, <3>3, <4>1, Extremes DEF LastRead
    <3> QED BY <3>2, <3>3
  <2>2. ForUnits(dict) = Judged(u, Gathered(dict, u))
    BY <1>1, <1>3, LoopIsRead DEF Read
  <2> HIDE DEF u
  <2> QED BY <1>3, <2>1, <2>2
<1> QED BY <1>2, <1>3

\* What the units have published is of units that are there, and keystone uses the
\* bags of its units or that of the application.  A hook of shared-db is of a unit that
\* is there, and sets another hostname than the one given only if there is no network.
ContextsInv ==
    /\ interface \in DOMAIN Key /\ joined \subseteq Units /\ DOMAIN published = Units
    /\ \A u \in Units \ joined : published[u] = {}
    /\ appBag # {} => interface = "identity" /\ \A u \in Units : published[u] = {}
    /\ interface = "cluster" => \A u \in joined : Has(u, "private-address")
    /\ hook # Nobody => interface = "shared" /\ hook \in joined
    /\ hook = Nobody => ourHostname = committed
    /\ committed /\ ~ourHostname => \A u \in joined : ~Has(u, "access-network")
    /\ ourHostname \in BOOLEAN /\ committed \in BOOLEAN

LEMMA ContextsInitInv == ContextsAssumption /\ ContextsInit => ContextsInv
BY DEF ContextsAssumption, ContextsInit, ContextsInv

LEMMA ContextsNextInv == ContextsInv /\ [ContextsNext]_contextVars => ContextsInv'
<1> SUFFICES ASSUME ContextsInv, [ContextsNext]_contextVars PROVE ContextsInv'
  OBVIOUS
<1>1. CASE Relate
  BY <1>1 DEF Relate, ContextsInv, Has, dbHookVars
<1>2. ASSUME NEW u \in Units, Join(u) PROVE ContextsInv'
  <2>1. interface = "cluster" => Key[interface] \cap {"private-address"} = {"private-address"}
    BY DEF Key
  <2>2. interface = "identity" => Key[interface] \cap {"private-address"} = {}
    BY DEF Key
  <2> QED BY <1>2, <2>1, <2>2 DEF Join, ContextsInv, Has, dbHookVars
<1>3. ASSUME NEW u \in Units, Leave(u) PROVE ContextsInv'
  BY <1>3 DEF Leave, ContextsInv, Has
<1>4. ASSUME NEW K \in SUBSET (Key[interface] \ appBag) \ {{}}, PublishForApplication(K) PROVE ContextsInv'
  BY <1>4 DEF PublishForApplication, ContextsInv, Has, dbHookVars, Nobody
<1>5. ASSUME NEW u \in Units, NEW K \in SUBSET (Key[interface] \ published[u]) \ {{}}, Publish(u, K)
      PROVE ContextsInv'
  BY <1>5 DEF Publish, ContextsInv, Has, dbHookVars
<1>6. CASE UNCHANGED contextVars
  BY <1>6 DEF contextVars, dbHookVars, ContextsInv, Has
<1>7. ASSUME NEW u \in Units, HookJoined(u) PROVE ContextsInv'
  <2>1. /\ interface = "shared" /\ u \in joined /\ hook' = u
        /\ ourHostname' \in BOOLEAN
        /\ (\E v \in joined : Has(v, "access-network")) => ourHostname' = TRUE
        /\ UNCHANGED <<interface, related, joined, published, appBag, met, committed>>
    <3>1. /\ interface = "shared" /\ u \in joined /\ hook' = u
          /\ UNCHANGED <<interface, related, joined, published, appBag, met, committed>>
          /\ ourHostname' \in IF \E v \in joined : Has(v, "access-network") THEN {TRUE} ELSE BOOLEAN
      BY <1>7 DEF HookJoined
    <3>2. CASE \E v \in joined : Has(v, "access-network")
      BY <3>1, <3>2
    <3>3. CASE ~\E v \in joined : Has(v, "access-network")
      BY <3>1, <3>3
    <3> QED BY <3>1, <3>2, <3>3
  <2>2. u # Nobody
    BY DEF Units, Nobody
  <2>3. \A v \in joined : Has(v, "access-network")' <=> Has(v, "access-network")
    BY <2>1 DEF Has
  <2>4. committed' /\ ~ourHostname' => \A v \in joined' : ~Has(v, "access-network")'
    BY <2>1, <2>3, Zenon
  <2> QED BY <2>1, <2>2, <2>4 DEF ContextsInv, Has
<1>8. ASSUME NEW u \in Units, HookChanged(u) PROVE ContextsInv'
  BY <1>8 DEF HookChanged, ContextsInv, Has
<1>9. CASE Reconfigure
  <2>1. ourHostname' = TRUE /\ hook # Nobody
    BY <1>9 DEF Reconfigure, Deferred
  <2>2. UNCHANGED <<interface, related, joined, published, appBag, hook, met, committed>>
    BY <1>9 DEF Reconfigure
  <2> QED BY <2>1, <2>2 DEF ContextsInv, Has
<1>10. CASE HookEnds
  BY <1>10 DEF HookEnds, ContextsInv, Has
<1>11. CASE DbHookFails
  BY <1>11 DEF DbHookFails, ContextsInv, Has
<1> QED BY <1>1, <1>2, <1>3, <1>4, <1>5, <1>6, <1>7, <1>8, <1>9, <1>10, <1>11 DEF ContextsNext

\* The dictionaries of the classes.
SharedDicts     == [u \in Units |-> [k \in SharedKeys |-> Value(u, k)]]
IdentityDicts   == [u \in Units |-> IdentityOf(u)]
CredentialDicts == [u \in Units |-> CredentialsOf(u)]
AmqpDicts       == [u \in Units |-> AmqpOf(u)]

LEMMA TheyAreDictionaries ==
    /\ AreDictionaries(SharedDicts) /\ AreDictionaries(IdentityDicts)
    /\ AreDictionaries(CredentialDicts) /\ AreDictionaries(AmqpDicts)
<1>1. AreDictionaries(SharedDicts)
  BY DEF AreDictionaries, SharedDicts
<1>2. AreDictionaries(IdentityDicts)
  BY DEF AreDictionaries, IdentityDicts, IdentityOf
<1>3. AreDictionaries(CredentialDicts)
  BY DEF AreDictionaries, CredentialDicts, CredentialsOf
<1>4. AreDictionaries(AmqpDicts)
  BY DEF AreDictionaries, AmqpDicts, AmqpOf, Updated
<1> QED BY <1>1, <1>2, <1>3, <1>4

LEMMA ContextIs ==
    /\ interface = "shared" => Context = IF Deferred THEN Nothing ELSE ForUnits(SharedDicts)
    /\ interface = "identity" => Context = ForUnits(IdentityDicts)
    /\ interface = "credentials" => Context = ForUnits(CredentialDicts)
    /\ interface = "amqp" => Context = ForUnits(AmqpDicts)
    /\ interface = "image" => Context = Image
    /\ interface = "subordinate" => Context = Subordinate
    /\ interface = "cluster" => Context = Cluster
BY DEF Context, SharedDb, SharedDicts, Identity, IdentityDicts, Credentials, CredentialDicts,
       Amqp, AmqpDicts

LEMMA JudgedIs ==
    \A u, d : /\ Judged(u, d).ctxt = d /\ Judged(u, d).last = u
              /\ Judged(u, d).missing = MissingOf(d)
              /\ Judged(u, d).complete <=> MissingOf(d) = {}
BY DEF Judged

\* The dictionary that a complete context is.
LEMMA CompleteLoop ==
    ASSUME ContextsAssumption, ContextsInv, NEW dict, AreDictionaries(dict),
           Context = ForUnits(dict), interface # "subordinate"
    PROVE  /\ Complete <=> Enough(dict) # {}
           /\ Complete => \E u \in Enough(dict) : Context.ctxt = Gathered(dict, u) /\ Context.last = u
           /\ ~Complete /\ joined # {} => Context.missing # {}
           /\ joined # {} => Context.last \in joined
<1>1. joined \subseteq Units /\ (Complete <=> Context.complete)
  BY DEF ContextsInv, Complete
<1>2. CASE joined = {}
  BY <1>1, <1>2, LoopEnds DEF Enough, Nothing
<1>3. CASE joined # {}
  <2>1. PICK u \in joined : /\ Context = Judged(u, Gathered(dict, u))
                            /\ u \in Enough(dict) <=> Enough(dict) # {}
    BY <1>1, <1>3, LoopEnds
  <2>2. /\ Context.ctxt = Gathered(dict, u) /\ Context.last = u
        /\ Context.missing = MissingOf(Gathered(dict, u))
        /\ Context.complete <=> MissingOf(Gathered(dict, u)) = {}
    BY <2>1, JudgedIs
  <2> QED BY <1>1, <2>1, <2>2 DEF Enough
<1> QED BY <1>2, <1>3

\* A dictionary of keystone: the domain is among the keys of a unit of version 3.
Required == {"service_host", "service_password"}

Versioned(dict, val) ==
    \A u \in Units : dict[u] = [k \in Required \cup {x \in {"service_domain"} : val[u]["v3"] # Nobody}
                                    |-> val[u][k]]

LEMMA VersionedGathered ==
    ASSUME ContextsAssumption, joined \subseteq Units, NEW dict, NEW val, Versioned(dict, val),
           NEW u \in joined
    PROVE  /\ Required \subseteq GivenKeys(dict, u) /\ GivenKeys(dict, u) \subseteq Required \cup {"service_domain"}
           /\ \A k \in Required : Gathered(dict, u)[k] = val[u][k]
           /\ val[u]["v3"] # Nobody
                 => /\ "service_domain" \in GivenKeys(dict, u)
                    /\ Gathered(dict, u)["service_domain"] = val[u]["service_domain"]
           /\ "service_domain" \in GivenKeys(dict, u) => \E v \in joined : val[v]["v3"] # Nobody
<1>1. \A v \in joined : /\ Required \subseteq DOMAIN dict[v]
                        /\ DOMAIN dict[v] \subseteq Required \cup {"service_domain"}
                        /\ "service_domain" \in DOMAIN dict[v] <=> val[v]["v3"] # Nobody
                        /\ \A k \in DOMAIN dict[v] : dict[v][k] = val[v][k]
  <2> TAKE v \in joined
  <2> DEFINE domain == {x \in {"service_domain"} : val[v]["v3"] # Nobody}
  <2>1. dict[v] = [k \in Required \cup domain |-> val[v][k]]
    BY DEF Versioned
  <2>2. /\ DOMAIN dict[v] = Required \cup domain
        /\ \A k \in Required \cup domain : dict[v][k] = val[v][k]
    <3> HIDE DEF domain
    <3> QED BY <2>1
  <2>3. "service_domain" \notin Required
    BY DEF Required
  <2> QED BY <2>2, <2>3
<1>2. \A k \in DOMAIN dict[u] : k \in GivenKeys(dict, u) /\ Gathered(dict, u)[k] = dict[u][k]
  BY OwnIsGathered
<1>3. \A k \in GivenKeys(dict, u) : \E v \in joined : k \in DOMAIN dict[v]
  BY DEF GivenKeys, Through
<1> QED BY <1>1, <1>2, <1>3

\* The dictionary is complete where what the unit gives is, if the versions agree.
LEMMA VersionedEnough ==
    ASSUME ContextsAssumption, joined \subseteq Units, NEW dict, NEW val, Versioned(dict, val),
           NEW u \in joined
    PROVE  /\ u \in Enough(dict)
                 => /\ \A k \in Required : val[u][k] # Nobody
                    /\ val[u]["v3"] # Nobody => val[u]["service_domain"] # Nobody
           /\ (\A k \in Required : val[u][k] # Nobody)
              /\ (val[u]["v3"] # Nobody => val[u]["service_domain"] # Nobody)
              /\ ((\E v \in joined : val[v]["v3"] # Nobody) => val[u]["v3"] # Nobody)
                 => u \in Enough(dict)
<1>1. u \in Enough(dict) <=> \A k \in GivenKeys(dict, u) : Gathered(dict, u)[k] # Nobody
  BY DEF Enough, MissingOf, Gathered
<1> QED BY <1>1, VersionedGathered

\* What identity and credentials take of a unit.
Resolved  == [u \in Units |-> [k \in Key.identity |-> Resolve(u, k)]]
Published == [u \in Units |-> [k \in Key.identity |-> Value(u, k)]]

LEMMA TheyAreVersioned ==
    Versioned(IdentityDicts, Resolved) /\ Versioned(CredentialDicts, Published)
<1>1. /\ Required \subseteq Key.identity /\ "v3" \in Key.identity /\ "service_domain" \in Key.identity
  BY DEF Key, Required
<1>2. ASSUME NEW u \in Units
      PROVE  /\ IdentityDicts[u] = [k \in Required \cup {x \in {"service_domain"} : Resolved[u]["v3"] # Nobody}
                                       |-> Resolved[u][k]]
             /\ CredentialDicts[u] = [k \in Required \cup {x \in {"service_domain"} : Published[u]["v3"] # Nobody}
                                       |-> Published[u][k]]
  <2>1. /\ Resolved[u]["v3"] = Resolve(u, "v3") /\ Resolved[u]["service_domain"] = Resolve(u, "service_domain")
        /\ \A k \in Required : Resolved[u][k] = Resolve(u, k)
    BY <1>1 DEF Resolved
  <2>2. /\ Published[u]["v3"] = Value(u, "v3") /\ Published[u]["service_domain"] = Value(u, "service_domain")
        /\ \A k \in Required : Published[u][k] = Value(u, k)
    BY <1>1 DEF Published
  <2>3. Value(u, "v3") # Nobody <=> Has(u, "v3")
    BY UnitsAreNumbers DEF Value, Nobody, Units
  <2>4. IdentityDicts[u] = [k \in Required \cup {x \in {"service_domain"} : Resolve(u, "v3") # Nobody}
                               |-> Resolve(u, k)]
    BY DEF IdentityDicts, IdentityOf, Required
  <2>5. CredentialDicts[u] = [k \in Required \cup {x \in {"service_domain"} : Has(u, "v3")}
                               |-> Value(u, k)]
    BY DEF CredentialDicts, CredentialsOf, Required
  <2> QED BY <2>1, <2>2, <2>3, <2>4, <2>5
<1> QED BY <1>2 DEF Versioned

\* The values are named by who published them.
LEMMA WhoGives ==
    ASSUME ContextsAssumption, ContextsInv, NEW u \in Units
    PROVE  /\ u # Nobody /\ App # Nobody
           /\ \A k : Value(u, k) # Nobody <=> k \in published[u]
           /\ \A k : Resolve(u, k) # Nobody <=> k \in appBag \/ k \in published[u]
           /\ \A k : Value(u, k) \in {Nobody, u}
           /\ \A k : Resolve(u, k) \in {Nobody, IF appBag = {} THEN u ELSE App}
<1>1. u # 0 /\ MaxUnits + 1 # 0
  BY DEF ContextsAssumption, Units
<1>2. appBag = {} \/ published[u] = {}
  BY DEF ContextsInv
<1> QED BY <1>1, <1>2 DEF Value, Resolve, Has, Nobody, App

\* Keystone that speaks one version: what one unit says of it another says too.
LEMMA OneVersion ==
    ASSUME ContextsAssumption, ContextsInv, SameVersion, NEW u \in joined, NEW v \in joined
    PROVE  /\ Value(v, "v3") # Nobody /\ (\E k : Value(u, k) # Nobody) => Value(u, "v3") # Nobody
           /\ Resolve(v, "v3") # Nobody /\ (\E k : Resolve(u, k) # Nobody) => Resolve(u, "v3") # Nobody
<1>1. u \in Units /\ v \in Units /\ (appBag = {} \/ (published[u] = {} /\ published[v] = {}))
  BY DEF ContextsInv
<1>2. published[u] # {} /\ "v3" \in published[v] => "v3" \in published[u]
  BY DEF SameVersion, Has
<1>3. /\ \A k : Value(u, k) # Nobody <=> k \in published[u]
      /\ \A k : Value(v, k) # Nobody <=> k \in published[v]
      /\ \A k : Resolve(u, k) # Nobody <=> k \in appBag \/ k \in published[u]
      /\ \A k : Resolve(v, k) # Nobody <=> k \in appBag \/ k \in published[v]
  BY <1>1, WhoGives
<1> QED BY <1>1, <1>2, <1>3

\* What a unit has to give for the context to be complete.
Suffices(u) ==
    CASE interface = "shared"      -> SharedKeys \subseteq published[u]
      [] interface = "identity"    ->
            /\ \A k \in Required : Resolve(u, k) # Nobody
            /\ Resolve(u, "v3") # Nobody => Resolve(u, "service_domain") # Nobody
      [] interface = "credentials" ->
            /\ \A k \in Required : Value(u, k) # Nobody
            /\ Value(u, "v3") # Nobody => Value(u, "service_domain") # Nobody
      [] interface = "amqp"        -> "password" \in published[u]
      [] interface = "image"       -> "glance-api-server" \in published[u]
      [] interface = "subordinate" -> "sections" \in published[u]
      [] interface = "cluster"     -> FALSE

LEMMA SufficesIs ==
    ASSUME NEW u
    PROVE  /\ interface = "shared" => (Suffices(u) <=> SharedKeys \subseteq published[u])
           /\ interface = "identity" =>
                 (Suffices(u) <=> /\ \A k \in Required : Resolve(u, k) # Nobody
                                  /\ Resolve(u, "v3") # Nobody => Resolve(u, "service_domain") # Nobody)
           /\ interface = "credentials" =>
                 (Suffices(u) <=> /\ \A k \in Required : Value(u, k) # Nobody
                                  /\ Value(u, "v3") # Nobody => Value(u, "service_domain") # Nobody)
           /\ interface = "amqp" => (Suffices(u) <=> "password" \in published[u])
           /\ interface = "image" => (Suffices(u) <=> "glance-api-server" \in published[u])
           /\ interface = "subordinate" => (Suffices(u) <=> "sections" \in published[u])
           /\ interface = "cluster" => ~Suffices(u)
BY DEF Suffices

LEMMA SharedEnough ==
    ASSUME ContextsAssumption, ContextsInv, NEW u \in joined
    PROVE  /\ u \in Enough(SharedDicts) <=> SharedKeys \subseteq published[u]
           /\ u \in Enough(SharedDicts) =>
                 /\ DOMAIN Gathered(SharedDicts, u) = SharedKeys
                 /\ \A k \in SharedKeys : Gathered(SharedDicts, u)[k] = u
<1>1. joined \subseteq Units /\ u \in Units
  BY DEF ContextsInv
<1>2. \A v \in Units : DOMAIN SharedDicts[v] = SharedKeys
  BY DEF SharedDicts
<1>3. \A k \in SharedKeys : k \in GivenKeys(SharedDicts, u) /\ Gathered(SharedDicts, u)[k] = Value(u, k)
  BY <1>1, <1>2, OwnIsGathered DEF SharedDicts
<1>4. GivenKeys(SharedDicts, u) = SharedKeys
  BY <1>1, <1>2, <1>3 DEF GivenKeys, Through
<1>5. DOMAIN Gathered(SharedDicts, u) = SharedKeys
  BY <1>4 DEF Gathered
<1>6. u \in Enough(SharedDicts) <=> \A k \in SharedKeys : Value(u, k) # Nobody
  BY <1>3, <1>5 DEF Enough, MissingOf
<1>7. \A k \in SharedKeys : /\ Value(u, k) # Nobody <=> k \in published[u]
                            /\ Value(u, k) \in {Nobody, u}
  BY <1>1, WhoGives
<1> QED BY <1>3, <1>5, <1>6, <1>7

LEMMA AmqpEnough ==
    ASSUME ContextsAssumption, ContextsInv, NEW u \in joined
    PROVE  u \in Enough(AmqpDicts) <=> "password" \in published[u]
<1>1. joined \subseteq Units /\ u \in Units
  BY DEF ContextsInv
<1>2. ASSUME NEW v \in Units
      PROVE  /\ "password" \in DOMAIN AmqpDicts[v] /\ AmqpDicts[v]["password"] = Value(v, "password")
             /\ \A k \in DOMAIN AmqpDicts[v] : k # "password" => AmqpDicts[v][k] = v
             /\ \A k \in DOMAIN AmqpDicts[v] : k \in {"password", "host", "clustered"}
             /\ "host" \in DOMAIN AmqpDicts[v]
  BY DEF AmqpDicts, AmqpOf, Updated
<1>3. "password" \in GivenKeys(AmqpDicts, u) /\ Gathered(AmqpDicts, u)["password"] = Value(u, "password")
  BY <1>1, <1>2, OwnIsGathered
<1>4. ASSUME NEW k \in GivenKeys(AmqpDicts, u), k # "password" PROVE Gathered(AmqpDicts, u)[k] # Nobody
  <2>1. PICK v \in Through(u) : k \in DOMAIN AmqpDicts[v] /\ Gathered(AmqpDicts, u)[k] = AmqpDicts[v][k]
    BY <1>1, GatheredIsGiven
  <2>2. v \in Units
    BY <1>1 DEF Through
  <2> QED BY <1>2, <1>4, <2>1, <2>2, WhoGives
<1>5. DOMAIN Gathered(AmqpDicts, u) = GivenKeys(AmqpDicts, u)
  BY DEF Gathered
<1>6. u \in Enough(AmqpDicts) <=> Value(u, "password") # Nobody
  BY <1>3, <1>4, <1>5 DEF Enough, MissingOf
<1> QED BY <1>1, <1>6, WhoGives

LEMMA IdentityEnough ==
    ASSUME ContextsAssumption, ContextsInv, NEW u \in joined
    PROVE  /\ u \in Enough(IdentityDicts)
                 => /\ \A k \in Required : Resolve(u, k) # Nobody
                    /\ Resolve(u, "v3") # Nobody => Resolve(u, "service_domain") # Nobody
                    /\ Required \subseteq DOMAIN Gathered(IdentityDicts, u)
                    /\ DOMAIN Gathered(IdentityDicts, u) \subseteq Required \cup {"service_domain"}
                    /\ Resolve(u, "v3") # Nobody => "service_domain" \in DOMAIN Gathered(IdentityDicts, u)
                    /\ \A k \in DOMAIN Gathered(IdentityDicts, u) :
                          SameVersion \/ k # "service_domain" => Gathered(IdentityDicts, u)[k] = (IF appBag = {} THEN u ELSE App)
           /\ SameVersion /\ (\A k \in Required : Resolve(u, k) # Nobody)
              /\ (Resolve(u, "v3") # Nobody => Resolve(u, "service_domain") # Nobody)
                 => u \in Enough(IdentityDicts)
<1>1. joined \subseteq Units /\ u \in Units /\ Required \subseteq Key.identity
      /\ "v3" \in Key.identity /\ "service_domain" \in Key.identity /\ Required # {}
      /\ "service_domain" \notin Required
  BY DEF ContextsInv, Required, Key
<1>2. \A v \in Units, k \in Key.identity : Resolved[v][k] = Resolve(v, k)
  BY DEF Resolved
<1>3. DOMAIN Gathered(IdentityDicts, u) = GivenKeys(IdentityDicts, u)
  BY DEF Gathered
<1>4. \A v \in joined : Resolve(v, "v3") # Nobody /\ SameVersion /\ (\E k \in Required : Resolve(u, k) # Nobody)
                           => Resolve(u, "v3") # Nobody
  BY OneVersion
<1>5. /\ \A k \in Required : Gathered(IdentityDicts, u)[k] = Resolve(u, k)
      /\ Required \subseteq GivenKeys(IdentityDicts, u) /\ GivenKeys(IdentityDicts, u) \subseteq Required \cup {"service_domain"}
      /\ Resolve(u, "v3") # Nobody => /\ "service_domain" \in GivenKeys(IdentityDicts, u)
                                   /\ Gathered(IdentityDicts, u)["service_domain"] = Resolve(u, "service_domain")
      /\ "service_domain" \in GivenKeys(IdentityDicts, u) => \E v \in joined : Resolve(v, "v3") # Nobody
  BY <1>1, <1>2, TheyAreVersioned, VersionedGathered
<1>6. /\ u \in Enough(IdentityDicts)
            => /\ \A k \in Required : Resolve(u, k) # Nobody
               /\ Resolve(u, "v3") # Nobody => Resolve(u, "service_domain") # Nobody
      /\ (\A k \in Required : Resolve(u, k) # Nobody)
         /\ (Resolve(u, "v3") # Nobody => Resolve(u, "service_domain") # Nobody)
         /\ ((\E v \in joined : Resolve(v, "v3") # Nobody) => Resolve(u, "v3") # Nobody)
            => u \in Enough(IdentityDicts)
  <2>1. \A v \in joined : Resolved[v]["v3"] = Resolve(v, "v3")
    BY <1>1, <1>2
  <2>2. Resolved[u]["service_domain"] = Resolve(u, "service_domain") /\ \A k \in Required : Resolved[u][k] = Resolve(u, k)
    BY <1>1, <1>2
  <2> QED BY <1>1, <2>1, <2>2, TheyAreVersioned, VersionedEnough
<1>7. \A k : Resolve(u, k) \in {Nobody, (IF appBag = {} THEN u ELSE App)}
  BY <1>1, WhoGives
<1>8. ASSUME u \in Enough(IdentityDicts), NEW k \in GivenKeys(IdentityDicts, u), SameVersion \/ k # "service_domain"
      PROVE  Gathered(IdentityDicts, u)[k] = (IF appBag = {} THEN u ELSE App)
  <2>1. CASE k \in Required
    BY <1>5, <1>6, <1>7, <1>8, <2>1
  <2>2. CASE k = "service_domain"
    <3>1. Resolve(u, "v3") # Nobody
      BY <1>1, <1>4, <1>5, <1>6, <1>8, <2>2
    <3> QED BY <1>5, <1>6, <1>7, <1>8, <2>2, <3>1
  <2> QED BY <1>5, <1>8, <2>1, <2>2
<1>9. SameVersion /\ (\A k \in Required : Resolve(u, k) # Nobody)
         => ((\E v \in joined : Resolve(v, "v3") # Nobody) => Resolve(u, "v3") # Nobody)
  BY <1>1, <1>4
<1> QED BY <1>3, <1>5, <1>6, <1>8, <1>9

LEMMA CredentialsEnough ==
    ASSUME ContextsAssumption, ContextsInv, NEW u \in joined
    PROVE  /\ u \in Enough(CredentialDicts)
                 => /\ \A k \in Required : Value(u, k) # Nobody
                    /\ Value(u, "v3") # Nobody => Value(u, "service_domain") # Nobody
                    /\ Required \subseteq DOMAIN Gathered(CredentialDicts, u)
                    /\ DOMAIN Gathered(CredentialDicts, u) \subseteq Required \cup {"service_domain"}
                    /\ Value(u, "v3") # Nobody => "service_domain" \in DOMAIN Gathered(CredentialDicts, u)
                    /\ \A k \in DOMAIN Gathered(CredentialDicts, u) :
                          SameVersion \/ k # "service_domain" => Gathered(CredentialDicts, u)[k] = u
           /\ SameVersion /\ (\A k \in Required : Value(u, k) # Nobody)
              /\ (Value(u, "v3") # Nobody => Value(u, "service_domain") # Nobody)
                 => u \in Enough(CredentialDicts)
<1>1. joined \subseteq Units /\ u \in Units /\ Required \subseteq Key.identity
      /\ "v3" \in Key.identity /\ "service_domain" \in Key.identity /\ Required # {}
      /\ "service_domain" \notin Required
  BY DEF ContextsInv, Required, Key
<1>2. \A v \in Units, k \in Key.identity : Published[v][k] = Value(v, k)
  BY DEF Published
<1>3. DOMAIN Gathered(CredentialDicts, u) = GivenKeys(CredentialDicts, u)
  BY DEF Gathered
<1>4. \A v \in joined : Value(v, "v3") # Nobody /\ SameVersion /\ (\E k \in Required : Value(u, k) # Nobody)
                           => Value(u, "v3") # Nobody
  BY OneVersion
<1>5. /\ \A k \in Required : Gathered(CredentialDicts, u)[k] = Value(u, k)
      /\ Required \subseteq GivenKeys(CredentialDicts, u) /\ GivenKeys(CredentialDicts, u) \subseteq Required \cup {"service_domain"}
      /\ Value(u, "v3") # Nobody => /\ "service_domain" \in GivenKeys(CredentialDicts, u)
                                   /\ Gathered(CredentialDicts, u)["service_domain"] = Value(u, "service_domain")
      /\ "service_domain" \in GivenKeys(CredentialDicts, u) => \E v \in joined : Value(v, "v3") # Nobody
  BY <1>1, <1>2, TheyAreVersioned, VersionedGathered
<1>6. /\ u \in Enough(CredentialDicts)
            => /\ \A k \in Required : Value(u, k) # Nobody
               /\ Value(u, "v3") # Nobody => Value(u, "service_domain") # Nobody
      /\ (\A k \in Required : Value(u, k) # Nobody)
         /\ (Value(u, "v3") # Nobody => Value(u, "service_domain") # Nobody)
         /\ ((\E v \in joined : Value(v, "v3") # Nobody) => Value(u, "v3") # Nobody)
            => u \in Enough(CredentialDicts)
  <2>1. \A v \in joined : Published[v]["v3"] = Value(v, "v3")
    BY <1>1, <1>2
  <2>2. Published[u]["service_domain"] = Value(u, "service_domain") /\ \A k \in Required : Published[u][k] = Value(u, k)
    BY <1>1, <1>2
  <2> QED BY <1>1, <2>1, <2>2, TheyAreVersioned, VersionedEnough
<1>7. \A k : Value(u, k) \in {Nobody, u}
  BY <1>1, WhoGives
<1>8. ASSUME u \in Enough(CredentialDicts), NEW k \in GivenKeys(CredentialDicts, u), SameVersion \/ k # "service_domain"
      PROVE  Gathered(CredentialDicts, u)[k] = u
  <2>1. CASE k \in Required
    BY <1>5, <1>6, <1>7, <1>8, <2>1
  <2>2. CASE k = "service_domain"
    <3>1. Value(u, "v3") # Nobody
      BY <1>1, <1>4, <1>5, <1>6, <1>8, <2>2
    <3> QED BY <1>5, <1>6, <1>7, <1>8, <2>2, <3>1
  <2> QED BY <1>5, <1>8, <2>1, <2>2
<1>9. SameVersion /\ (\A k \in Required : Value(u, k) # Nobody)
         => ((\E v \in joined : Value(v, "v3") # Nobody) => Value(u, "v3") # Nobody)
  BY <1>1, <1>4
<1> QED BY <1>3, <1>5, <1>6, <1>8, <1>9

\* A context is complete as soon as one unit has given all that it takes.
LEMMA CompleteIs ==
    ASSUME ContextsAssumption, ContextsInv, SameVersion
    PROVE  Complete <=> /\ interface = "cluster" \/ \E u \in joined : Suffices(u)
                        /\ ~Deferred
<1> USE TheyAreDictionaries
<1>0. Deferred => interface = "shared"
  BY DEF Deferred
<1>1. CASE interface = "shared"
  <2>1. CASE Deferred
    BY <1>1, <2>1, ContextIs DEF Complete, Nothing
  <2>2. CASE ~Deferred
    BY <1>1, <2>2, ContextIs, CompleteLoop, SharedEnough, SufficesIs DEF Enough
  <2> QED BY <2>1, <2>2
<1>2. CASE interface = "identity"
  BY <1>0, <1>2, ContextIs, CompleteLoop, IdentityEnough, SufficesIs DEF Enough
<1>3. CASE interface = "credentials"
  BY <1>0, <1>3, ContextIs, CompleteLoop, CredentialsEnough, SufficesIs DEF Enough
<1>4. CASE interface = "amqp"
  BY <1>0, <1>4, ContextIs, CompleteLoop, AmqpEnough, SufficesIs DEF Enough
<1>5. CASE interface = "image"
  <2> DEFINE servers == {u \in joined : Has(u, "glance-api-server")}
  <2>1. Complete <=> Image.complete
    BY <1>5, ContextIs DEF Complete
  <2>2. CASE servers = {}
    <3>1. Image = Nothing
      BY <2>2 DEF Image
    <3> QED BY <1>0, <1>5, <2>1, <2>2, <3>1, SufficesIs DEF Nothing, Has
  <2>3. CASE servers # {}
    <3>1. Image = Judged(Nobody, [glance_api_servers |-> FirstOf(servers)])
      BY <2>3 DEF Image, FirstOf
    <3>2. FirstOf(servers) \in joined
      BY <2>3, Extremes DEF ContextsInv
    <3>3. FirstOf(servers) # Nobody
      BY <3>2, WhoGives DEF ContextsInv
    <3>4. MissingOf([glance_api_servers |-> FirstOf(servers)]) = {}
      BY <3>3 DEF MissingOf
    <3>5. Image.complete
      BY <3>1, <3>4, JudgedIs
    <3> QED BY <1>0, <1>5, <2>1, <2>3, <3>5, SufficesIs DEF Has
  <2> QED BY <2>2, <2>3
<1>6. CASE interface = "subordinate"
  <2>1. Complete <=> Subordinate.complete /\ ~SubordinateRaises
    BY <1>6, ContextIs DEF Complete
  <2>2. CASE Sections = {}
    <3>1. Subordinate = Nothing
      BY <2>2 DEF Subordinate
    <3> QED BY <1>0, <1>6, <2>1, <2>2, <3>1, SufficesIs DEF Nothing, Sections, Has
  <2>3. CASE Sections # {}
    <3>1. Subordinate = Judged(Nobody, [sections |-> App])
      BY <2>3 DEF Subordinate
    <3>2. App # Nobody
      BY DEF ContextsAssumption, App, Nobody
    <3>3. MissingOf([sections |-> App]) = {}
      BY <3>2 DEF MissingOf
    <3>4. Subordinate.complete
      BY <3>1, <3>3, JudgedIs
    <3> QED BY <1>0, <1>6, <2>1, <2>3, <3>4, SufficesIs DEF Sections, Has, SubordinateRaises
  <2> QED BY <2>2, <2>3
<1>7. CASE interface = "cluster"
  <2>1. App # Nobody
    BY DEF ContextsAssumption, App, Nobody
  <2>2. MissingOf([default_backend |-> App]) = {}
    BY <2>1 DEF MissingOf
  <2>3. Cluster.complete
    BY <2>2, JudgedIs DEF Cluster
  <2> QED BY <1>0, <1>7, <2>3, ContextIs DEF Complete
<1> QED BY <1>1, <1>2, <1>3, <1>4, <1>5, <1>6, <1>7 DEF ContextsInv, Key

LEMMA InvBelongTogether == ContextsAssumption /\ ContextsInv => CredentialsBelongTogether
<1> SUFFICES ASSUME ContextsAssumption, ContextsInv, Complete PROVE CredentialsBelongTogether
  BY DEF CredentialsBelongTogether
<1> USE TheyAreDictionaries
<1> DEFINE Together ==
              LET ctxt == Context.ctxt
                  alike == IF SameVersion THEN DOMAIN ctxt ELSE DOMAIN ctxt \ {"service_domain"}
              IN  \A j, k \in alike : ctxt[j] = ctxt[k]
<1>1. CASE interface = "shared"
  <2>0. ~Deferred
    BY <1>1, ContextIs DEF Complete, Nothing
  <2>1. PICK u \in Enough(SharedDicts) : Context.ctxt = Gathered(SharedDicts, u)
    BY <1>1, <2>0, ContextIs, CompleteLoop
  <2>2. \A k \in DOMAIN Context.ctxt : Context.ctxt[k] = u
    BY <2>1, SharedEnough DEF Enough
  <2>3. Together
    BY <2>2
  <2> QED BY <1>1, <2>3 DEF CredentialsBelongTogether
<1>2. CASE interface = "identity"
  <2>1. PICK u \in Enough(IdentityDicts) :
               Context.ctxt = Gathered(IdentityDicts, u) /\ Context.last = u
    BY <1>2, ContextIs, CompleteLoop
  <2>2. u \in joined /\ u \in Units
    BY <2>1 DEF Enough, ContextsInv
  <2> DEFINE who == IF appBag = {} THEN u ELSE App
  <2>3. /\ Required \subseteq DOMAIN Context.ctxt
        /\ Resolve(u, "v3") # Nobody => "service_domain" \in DOMAIN Context.ctxt
        /\ \A k \in DOMAIN Context.ctxt :
              SameVersion \/ k # "service_domain" => Context.ctxt[k] = who
    BY <2>1, <2>2, IdentityEnough
  <2>4. who # Nobody
    BY <2>2, WhoGives
  <2> HIDE DEF who
  <2>5. Together
    BY <2>3
  <2>6. Authtoken(Context.ctxt).password = Context.ctxt["service_password"]
    BY DEF Authtoken
  <2>7. "service_domain" \in DOMAIN Context.ctxt
           => Authtoken(Context.ctxt).domain = Context.ctxt["service_domain"]
    BY DEF Authtoken
  <2>8. Authtoken(Context.ctxt).password # Nobody
    BY <2>3, <2>4, <2>6 DEF Required
  <2>9. SameVersion /\ Resolve(Context.last, "v3") # Nobody => Authtoken(Context.ctxt).domain # Nobody
    BY <2>1, <2>3, <2>4, <2>7
  <2> QED BY <1>2, <2>5, <2>8, <2>9 DEF CredentialsBelongTogether
<1>3. CASE interface = "credentials"
  <2>1. PICK u \in Enough(CredentialDicts) : Context.ctxt = Gathered(CredentialDicts, u)
    BY <1>3, ContextIs, CompleteLoop
  <2>2. \A k \in DOMAIN Context.ctxt :
              SameVersion \/ k # "service_domain" => Context.ctxt[k] = u
    BY <2>1, CredentialsEnough DEF Enough
  <2>3. Together
    BY <2>2
  <2> QED BY <1>3, <2>3 DEF CredentialsBelongTogether
<1>4. CASE interface = "amqp"
  <2>1. PICK u \in Enough(AmqpDicts) : Context.last = u
    BY <1>4, ContextIs, CompleteLoop
  <2>2. u \in joined /\ u # Nobody /\ Has(u, "password")
    BY <2>1, AmqpEnough, WhoGives DEF Enough, ContextsInv, Has
  <2>3. Amqp.last = u
    BY <1>4, <2>1, ContextIs DEF Amqp, AmqpDicts
  <2>4. TransportHosts \in {{v \in joined : Has(v, "password")}, {u}}
    BY <2>2, <2>3 DEF TransportHosts
  <2> QED BY <1>4, <2>2, <2>4 DEF CredentialsBelongTogether
<1>5. CASE interface = "cluster"
  BY <1>5 DEF CredentialsBelongTogether, Backends, ContextsInv
<1>6. CASE interface \in {"image", "subordinate"}
  BY <1>6 DEF CredentialsBelongTogether
<1> QED BY <1>1, <1>2, <1>3, <1>4, <1>5, <1>6 DEF ContextsInv, Key

\* While no unit leaves what was published stays, and the version comes with the
\* first keys.
Grows ==
    /\ interface' = interface /\ joined \subseteq joined' /\ joined' \subseteq Units
    /\ appBag \subseteq appBag'
    /\ \A u \in joined : /\ published[u] \subseteq published'[u]
                         /\ published[u] # {} => ("v3" \in published'[u] <=> "v3" \in published[u])
    /\ appBag # {} => ("v3" \in appBag' <=> "v3" \in appBag)
    /\ appBag' # {} => \A u \in joined : published[u] = {}
    /\ \A u \in joined : published[u] = {} /\ "v3" \in published'[u] => appBag = {}

LEMMA StepsGrow ==
    ASSUME ContextsInv, [ContextsNext]_contextVars, joined \subseteq joined'
    PROVE  Grows
<1> USE DEF ContextsInv
<1>1. CASE Relate
  BY <1>1 DEF Relate, Grows
<1>2. ASSUME NEW u \in Units, Join(u) PROVE Grows
  <2>1. \A v \in joined : published'[v] = published[v]
    BY <1>2 DEF Join
  <2> QED BY <1>2, <2>1 DEF Join, Grows
<1>3. ASSUME NEW u \in Units, Leave(u) PROVE Grows
  BY <1>3 DEF Leave
<1>4. ASSUME NEW K \in SUBSET (Key[interface] \ appBag) \ {{}}, PublishForApplication(K) PROVE Grows
  BY <1>4 DEF PublishForApplication, FirstKeys, Grows
<1>5. ASSUME NEW u \in Units, NEW K \in SUBSET (Key[interface] \ published[u]) \ {{}}, Publish(u, K)
      PROVE Grows
  <2>1. \A v \in joined : published'[v] = IF v = u THEN published[u] \cup K ELSE published[v]
    BY <1>5 DEF Publish
  <2> QED BY <1>5, <2>1 DEF Publish, FirstKeys, Grows
<1>6. CASE UNCHANGED contextVars
  BY <1>6 DEF contextVars, Grows
<1>7. ASSUME NEW u \in Units, HookJoined(u) \/ HookChanged(u) PROVE Grows
  BY <1>7 DEF HookJoined, HookChanged, Grows
<1>8. CASE Reconfigure \/ HookEnds \/ DbHookFails
  BY <1>8 DEF Reconfigure, HookEnds, DbHookFails, Grows
<1> QED BY <1>1, <1>2, <1>3, <1>4, <1>5, <1>6, <1>7, <1>8 DEF ContextsNext

LEMMA GrowsSuffices ==
    ASSUME ContextsAssumption, ContextsInv, ContextsInv', Grows, NEW u \in joined, Suffices(u)
    PROVE  Suffices(u)'
<1>1. u \in Units /\ u \in joined'
  BY DEF ContextsInv, Grows
<1>2. /\ \A k : Value(u, k) # Nobody <=> k \in published[u]
      /\ \A k : Resolve(u, k) # Nobody <=> k \in appBag \/ k \in published[u]
  BY <1>1, WhoGives
<1>3. /\ \A k : Value(u, k)' # Nobody <=> k \in published'[u]
      /\ \A k : Resolve(u, k)' # Nobody <=> k \in appBag' \/ k \in published'[u]
  <2>1. u # 0 /\ MaxUnits + 1 # 0
    BY <1>1 DEF ContextsAssumption, Units
  <2> QED BY <2>1 DEF Value, Resolve, Has, Nobody, App
<1>4. /\ interface' = interface /\ appBag \subseteq appBag' /\ published[u] \subseteq published'[u]
      /\ published[u] # {} => ("v3" \in published'[u] <=> "v3" \in published[u])
      /\ appBag # {} => ("v3" \in appBag' <=> "v3" \in appBag)
      /\ appBag' # {} => published[u] = {}
      /\ published[u] = {} /\ "v3" \in published'[u] => appBag = {}
      /\ appBag' = {} \/ published'[u] = {}
  BY <1>1 DEF Grows, ContextsInv
<1>5. Required # {}
  BY DEF Required
<1>6. CASE interface = "identity"
  <2>1. /\ \A k \in Required : k \in appBag \/ k \in published[u]
        /\ "v3" \in appBag \/ "v3" \in published[u]
              => "service_domain" \in appBag \/ "service_domain" \in published[u]
    BY <1>2, <1>6, SufficesIs
  <2>2. /\ \A k \in Required : k \in appBag' \/ k \in published'[u]
        /\ "v3" \in appBag' \/ "v3" \in published'[u]
              => "service_domain" \in appBag' \/ "service_domain" \in published'[u]
    BY <1>4, <1>5, <2>1
  <2> QED BY <1>3, <1>4, <1>6, <2>2 DEF Suffices
<1>7. CASE interface = "credentials"
  <2>1. /\ \A k \in Required : k \in published[u]
        /\ "v3" \in published[u] => "service_domain" \in published[u]
    BY <1>2, <1>7, SufficesIs
  <2>2. /\ \A k \in Required : k \in published'[u]
        /\ "v3" \in published'[u] => "service_domain" \in published'[u]
    BY <1>4, <1>5, <2>1
  <2> QED BY <1>3, <1>4, <1>7, <2>2 DEF Suffices
<1>8. CASE interface \in {"shared", "amqp", "image", "subordinate"}
  BY <1>4, <1>8 DEF Suffices
<1>9. interface # "cluster"
  BY SufficesIs
<1> QED BY <1>6, <1>7, <1>8, <1>9 DEF ContextsInv, Key

LEMMA StepStaysComplete ==
    ASSUME ContextsAssumption, ContextsInv, ContextsInv', [ContextsNext]_contextVars
    PROVE  StaysComplete
<1>0. Deferred => ~committed
  <2>1. Deferred => hook # Nobody /\ Has(hook, "access-network") /\ ~ourHostname
    BY DEF Deferred
  <2> QED BY <2>1 DEF ContextsInv
<1> SUFFICES ASSUME interface' = interface, joined \subseteq joined', SameVersion'
             PROVE  /\ Complete => Complete' \/ Deferred'
                    /\ (~Complete /\ ~Deferred /\ joined # {}
                         /\ interface \in {"shared", "identity", "credentials", "amqp"})
                           => IncompleteData.missing_data # {}
  BY <1>0 DEF StaysComplete
<1>1. Grows
  BY StepsGrow
<1>2. SameVersion
  <2>1. \A u \in joined : published[u] # {} =>
               /\ u \in joined' /\ published'[u] # {}
               /\ "v3" \in published'[u] <=> "v3" \in published[u]
    BY <1>1 DEF Grows
  <2>2. \A u, v \in joined' : published'[u] # {} /\ published'[v] # {}
                                => ("v3" \in published'[u] <=> "v3" \in published'[v])
    BY DEF SameVersion, Has
  <2>3. \A u, v \in joined : published[u] # {} /\ published[v] # {}
                               => ("v3" \in published[u] <=> "v3" \in published[v])
    <3> SUFFICES ASSUME NEW u \in joined, NEW v \in joined, published[u] # {}, published[v] # {}
                 PROVE  "v3" \in published[u] <=> "v3" \in published[v]
      OBVIOUS
    <3>1. /\ u \in joined' /\ published'[u] # {} /\ v \in joined' /\ published'[v] # {}
          /\ "v3" \in published'[u] <=> "v3" \in published[u]
          /\ "v3" \in published'[v] <=> "v3" \in published[v]
      BY <2>1
    <3>2. "v3" \in published'[u] <=> "v3" \in published'[v]
      BY <2>2, <3>1
    <3> QED BY <3>1, <3>2
  <2> QED BY <2>3 DEF SameVersion, Has
<1>3. Complete => Complete' \/ Deferred'
  <2>1. Complete => interface = "cluster" \/ \E u \in joined : Suffices(u)
    BY <1>2, CompleteIs
  <2>2. (ContextsInv /\ SameVersion
            => (Complete <=> /\ interface = "cluster" \/ \E u \in joined : Suffices(u)
                             /\ ~Deferred))'
    BY CompleteIs, ContextsAssumption, PTL
  <2>3. Complete' <=> /\ interface' = "cluster" \/ \E u \in joined' : Suffices(u)'
                      /\ ~Deferred'
    BY <2>2
  <2>4. \A u \in joined : Suffices(u) => u \in joined' /\ Suffices(u)'
    BY <1>1, GrowsSuffices DEF Grows
  <2> QED BY <2>1, <2>3, <2>4
<1>4. ASSUME ~Complete, ~Deferred, interface \in {"shared", "identity", "credentials", "amqp"}, joined # {}
      PROVE  IncompleteData.missing_data # {}
  <2>1. Context.missing # {}
    BY <1>4, ContextIs, CompleteLoop, TheyAreDictionaries
  <2> QED BY <2>1 DEF IncompleteData
<1> QED BY <1>3, <1>4

\* A complete context is of one source and stays complete while the other application
\* grows, however many units this has and in whatever order they join, publish and
\* leave.
THEOREM ContextsHold == ContextsSpec => ContextsAreSound
<1>1. ContextsInit => ContextsInv
  BY ContextsInitInv, ContextsAssumption
<1>2. ContextsInv /\ [ContextsNext]_contextVars => ContextsInv'
  BY ContextsNextInv
<1>3. ContextsInv /\ ContextsInv' /\ [ContextsNext]_contextVars
         => [CredentialsBelongTogether /\ StaysComplete]_contextVars
  BY InvBelongTogether, StepStaysComplete, ContextsAssumption
<1> QED BY <1>1, <1>2, <1>3, PTL DEF ContextsSpec, ContextsAreSound

-----------------------------------------------------------------------------
(* CephPools, for any values that are asked for and any number of failures. *)

Commands == {"create", "size", "ratio", "application", "autoscale", "overwrites", "quota", "compression"}

Calls == [op : Op, todo : Seq(Commands), creates : BOOLEAN]

Pools == [exists : {TRUE}, pgs : Nat, size : Nat, ratio : Nat, application : BOOLEAN,
          autoscale : BOOLEAN, overwrites : BOOLEAN, quota : BOOLEAN,
          compression : {"none", "force"}]

PoolsTypeOK ==
    /\ expectedOsds \in {0, 5} /\ osds \in OsdCounts /\ nautilus \in BOOLEAN
    /\ pool = NoPool \/ (pool \in Pools /\ made \in Op)
    /\ call = Ready \/ call \in Calls
    /\ uncut \in BOOLEAN

\* c is a command of the sequence.
Includes(s, c) == \E i \in DOMAIN s : s[i] = c

\* A call that creates has done nothing before the pool is there, and creates the pool
\* for its operation; any other finds the pool and has only what update does.
CallFollows ==
    call # Ready =>
        /\ ValidOp(call.op)
        /\ ~pool.exists => call.creates /\ call.todo = CreateCommands(call.op)
        /\ pool.exists => ~Includes(call.todo, "create")
        /\ pool.exists /\ call.creates => made = call.op
        /\ ~call.creates => \A c \in Commands : Includes(call.todo, c) => c \in {"quota", "compression"}
        /\ Includes(call.todo, "compression") => call.op.compression = "force"

\* The command is still to come in the call that creates the pool.
Pending(c) == call # Ready /\ call.creates /\ Includes(call.todo, c)

ValuesAreSetOrPending ==
    pool.exists =>
        /\ made.type = "replicated" /\ made.pg_num # 0 => pool.pgs <= made.pg_num
        /\ uncut =>
            /\ made.type = "replicated" => pool.size = made.replicas \/ Pending("size")
            /\ made.type = "erasure" => pool.overwrites \/ Pending("overwrites")
            /\ nautilus => pool.ratio = made.weight \/ Pending("ratio")
            /\ made.quota => pool.quota \/ Pending("quota")
            /\ made.compression = "force" => pool.compression = "force" \/ Pending("compression")

PoolsInv == PoolsTypeOK /\ CallFollows /\ ValuesAreSetOrPending

\* The numbers.

\* No share is more than the groups of all the OSDs.
MostShare == 100 * MostOsds

LEMMA PowersAreNat == Powers \subseteq Nat
<1> SUFFICES ASSUME NEW e \in 0..20 PROVE 2^e \in Nat
  BY DEF Powers
<1>1. /\ 2^0 \in Nat /\ 2^1 \in Nat /\ 2^2 \in Nat /\ 2^3 \in Nat /\ 2^4 \in Nat /\ 2^5 \in Nat
      /\ 2^6 \in Nat /\ 2^7 \in Nat /\ 2^8 \in Nat /\ 2^9 \in Nat /\ 2^10 \in Nat /\ 2^11 \in Nat
      /\ 2^12 \in Nat /\ 2^13 \in Nat /\ 2^14 \in Nat /\ 2^15 \in Nat /\ 2^16 \in Nat
      /\ 2^17 \in Nat /\ 2^18 \in Nat /\ 2^19 \in Nat /\ 2^20 \in Nat
  BY SMT
<1>2. e \in {0, 1, 2, 3, 4, 5, 6, 7, 8, 9, 10, 11, 12, 13, 14, 15, 16, 17, 18, 19, 20}
  BY SMT
<1> QED BY <1>1, <1>2, Zenon

LEMMA PowersAreThere ==
    /\ 2^0 \in Powers /\ 2^1 \in Powers /\ 2^2 \in Powers /\ 2^3 \in Powers /\ 2^4 \in Powers /\ 2^5 \in Powers /\ 2^6 \in Powers
    /\ 2^7 \in Powers /\ 2^8 \in Powers /\ 2^9 \in Powers /\ 2^10 \in Powers /\ 2^11 \in Powers /\ 2^12 \in Powers /\ 2^13 \in Powers
    /\ 2^14 \in Powers /\ 2^15 \in Powers /\ 2^16 \in Powers /\ 2^17 \in Powers /\ 2^18 \in Powers /\ 2^19 \in Powers
<1>1. /\ 0 \in 0..20 /\ 1 \in 0..20 /\ 2 \in 0..20 /\ 3 \in 0..20 /\ 4 \in 0..20 /\ 5 \in 0..20 /\ 6 \in 0..20
      /\ 7 \in 0..20 /\ 8 \in 0..20 /\ 9 \in 0..20 /\ 10 \in 0..20 /\ 11 \in 0..20 /\ 12 \in 0..20 /\ 13 \in 0..20
      /\ 14 \in 0..20 /\ 15 \in 0..20 /\ 16 \in 0..20 /\ 17 \in 0..20 /\ 18 \in 0..20 /\ 19 \in 0..20
  OBVIOUS
<1>2. \A e \in 0..20 : 2^e \in Powers
  BY Zenon DEF Powers
<1> QED BY <1>1, <1>2, Zenon

\* Every number up to the most lies between two powers.
LEMMA PowerIsThere ==
    ASSUME NEW n \in Nat, 1 <= n, n <= MostShare
    PROVE  \E p \in Powers : p <= n /\ n < 2 * p
<1>1. CASE n < 128
  <2>1. \/ (2^0 <= n /\ n < 2 * 2^0) \/ (2^1 <= n /\ n < 2 * 2^1) \/ (2^2 <= n /\ n < 2 * 2^2)
        \/ (2^3 <= n /\ n < 2 * 2^3) \/ (2^4 <= n /\ n < 2 * 2^4) \/ (2^5 <= n /\ n < 2 * 2^5)
        \/ (2^6 <= n /\ n < 2 * 2^6)
    BY <1>1, SMT
  <2> QED BY <2>1, PowersAreThere, Zenon
<1>2. CASE 128 <= n /\ n < 16384
  <2>1. \/ (2^7 <= n /\ n < 2 * 2^7) \/ (2^8 <= n /\ n < 2 * 2^8) \/ (2^9 <= n /\ n < 2 * 2^9)
        \/ (2^10 <= n /\ n < 2 * 2^10) \/ (2^11 <= n /\ n < 2 * 2^11)
        \/ (2^12 <= n /\ n < 2 * 2^12) \/ (2^13 <= n /\ n < 2 * 2^13)
    BY <1>2, SMT
  <2> QED BY <2>1, PowersAreThere, Zenon
<1>3. CASE 16384 <= n
  <2>1. n <= 1000000
    BY SMT DEF MostShare, MostOsds
  <2>2. \/ (2^14 <= n /\ n < 2 * 2^14) \/ (2^15 <= n /\ n < 2 * 2^15)
        \/ (2^16 <= n /\ n < 2 * 2^16) \/ (2^17 <= n /\ n < 2 * 2^17)
        \/ (2^18 <= n /\ n < 2 * 2^18) \/ (2^19 <= n /\ n < 2 * 2^19)
    BY <1>3, <2>1, SMT
  <2> QED BY <2>2, PowersAreThere, Zenon
<1> QED BY <1>1, <1>2, <1>3, SMT

LEMMA NearestPowerIsNear ==
    ASSUME NEW n \in Nat, 1 <= n, n <= MostShare
    PROVE  /\ NearestPower(n) \in Nat
           /\ 3 * n <= 4 * NearestPower(n) /\ 2 * NearestPower(n) < 3 * n
<1> DEFINE below == PowerBelow(n)
<1>1. below \in Powers /\ below <= n /\ n < 2 * below
  BY PowerIsThere DEF PowerBelow
<1>2. below \in Nat
  BY <1>1, PowersAreNat
<1>3. NearestPower(n) = IF 4 * (n - below) > n THEN 2 * below ELSE below
  BY DEF NearestPower
<1> HIDE DEF below
<1> QED BY <1>1, <1>2, <1>3

LEMMA ShareIsBounded ==
    ASSUME CephPoolsAssumption, PoolsTypeOK, NEW size \in Nat \ {0}, NEW percent \in {10, 100}
    PROVE  /\ OsdCount \in Nat
           /\ PgShare(size, percent) \in Nat
           /\ 2 <= PgShare(size, percent) /\ PgShare(size, percent) <= MostShare
<1>1. OsdCount \in Nat /\ OsdCount <= MostOsds
  BY SMT DEF CephPoolsAssumption, PoolsTypeOK, OsdCount, MostOsds
<1>2. OsdCount * percent \in Nat /\ OsdCount * percent <= MostShare
  <2> HIDE DEF OsdCount
  <2>1. MostOsds \in Nat
    BY SMT DEF MostOsds
  <2>2. CASE percent = 10
    BY <1>1, <2>1, <2>2, SMT DEF MostShare
  <2>3. CASE percent = 100
    BY <1>1, <2>1, <2>3, SMT DEF MostShare
  <2> QED BY <2>2, <2>3
<1>3. \A a \in Nat : a \div size \in Nat /\ a \div size <= a
  <2> TAKE a \in Nat
  <2>1. a \div size \in Int /\ a = size * (a \div size) + (a % size) /\ a % size \in 0..(size - 1)
    OBVIOUS
  <2> DEFINE q == a \div size
  <2>2. size * q <= a /\ size * q > a - size /\ q \in Int
    BY <2>1
  <2> HIDE DEF q
  <2>3. q >= 0
    <3> SUFFICES ASSUME q <= -1 PROVE FALSE
      BY <2>2
    <3>1. size * q <= size * (-1)
      BY <2>2
    <3> QED BY <3>1, <2>2
  <2>4. q <= size * q
    BY <2>2, <2>3
  <2>5. q \in Nat /\ q <= a
    BY <2>2, <2>3, <2>4
  <2> QED BY <2>5 DEF q
<1>4. MostShare \in Nat /\ 2 <= MostShare
  BY SMT DEF MostShare, MostOsds
<1> DEFINE share == (OsdCount * percent) \div size
<1>5. share \in Nat /\ share <= MostShare
  BY <1>2, <1>3, <1>4
<1>6. PgShare(size, percent) = IF share < 2 THEN 2 ELSE share
  BY Zenon DEF PgShare
<1> HIDE DEF share
<1> QED BY <1>1, <1>4, <1>5, <1>6

LEMMA GroupsAreNat ==
    ASSUME CephPoolsAssumption, PoolsTypeOK, NEW size \in Nat \ {0}, NEW percent \in {10, 100}
    PROVE  GetPgs(size, percent) \in Nat
<1>1. /\ PgShare(size, percent) \in Nat
      /\ 1 <= PgShare(size, percent) /\ PgShare(size, percent) <= MostShare
  BY ShareIsBounded
<1> QED BY <1>1, NearestPowerIsNear DEF GetPgs

LEMMA ValuesAreNumbers ==
    ASSUME CephPoolsAssumption, NEW op \in Op
    PROVE  op.replicas \in Nat \ {0} /\ op.pg_num \in Nat /\ op.weight \in {10, 100}
BY DEF Op, CephPoolsAssumption

\* What is asked for is the most.
LEMMA GroupsAreAsAsked ==
    ASSUME CephPoolsAssumption, PoolsTypeOK, NEW op \in Op
    PROVE  /\ PgNumOf(op) \in Nat
           /\ op.type = "replicated" /\ op.pg_num # 0 => PgNumOf(op) <= op.pg_num
<1>1. op.replicas \in Nat \ {0} /\ op.pg_num \in Nat /\ op.weight \in {10, 100}
  BY ValuesAreNumbers
<1>2. /\ GetPgs(3, op.weight) \in Nat /\ GetPgs(op.replicas, op.weight) \in Nat
      /\ GetPgs(op.replicas, 100) \in Nat
  BY <1>1, GroupsAreNat
<1> QED BY <1>1, <1>2 DEF PgNumOf

\* The commands.

LEMMA HasConcat ==
    ASSUME NEW s \in Seq(Commands), NEW t \in Seq(Commands), NEW c
    PROVE  /\ s \o t \in Seq(Commands)
           /\ Includes(s \o t, c) <=> Includes(s, c) \/ Includes(t, c)
<1>1. s \o t \in Seq(Commands) /\ Len(s \o t) = Len(s) + Len(t)
  OBVIOUS
<1>2. \A i \in 1..Len(s) : (s \o t)[i] = s[i] /\ i \in DOMAIN (s \o t)
  OBVIOUS
<1>3. \A i \in 1..Len(t) : (s \o t)[Len(s) + i] = t[i] /\ Len(s) + i \in DOMAIN (s \o t)
  OBVIOUS
<1>4. ASSUME NEW i \in DOMAIN (s \o t), (s \o t)[i] = c PROVE Includes(s, c) \/ Includes(t, c)
  <2>1. CASE i <= Len(s)
    BY <1>4, <2>1 DEF Includes
  <2>2. CASE i > Len(s)
    <3>1. i - Len(s) \in 1..Len(t) /\ t[i - Len(s)] = c
      BY <1>4, <2>2
    <3> QED BY <3>1 DEF Includes
  <2> QED BY <2>1, <2>2
<1>5. ASSUME Includes(s, c) \/ Includes(t, c) PROVE Includes(s \o t, c)
  <2>1. CASE Includes(s, c)
    <3>1. PICK i \in DOMAIN s : s[i] = c
      BY <2>1 DEF Includes
    <3> QED BY <1>2, <3>1 DEF Includes
  <2>2. CASE Includes(t, c)
    <3>1. PICK i \in DOMAIN t : t[i] = c
      BY <2>2 DEF Includes
    <3>2. Len(s) + i \in DOMAIN (s \o t) /\ (s \o t)[Len(s) + i] = c
      BY <1>3, <3>1
    <3> QED BY <3>2 DEF Includes
  <2> QED BY <1>5, <2>1, <2>2
<1>6. ASSUME Includes(s \o t, c) PROVE Includes(s, c) \/ Includes(t, c)
  BY <1>4, <1>6 DEF Includes
<1> QED BY <1>1, <1>5, <1>6

LEMMA HasOnly ==
    ASSUME NEW d \in Commands, NEW p \in BOOLEAN, NEW c
    PROVE  Only(d, p) \in Seq(Commands) /\ (Includes(Only(d, p), c) <=> p /\ c = d)
BY DEF Only, Includes

LEMMA HasTail ==
    ASSUME NEW s \in Seq(Commands), s # <<>>, NEW c
    PROVE  /\ Tail(s) \in Seq(Commands)
           /\ Includes(Tail(s), c) => Includes(s, c)
           /\ Includes(s, c) => c = Head(s) \/ Includes(Tail(s), c)
           /\ Includes(s, Head(s))
<1>1. Tail(s) \in Seq(Commands) /\ Len(Tail(s)) = Len(s) - 1 /\ Head(s) = s[1] /\ 1 \in DOMAIN s
  OBVIOUS
<1>2. \A i \in DOMAIN Tail(s) : Tail(s)[i] = s[i + 1] /\ i + 1 \in DOMAIN s
  OBVIOUS
<1>3. \A i \in DOMAIN s : i = 1 \/ (i - 1 \in DOMAIN Tail(s) /\ Tail(s)[i - 1] = s[i])
  OBVIOUS
<1> QED BY <1>1, <1>2, <1>3 DEF Includes

LEMMA UpdateCommandsAre ==
    ASSUME NEW op \in Op, NEW c
    PROVE  /\ UpdateCommands(op) \in Seq(Commands)
           /\ Includes(UpdateCommands(op), c) <=>
                (op.quota /\ c = "quota") \/ (op.compression # "none" /\ c = "compression")
<1>1. op.quota \in BOOLEAN
  BY DEF Op
<1>2. /\ Only("quota", op.quota) \in Seq(Commands)
      /\ Only("compression", op.compression # "none") \in Seq(Commands)
      /\ Includes(Only("quota", op.quota), c) <=> op.quota /\ c = "quota"
      /\ Includes(Only("compression", op.compression # "none"), c) <=> op.compression # "none" /\ c = "compression"
  BY <1>1, HasOnly DEF Commands
<1> QED BY <1>2, HasConcat DEF UpdateCommands

LEMMA PostCreateCommandsAre ==
    ASSUME PoolsTypeOK, NEW op \in Op, NEW c
    PROVE  /\ PostCreateCommands(op) \in Seq(Commands)
           /\ Includes(PostCreateCommands(op), c) <=>
                \/ op.type = "replicated" /\ c = "size"
                \/ nautilus /\ c = "ratio"
                \/ c \in {"application", "autoscale"}
                \/ op.type = "erasure" /\ c = "overwrites"
<1> DEFINE size == Only("size", op.type = "replicated")
           ratio == Only("ratio", nautilus)
           always == <<"application", "autoscale">>
           overwrites == Only("overwrites", op.type = "erasure")
<1>1. /\ size \in Seq(Commands) /\ (Includes(size, c) <=> op.type = "replicated" /\ c = "size")
      /\ ratio \in Seq(Commands) /\ (Includes(ratio, c) <=> nautilus /\ c = "ratio")
      /\ overwrites \in Seq(Commands) /\ (Includes(overwrites, c) <=> op.type = "erasure" /\ c = "overwrites")
  BY HasOnly DEF Commands, PoolsTypeOK
<1>2. always \in Seq(Commands) /\ (Includes(always, c) <=> c \in {"application", "autoscale"})
  BY DEF Includes, Commands
<1>3. PostCreateCommands(op) = ((size \o ratio) \o always) \o overwrites
  BY DEF PostCreateCommands
<1> HIDE DEF size, ratio, always, overwrites
<1>4. size \o ratio \in Seq(Commands) /\ (Includes(size \o ratio, c) <=> Includes(size, c) \/ Includes(ratio, c))
  BY <1>1, HasConcat
<1>5. /\ (size \o ratio) \o always \in Seq(Commands)
      /\ Includes((size \o ratio) \o always, c) <=> Includes(size \o ratio, c) \/ Includes(always, c)
  BY <1>2, <1>4, HasConcat
<1>6. /\ ((size \o ratio) \o always) \o overwrites \in Seq(Commands)
      /\ Includes(((size \o ratio) \o always) \o overwrites, c)
            <=> Includes((size \o ratio) \o always, c) \/ Includes(overwrites, c)
  BY <1>1, <1>5, HasConcat
<1> QED BY <1>1, <1>2, <1>3, <1>4, <1>5, <1>6

LEMMA CreateCommandsAre ==
    ASSUME PoolsTypeOK, NEW op \in Op
    PROVE  /\ CreateCommands(op) \in Seq(Commands) /\ CreateCommands(op) # <<>>
           /\ Head(CreateCommands(op)) = "create"
           /\ Tail(CreateCommands(op)) \in Seq(Commands)
           /\ \A c : Includes(Tail(CreateCommands(op)), c) <=>
                        Includes(PostCreateCommands(op), c) \/ Includes(UpdateCommands(op), c)
<1> DEFINE post == PostCreateCommands(op)
           update == UpdateCommands(op)
<1>1. post \in Seq(Commands) /\ update \in Seq(Commands)
  BY UpdateCommandsAre, PostCreateCommandsAre
<1>2. CreateCommands(op) = (<<"create">> \o post) \o update
  BY DEF CreateCommands
<1> HIDE DEF post, update
<1>3. <<"create">> \in Seq(Commands)
  BY DEF Commands
<1>4. /\ (<<"create">> \o post) \o update \in Seq(Commands)
      /\ (<<"create">> \o post) \o update # <<>>
      /\ Head((<<"create">> \o post) \o update) = "create"
  BY <1>1, <1>3
<1>5. Tail((<<"create">> \o post) \o update) = post \o update
  BY <1>1, <1>3
<1>6. \A c : Includes(post \o update, c) <=> Includes(post, c) \/ Includes(update, c)
  BY <1>1, HasConcat
<1>7. post \o update \in Seq(Commands)
  BY <1>1, HasConcat
<1> QED BY <1>2, <1>4, <1>5, <1>6, <1>7 DEF post, update

\* The steps.

LEMMA CommandsLast ==
    ASSUME NEW op, UNCHANGED nautilus
    PROVE  CreateCommands(op)' = CreateCommands(op)
BY DEF CreateCommands, PostCreateCommands, UpdateCommands, Only

LEMMA CallsAreNotReady == \A c \in Calls : c # Ready
BY DEF Calls, Ready, NoOp, Op

\* A command is done.
LEMMA DoneDrops ==
    ASSUME call \in Calls, call.todo # <<>>, Done
    PROVE  /\ call' \in Calls /\ call'.op = call.op /\ call'.creates = call.creates
           /\ \A c : Includes(call'.todo, c) => Includes(call.todo, c)
           /\ \A c : Includes(call.todo, c) => c = Head(call.todo) \/ Includes(call'.todo, c)
           /\ Includes(call.todo, Head(call.todo))
<1>1. call.todo \in Seq(Commands) /\ call = [op |-> call.op, todo |-> call.todo, creates |-> call.creates]
  BY DEF Calls
<1>2. call' = [op |-> call.op, todo |-> Tail(call.todo), creates |-> call.creates]
  BY <1>1 DEF Done
<1>3. Tail(call.todo) \in Seq(Commands)
  BY <1>1, HasTail
<1>4. call' \in Calls
  BY <1>2, <1>3 DEF Calls
<1>5. call'.op = call.op /\ call'.creates = call.creates /\ call'.todo = Tail(call.todo)
  BY <1>2
<1> QED BY <1>1, <1>4, <1>5, HasTail

\* Only "create" is done to a pool that is not there.
LEMMA OthersNeedThePool ==
    ASSUME PoolsInv, call.todo # <<>>, Head(call.todo) # "create"
    PROVE  pool.exists /\ call \in Calls /\ pool \in Pools /\ made \in Op
<1>1. call # Ready /\ call \in Calls
  BY DEF PoolsInv, PoolsTypeOK, Ready
<1>2. pool.exists
  BY <1>1, CreateCommandsAre DEF PoolsInv, CallFollows, Calls
<1> QED BY <1>1, <1>2 DEF PoolsInv, PoolsTypeOK, NoPool

\* What a step that carries a command on has to show of the call.
LEMMA CallGoesOn ==
    ASSUME PoolsInv, call.todo # <<>>, Done, Head(call.todo) # "create", pool'.exists,
           UNCHANGED <<made, nautilus>>
    PROVE  CallFollows'
<1>1. pool.exists /\ call \in Calls
  BY OthersNeedThePool
<1>2. call # Ready /\ CallFollows
  BY <1>1, CallsAreNotReady DEF PoolsInv
<1> QED BY <1>1, <1>2, DoneDrops DEF CallFollows

LEMMA ApplyKeeps ==
    ASSUME PoolsInv, NEW op \in Op, Apply(op)
    PROVE  PoolsInv'
<1>1. /\ call = Ready /\ ValidOp(op) /\ UNCHANGED <<expectedOsds, osds, nautilus, pool, made, uncut>>
      /\ call' = [op |-> op, creates |-> ~pool.exists,
                  todo |-> IF pool.exists THEN UpdateCommands(op) ELSE CreateCommands(op)]
  BY DEF Apply, cluster
<1>2. PoolsTypeOK /\ ValuesAreSetOrPending
  BY DEF PoolsInv
<1>3. pool.exists \in BOOLEAN
  <2>1. pool = NoPool \/ pool \in Pools
    BY <1>2 DEF PoolsTypeOK
  <2>2. CASE pool = NoPool
    BY <2>2 DEF NoPool
  <2>3. CASE pool \in Pools
    BY <2>3 DEF Pools
  <2> QED BY <2>1, <2>2, <2>3
<1>4. call' \in Calls
  <2>1. UpdateCommands(op) \in Seq(Commands) /\ CreateCommands(op) \in Seq(Commands)
    BY <1>2, UpdateCommandsAre, CreateCommandsAre
  <2> QED BY <1>1, <1>3, <2>1 DEF Calls
<1>5. PoolsTypeOK'
  BY <1>1, <1>2, <1>4 DEF PoolsTypeOK
<1>6. /\ call'.op = op /\ call'.creates = ~pool.exists
      /\ call'.todo = IF pool.exists THEN UpdateCommands(op) ELSE CreateCommands(op)
  BY <1>1
<1>7. op.compression # "none" => op.compression = "force"
  BY <1>1 DEF ValidOp, Op
<1>8. CASE pool.exists
  <2>1. CallFollows'
    <3>1. call'.todo = UpdateCommands(op) /\ ~call'.creates /\ pool'.exists
      BY <1>1, <1>6, <1>8
    <3>2. \A c : Includes(UpdateCommands(op), c) => c \in {"quota", "compression"}
      BY UpdateCommandsAre
    <3>3. Includes(UpdateCommands(op), "compression") => op.compression = "force"
      BY <1>7, UpdateCommandsAre
    <3>4. ValidOp(op)' = ValidOp(op)
      BY DEF ValidOp
    <3> QED BY <1>1, <1>6, <3>1, <3>2, <3>3, <3>4 DEF CallFollows, ValidOp
  <2>2. ValuesAreSetOrPending'
    <3>1. \A c : ~Pending(c)
      BY <1>1 DEF Pending
    <3> QED BY <1>1, <1>2, <3>1 DEF ValuesAreSetOrPending
  <2> QED BY <1>5, <2>1, <2>2 DEF PoolsInv
<1>9. CASE ~pool.exists
  <2>1. CallFollows'
    <3>1. call'.todo = CreateCommands(op) /\ call'.creates /\ ~pool'.exists
      BY <1>1, <1>6, <1>9
    <3>2. CreateCommands(op)' = CreateCommands(op)
      BY <1>1, CommandsLast
    <3>3. Includes(CreateCommands(op), "compression") => op.compression = "force"
      BY <1>2, <1>7, CreateCommandsAre, HasTail, PostCreateCommandsAre, UpdateCommandsAre
    <3> QED BY <1>1, <1>6, <3>1, <3>2, <3>3 DEF CallFollows, ValidOp, CreateCommands, PostCreateCommands,
                UpdateCommands
  <2>2. ValuesAreSetOrPending'
    BY <1>1, <1>9 DEF ValuesAreSetOrPending
  <2> QED BY <1>5, <2>1, <2>2 DEF PoolsInv
<1> QED BY <1>3, <1>8, <1>9

LEMMA CreatePoolKeeps ==
    ASSUME CephPoolsAssumption, PoolsInv, CreatePool
    PROVE  PoolsInv'
<1> DEFINE op == call.op
<1>1. call.todo # <<>> /\ Head(call.todo) = "create" /\ Done
  BY DEF CreatePool, Doing
<1>2. call # Ready /\ call \in Calls
  BY <1>1 DEF PoolsInv, PoolsTypeOK, Ready
<1>3. op \in Op
  BY <1>2 DEF Calls
<1>4. /\ call' \in Calls /\ call'.op = op /\ call'.creates = call.creates
      /\ \A c : Includes(call'.todo, c) => Includes(call.todo, c)
      /\ Includes(call.todo, "create")
  BY <1>1, <1>2, DoneDrops
<1>5. ~pool.exists /\ call.creates /\ call.todo = CreateCommands(op)
  BY <1>2, <1>4 DEF PoolsInv, CallFollows, PoolsTypeOK, Pools, NoPool
<1>6. call'.todo = Tail(CreateCommands(op))
  <2>1. call = [op |-> call.op, todo |-> call.todo, creates |-> call.creates]
    BY <1>2 DEF Calls
  <2> QED BY <1>1, <1>5, <2>1 DEF Done
<1>7. \A c : Includes(call'.todo, c) <=> Includes(PostCreateCommands(op), c) \/ Includes(UpdateCommands(op), c)
  BY <1>3, <1>6, CreateCommandsAre DEF PoolsInv
<1>8. PgNumOf(op) \in Nat /\ (op.type = "replicated" /\ op.pg_num # 0 => PgNumOf(op) <= op.pg_num)
  BY <1>3, GroupsAreAsAsked DEF PoolsInv
<1>9. /\ pool' = [exists |-> TRUE, pgs |-> PgNumOf(op), size |-> 0, ratio |-> 0,
                  application |-> FALSE, autoscale |-> FALSE, overwrites |-> FALSE,
                  quota |-> FALSE, compression |-> "none"]
      /\ made' = op /\ UNCHANGED <<expectedOsds, osds, nautilus, uncut>>
  BY DEF CreatePool, cluster
<1> HIDE DEF op
<1>10. pool' \in Pools /\ pool'.exists /\ pool'.pgs = PgNumOf(op)
  BY <1>8, <1>9 DEF Pools
<1>11. PoolsTypeOK'
  BY <1>3, <1>4, <1>9, <1>10 DEF PoolsInv, PoolsTypeOK
<1>12. CallFollows'
  <2>1. ValidOp(call'.op)
    BY <1>2, <1>4 DEF PoolsInv, CallFollows, op
  <2>2. ~Includes(call'.todo, "create")
    BY <1>3, <1>7, PostCreateCommandsAre, UpdateCommandsAre DEF PoolsInv
  <2>3. Includes(call'.todo, "compression") => call'.op.compression = "force"
    BY <1>2, <1>4 DEF PoolsInv, CallFollows, op
  <2> QED BY <1>4, <1>5, <1>9, <1>10, <2>1, <2>2, <2>3 DEF CallFollows, ValidOp
<1>13. \A c : Includes(call'.todo, c) => Pending(c)'
  BY <1>4, <1>5, CallsAreNotReady DEF Pending, Includes
<1>14. ValuesAreSetOrPending'
  <2>1. /\ op.type = "replicated" => Includes(call'.todo, "size")
        /\ op.type = "erasure" => Includes(call'.todo, "overwrites")
        /\ nautilus => Includes(call'.todo, "ratio")
        /\ op.quota => Includes(call'.todo, "quota")
        /\ op.compression = "force" => Includes(call'.todo, "compression")
    BY <1>3, <1>7, PostCreateCommandsAre, UpdateCommandsAre DEF PoolsInv
  <2> QED BY <1>8, <1>9, <1>10, <1>13, <2>1 DEF ValuesAreSetOrPending
<1> QED BY <1>11, <1>12, <1>14 DEF PoolsInv

\* A value is set.
LEMMA SetKeeps ==
    ASSUME CephPoolsAssumption, PoolsInv, Set
    PROVE  PoolsInv'
<1>1. /\ call.todo # <<>> /\ Done /\ Head(call.todo) # "create"
      /\ UNCHANGED <<expectedOsds, osds, nautilus, made, uncut>>
  BY DEF Set, SetOfPool, Doing, cluster
<1>2. pool.exists /\ call \in Calls /\ pool \in Pools /\ made \in Op
  BY <1>1, OthersNeedThePool
<1>3. call # Ready /\ ValidOp(call.op)
  BY <1>2, CallsAreNotReady DEF PoolsInv, CallFollows
<1>4. /\ call' \in Calls /\ call'.op = call.op /\ call'.creates = call.creates
      /\ \A c : Includes(call.todo, c) => c = Head(call.todo) \/ Includes(call'.todo, c)
      /\ Includes(call.todo, Head(call.todo)) /\ call' # Ready
  BY <1>1, <1>2, DoneDrops, CallsAreNotReady
<1>5. call.op.replicas \in Nat /\ call.op.weight \in Nat
  <2>1. call.op \in Op
    BY <1>2 DEF Calls
  <2>2. call.op.replicas \in Nat \ {0} /\ call.op.weight \in {10, 100}
    BY <2>1, ValuesAreNumbers
  <2> QED BY <2>2
<1>6. Includes(call.todo, "compression") => call.op.compression = "force"
  BY <1>3 DEF PoolsInv, CallFollows
<1>7. (Includes(call.todo, "size") \/ Includes(call.todo, "ratio")) => call.creates /\ made = call.op
  BY <1>2, <1>3 DEF PoolsInv, CallFollows, Commands
<1>8. \A c : Pending(c) => c = Head(call.todo) \/ Pending(c)'
  BY <1>4 DEF Pending
<1>9. pool = [exists |-> TRUE, pgs |-> pool.pgs, size |-> pool.size, ratio |-> pool.ratio,
              application |-> pool.application, autoscale |-> pool.autoscale,
              overwrites |-> pool.overwrites, quota |-> pool.quota,
              compression |-> pool.compression]
  BY <1>2 DEF Pools
<1> DEFINE Sets(key, value) ==
        /\ pool' \in Pools /\ pool'.exists /\ pool'.pgs = pool.pgs
        /\ pool'.size = IF key = "size" THEN value ELSE pool.size
        /\ pool'.ratio = IF key = "ratio" THEN value ELSE pool.ratio
        /\ pool'.overwrites = IF key = "overwrites" THEN value ELSE pool.overwrites
        /\ pool'.quota = IF key = "quota" THEN value ELSE pool.quota
        /\ pool'.compression = IF key = "compression" THEN value ELSE pool.compression
<1>10. ASSUME pool'.exists, pool' \in Pools, ValuesAreSetOrPending' PROVE PoolsInv'
  <2>1. PoolsTypeOK'
    BY <1>1, <1>2, <1>4, <1>10 DEF PoolsInv, PoolsTypeOK
  <2>2. CallFollows'
    BY <1>1, <1>10, CallGoesOn
  <2> QED BY <1>10, <2>1, <2>2 DEF PoolsInv
<1>11. ValuesAreSetOrPending
  BY DEF PoolsInv
<1>12. CASE SetOfPool("size", "size", call.op.replicas)
  <2>1. Sets("size", made.replicas) /\ Head(call.todo) = "size"
    BY <1>2, <1>4, <1>5, <1>7, <1>9, <1>12 DEF SetOfPool, Doing, Pools
  <2> QED BY <1>1, <1>2, <1>8, <1>10, <1>11, <2>1 DEF ValuesAreSetOrPending
<1>13. CASE SetOfPool("ratio", "ratio", call.op.weight)
  <2>1. Sets("ratio", made.weight) /\ Head(call.todo) = "ratio"
    BY <1>2, <1>4, <1>5, <1>7, <1>9, <1>13 DEF SetOfPool, Doing, Pools
  <2> QED BY <1>1, <1>2, <1>8, <1>10, <1>11, <2>1 DEF ValuesAreSetOrPending
<1>14. CASE SetOfPool("application", "application", TRUE)
  <2>1. Sets("application", TRUE) /\ Head(call.todo) = "application"
    BY <1>2, <1>9, <1>14 DEF SetOfPool, Doing, Pools
  <2> QED BY <1>1, <1>2, <1>8, <1>10, <1>11, <2>1 DEF ValuesAreSetOrPending
<1>15. CASE SetOfPool("autoscale", "autoscale", TRUE)
  <2>1. Sets("autoscale", TRUE) /\ Head(call.todo) = "autoscale"
    BY <1>2, <1>9, <1>15 DEF SetOfPool, Doing, Pools
  <2> QED BY <1>1, <1>2, <1>8, <1>10, <1>11, <2>1 DEF ValuesAreSetOrPending
<1>16. CASE SetOfPool("overwrites", "overwrites", TRUE)
  <2>1. Sets("overwrites", TRUE) /\ Head(call.todo) = "overwrites"
    BY <1>2, <1>9, <1>16 DEF SetOfPool, Doing, Pools
  <2> QED BY <1>1, <1>2, <1>8, <1>10, <1>11, <2>1 DEF ValuesAreSetOrPending
<1>17. CASE SetOfPool("quota", "quota", TRUE)
  <2>1. Sets("quota", TRUE) /\ Head(call.todo) = "quota"
    BY <1>2, <1>9, <1>17 DEF SetOfPool, Doing, Pools
  <2> QED BY <1>1, <1>2, <1>8, <1>10, <1>11, <2>1 DEF ValuesAreSetOrPending
<1>18. CASE SetOfPool("compression", "compression", call.op.compression)
  <2>1. Sets("compression", "force") /\ Head(call.todo) = "compression"
    BY <1>2, <1>4, <1>6, <1>9, <1>18 DEF SetOfPool, Doing, Pools
  <2> QED BY <1>1, <1>2, <1>8, <1>10, <1>11, <2>1 DEF ValuesAreSetOrPending
<1> QED BY <1>12, <1>13, <1>14, <1>15, <1>16, <1>17, <1>18 DEF Set

LEMMA ReturnedKeeps == ASSUME PoolsInv, Returned PROVE PoolsInv'
<1>1. /\ call.todo = <<>> /\ call' = Ready
      /\ UNCHANGED <<expectedOsds, osds, nautilus, pool, made, uncut>>
  BY DEF Returned, cluster
<1>2. \A c : ~Pending(c)
  BY <1>1 DEF Pending, Includes
<1>3. PoolsTypeOK' /\ CallFollows'
  BY <1>1 DEF PoolsInv, PoolsTypeOK, CallFollows
<1>4. ValuesAreSetOrPending'
  BY <1>1, <1>2 DEF PoolsInv, ValuesAreSetOrPending
<1> QED BY <1>3, <1>4 DEF PoolsInv

LEMMA CommandFailsKeeps == ASSUME PoolsInv, CommandFails PROVE PoolsInv'
<1>1. /\ call.todo # <<>> /\ UNCHANGED <<expectedOsds, osds, nautilus, pool, made>>
      /\ PoolsTypeOK /\ ValuesAreSetOrPending
  BY DEF CommandFails, cluster, PoolsInv
<1>2. CASE Head(call.todo) \in {"application", "autoscale"}
  <2>1. Done /\ UNCHANGED uncut /\ Head(call.todo) # "create"
    BY <1>2 DEF CommandFails
  <2>2. pool.exists /\ call \in Calls /\ pool \in Pools /\ made \in Op
    BY <1>1, <2>1, OthersNeedThePool
  <2>3. /\ call' \in Calls /\ call'.op = call.op /\ call'.creates = call.creates
        /\ \A c : Includes(call.todo, c) => c = Head(call.todo) \/ Includes(call'.todo, c)
        /\ call' # Ready
    BY <1>1, <2>1, <2>2, DoneDrops, CallsAreNotReady
  <2>4. PoolsTypeOK'
    BY <1>1, <2>1, <2>3 DEF PoolsTypeOK
  <2>5. CallFollows'
    BY <1>1, <2>1, <2>2, CallGoesOn
  <2>6. \A c : Pending(c) => c \in {"application", "autoscale"} \/ Pending(c)'
    BY <1>2, <2>3 DEF Pending
  <2>7. ValuesAreSetOrPending'
    BY <1>1, <2>1, <2>6 DEF ValuesAreSetOrPending
  <2> QED BY <2>4, <2>5, <2>7 DEF PoolsInv
<1>3. CASE Head(call.todo) \notin {"application", "autoscale"}
  <2>1. call' = Ready /\ uncut' = (uncut /\ ~(call.creates /\ pool.exists))
    BY <1>3 DEF CommandFails
  <2>2. PoolsTypeOK' /\ CallFollows'
    BY <1>1, <2>1 DEF PoolsTypeOK, CallFollows
  <2>3. pool.exists /\ uncut' => uncut /\ \A c : ~Pending(c)
    BY <2>1 DEF Pending
  <2>4. ValuesAreSetOrPending'
    BY <1>1, <2>3 DEF ValuesAreSetOrPending
  <2> QED BY <2>2, <2>4 DEF PoolsInv
<1> QED BY <1>2, <1>3

LEMMA PoolsInitInv == CephPoolsAssumption /\ PoolsInit => PoolsInv
BY DEF PoolsInit, PoolsInv, PoolsTypeOK, CallFollows, ValuesAreSetOrPending, NoPool

LEMMA PoolsNextInv == CephPoolsAssumption /\ PoolsInv /\ [PoolsNext]_poolVars => PoolsInv'
<1> SUFFICES ASSUME CephPoolsAssumption, PoolsInv, [PoolsNext]_poolVars PROVE PoolsInv'
  OBVIOUS
<1>1. ASSUME NEW op \in Op, Apply(op) PROVE PoolsInv'
  BY <1>1, ApplyKeeps
<1>2. ASSUME CreatePool PROVE PoolsInv'
  BY <1>2, CreatePoolKeeps
<1>3. ASSUME Set PROVE PoolsInv'
  BY <1>3, SetKeeps
<1>4. ASSUME Returned PROVE PoolsInv'
  BY <1>4, ReturnedKeeps
<1>5. ASSUME CommandFails PROVE PoolsInv'
  BY <1>5, CommandFailsKeeps
<1>6. ASSUME UNCHANGED poolVars PROVE PoolsInv'
  BY <1>6 DEF poolVars, PoolsInv, PoolsTypeOK, CallFollows, ValuesAreSetOrPending, Pending,
              CreateCommands, PostCreateCommands, UpdateCommands, ValidOp, Includes, Only
<1> QED BY <1>1, <1>2, <1>3, <1>4, <1>5, <1>6 DEF PoolsNext

LEMMA PoolsInvImplies == CephPoolsAssumption /\ PoolsInv => PoolsAreAsAsked
<1> SUFFICES ASSUME CephPoolsAssumption, PoolsInv PROVE PoolsAreAsAsked
  OBVIOUS
<1>1. (call = Ready /\ pool.exists /\ uncut) =>
          /\ made.type = "replicated" => pool.size = made.replicas
          /\ made.type = "erasure" => pool.overwrites
          /\ nautilus => pool.ratio = made.weight
          /\ made.quota => pool.quota
          /\ made.compression = "force" => pool.compression = "force"
  BY DEF PoolsInv, ValuesAreSetOrPending, Pending
<1>2. pool.exists =>
          /\ pool.compression # "wrong"
          /\ made.type = "replicated" /\ made.pg_num # 0 => pool.pgs <= made.pg_num
  <2>1. pool.exists => pool \in Pools
    BY DEF PoolsInv, PoolsTypeOK, NoPool
  <2> QED BY <2>1 DEF PoolsInv, Pools, ValuesAreSetOrPending
<1>3. ASSUME Doing("create"), OsdCount # 0,
             NEW size, size = IF call.op.type = "erasure" THEN 3 ELSE call.op.replicas
      PROVE  /\ 3 * PgShare(size, call.op.weight) <= 4 * GetPgs(size, call.op.weight)
             /\ 2 * GetPgs(size, call.op.weight) < 3 * PgShare(size, call.op.weight)
  <2>1. call \in Calls
    BY <1>3 DEF Doing, PoolsInv, PoolsTypeOK, Ready
  <2>2. size \in Nat \ {0} /\ call.op.weight \in {10, 100}
    <3>1. call.op \in Op
      BY <2>1 DEF Calls
    <3> QED BY <1>3, <3>1, ValuesAreNumbers
  <2> DEFINE share == PgShare(size, call.op.weight)
  <2>3. share \in Nat /\ 1 <= share /\ share <= MostShare
    BY <2>2, ShareIsBounded DEF PoolsInv
  <2>4. GetPgs(size, call.op.weight) = NearestPower(share)
    BY <1>3 DEF GetPgs
  <2> HIDE DEF share
  <2>5. 3 * share <= 4 * NearestPower(share) /\ 2 * NearestPower(share) < 3 * share
    BY <2>3, NearestPowerIsNear
  <2> QED BY <2>4, <2>5 DEF share
<1> QED BY <1>1, <1>2, <1>3 DEF PoolsAreAsAsked

\* A pool has what it was created with, whatever values are asked for and whatever
\* commands fail.
THEOREM PoolsFollowTheirOperation == PoolsSpec => []PoolsAreAsAsked
<1>1. CephPoolsAssumption /\ PoolsInit => PoolsInv
  BY PoolsInitInv
<1>2. CephPoolsAssumption /\ PoolsInv /\ [PoolsNext]_poolVars => PoolsInv'
  BY PoolsNextInv
<1>3. CephPoolsAssumption /\ PoolsInv => PoolsAreAsAsked
  BY PoolsInvImplies
<1> QED BY <1>1, <1>2, <1>3, CephPoolsAssumption, PTL DEF PoolsSpec

-----------------------------------------------------------------------------
(* PeerReadiness, for any number of units. *)

PeersTypeOK ==
    /\ peers \subseteq expected /\ expected \subseteq PeerUnits
    /\ DOMAIN said = PeerUnits /\ DOMAIN reading = PeerUnits
    /\ \A u \in PeerUnits : reading[u] = {} \/
          \E r, a \in BOOLEAN : reading[u] = {[ready |-> r, application |-> a]}

\* What makes a unit ready, but for the number of units.
Core(u) ==
    /\ ~maintenance /\ u \notin pausedPeers /\ initialised
    /\ "shared-db" \in dependencies /\ u \in allowed
    /\ goalState /\ expectsHa => "ha" \in dependencies

AllSaid(u) == \A p \in peers \ {u} : said[p] = "READY"

\* A verdict holds only if its condition does, and misses it only while units are
\* still to come.
Fits(verdict, condition) ==
    /\ verdict => condition
    /\ condition /\ peers = expected => verdict

\* What a unit with no hook left has said, or is about to say.
QuietUnitsFit ==
    \A u \in peers \ due :
        /\ \A found \in reading[u] :
              Fits(found.ready, Core(u)) /\ Fits(found.application, Core(u) /\ AllSaid(u))
        /\ reading[u] = {} =>
              Fits(said[u] = "READY", Core(u)) /\ Fits(u \in claims, Core(u) /\ AllSaid(u))

PeersInv == PeersTypeOK /\ QuietUnitsFit

LEMMA PeersInitInv == PeersInit => PeersInv
<1>1. (CHOOSE u \in PeerUnits : TRUE) \in PeerUnits
  BY PeersAssumption
<1> QED BY <1>1 DEF PeersInit, PeersInv, PeersTypeOK, QuietUnitsFit

\* With all the units there, the unit is ready as soon as the rest is.
LEMMA ReadyIsCore ==
    ASSUME NEW u, PeersTypeOK
    PROVE  (UnitReady(u) => Core(u)) /\ (Core(u) /\ peers = expected => UnitReady(u))
<1>1. ASSUME peers = expected
      PROVE Cardinality(peers \ {u}) >= Cardinality(expected \ {u})
  <2>1. IsFiniteSet(peers \ {u})
    BY PeersAssumption, FS_Subset DEF PeersTypeOK
  <2> QED BY <1>1, <2>1, FS_CardinalityType
<1> QED BY <1>1 DEF UnitReady, Core, IsDbReady, IsExpectedScale

LEMMA PeersNextInv == PeersInv /\ [PeersNext]_peerVars => PeersInv'
<1> SUFFICES ASSUME PeersInv, [PeersNext]_peerVars PROVE PeersInv'
  OBVIOUS
<1> USE DEF PeersInv, PeersTypeOK, QuietUnitsFit, Fits, Core, AllSaid, database, unitData
<1>1. ASSUME NEW u \in PeerUnits, ReadsState(u) PROVE PeersInv'
  <2>1. (UnitReady(u) => Core(u)) /\ (Core(u) /\ peers = expected => UnitReady(u))
    BY ReadyIsCore
  <2> DEFINE found == [ready |-> UnitReady(u), application |-> UnitReady(u) /\ ArePeersReady(u)]
  <2>2. UnitReady(u) \in BOOLEAN /\ (UnitReady(u) /\ ArePeersReady(u)) \in BOOLEAN
    BY DEF UnitReady, ArePeersReady
  <2>3. \E r, a \in BOOLEAN : found = [ready |-> r, application |-> a]
    BY <2>2
  <2>4. found.ready = UnitReady(u) /\ found.application = (UnitReady(u) /\ AllSaid(u))
    BY DEF ArePeersReady
  <2>5. /\ reading' = [reading EXCEPT ![u] = {found}] /\ due' = due \ {u}
        /\ UNCHANGED <<goalState, expectsHa, expected, peers, dependencies, database,
                       pausedPeers, said, claims>>
    BY <1>1 DEF ReadsState
  <2> HIDE DEF found
  <2>6. PeersTypeOK'
    BY <2>3, <2>5
  <2>7. ASSUME NEW w \in peers' \ due' PROVE
          /\ \A r \in reading'[w] :
                Fits(r.ready, Core(w)') /\ Fits(r.application, Core(w)' /\ AllSaid(w)')
          /\ reading'[w] = {} =>
                Fits(said'[w] = "READY", Core(w)') /\ Fits(w \in claims', Core(w)' /\ AllSaid(w)')
    <3>1. peers = peers' /\ expected' = expected /\ (Core(w)' <=> Core(w)) /\ (AllSaid(w)' <=> AllSaid(w))
      BY <2>5
    <3>2. CASE w = u
      <4>1. reading'[u] = {found}
        BY <2>5
      <4>2. Fits(found.ready, Core(u)) /\ Fits(found.application, Core(u) /\ AllSaid(u))
        BY <2>1, <2>4
      <4> QED BY <3>1, <3>2, <4>1, <4>2
    <3>3. CASE w # u
      BY <2>5, <2>7, <3>1, <3>3
    <3> QED BY <3>2, <3>3
  <2> QED BY <2>5, <2>6, <2>7
<1>2. ASSUME NEW u \in PeerUnits, EndsHook(u) PROVE PeersInv'
  BY <1>2 DEF EndsHook, InformPeers
<1>3. ASSUME NEW u \in PeerUnits, UnitExpected(u) PROVE PeersInv'
  BY <1>3 DEF UnitExpected
<1>4. ASSUME NEW u \in PeerUnits, UnitJoins(u) PROVE PeersInv'
  BY <1>4 DEF UnitJoins
<1>5. ASSUME NEW u \in PeerUnits, UnitLeaves(u) PROVE PeersInv'
  BY <1>5 DEF UnitLeaves
<1>6. ASSUME NEW u \in PeerUnits, PauseOrResume(u) PROVE PeersInv'
  BY <1>6 DEF PauseOrResume
<1>7. ASSUME NEW d \in {"shared-db", "ha"}, DependencyChanges(d) PROVE PeersInv'
  BY <1>7 DEF DependencyChanges
<1>8. ASSUME NEW units, NEW upgrading, DatabaseSays(units, upgrading) PROVE PeersInv'
  BY <1>8 DEF DatabaseSays
<1>9. CASE SetDbInitialised
  BY <1>9 DEF SetDbInitialised
<1>10. CASE UNCHANGED peerVars
  BY <1>10 DEF peerVars
<1> QED BY <1>1, <1>2, <1>3, <1>4, <1>5, <1>6, <1>7, <1>8, <1>9, <1>10 DEF PeersNext

\* Units that are quiet agree whether the application is ready, however many there
\* are.
THEOREM QuietMeansAgreed == PeersSpec => []QuietUnitsAgree
<1>1. PeersInv => QuietUnitsAgree
  <2> SUFFICES ASSUME PeersInv, due \cap peers = {}, peers = expected,
                      \A u \in peers : reading[u] = {},
                      NEW u \in peers
               PROVE  u \in claims <=> \A p \in peers : UnitReady(p)
    BY DEF QuietUnitsAgree
  <2>1. \A p \in peers : UnitReady(p) <=> Core(p)
    BY ReadyIsCore DEF PeersInv
  <2>2. \A p \in peers : said[p] = "READY" <=> Core(p)
    BY DEF PeersInv, QuietUnitsFit, Fits
  <2>3. u \in claims <=> Core(u) /\ AllSaid(u)
    BY DEF PeersInv, QuietUnitsFit, Fits
  <2> QED BY <2>1, <2>2, <2>3 DEF AllSaid
<1> QED BY PeersInitInv, PeersNextInv, <1>1, PTL DEF PeersSpec

-----------------------------------------------------------------------------
(* HaResources, for any units, addresses and wirings. *)

\* What a unit that has seen the options asks for.
HaKeys ==
    IF dnsHa THEN {<<"hostname", h>> : h \in hostNames} ELSE {<<"vip", v>> : v \in Range(vips)}

\* The names of before: <<"vip", interface>> and <<"vip", interface, "ip">>.
OldNames == {<<"vip", i>> : i \in Interface} \cup {<<"vip", i, "ip">> : i \in Interface}

\* The names of now.
NewNames == {Haproxy} \cup {<<"hostname", h>> : h \in Hosts} \cup {<<"vip", v>> : v \in VipAddresses}

\* A key has one parameter.
OneEach(settings) ==
    \A k \in settings.resources :
        \E q \in settings.params : {p \in settings.params : p[1] = k} = {q}

HaInv ==
    /\ wiring \in Wirings
    /\ vips \in Seq(VipAddresses) /\ dnsHa \in BOOLEAN /\ hostNames \subseteq Hosts
    /\ DOMAIN asked = HaUnits
    /\ \A u \in HaUnits :
          /\ asked[u].resources \subseteq NewNames /\ asked[u].delete \subseteq OldNames
          /\ asked[u].group \subseteq asked[u].resources
          /\ OneEach(asked[u])
    /\ \A u \in HaUnits \ behind :
          asked[u].group = HaKeys /\ asked[u].resources = {Haproxy} \cup HaKeys

LEMMA HaInitInv == HaInit => HaInv
<1> SUFFICES ASSUME HaInit PROVE HaInv
  OBVIOUS
<1>1. \A u \in HaUnits : asked[u] = NoSettings
  BY DEF HaInit
<1>2. /\ NoSettings.resources = {} /\ NoSettings.delete = {} /\ NoSettings.group = {}
      /\ OneEach(NoSettings)
  BY DEF NoSettings, OneEach
<1>3. vips \in Seq(VipAddresses) /\ DOMAIN asked = HaUnits
  BY DEF HaInit
<1> QED BY <1>1, <1>2, <1>3 DEF HaInit, HaInv

\* The keys differ, and none of them is an old name.
LEMMA NamesDiffer == NewNames \cap OldNames = {}
BY HaAssumption DEF NewNames, OldNames, Haproxy, Hosts, Interface

\* Pairs, and the only one with a first component.
LEMMA FirstOfPair == \A a, b : <<a, b>>[1] = a
OBVIOUS

LEMMA OnlyPair ==
    ASSUME NEW S, NEW k, NEW d, <<k, d>> \in S, \A p \in S : p[1] = k => p = <<k, d>>
    PROVE  {p \in S : p[1] = k} = {<<k, d>>}
BY FirstOfPair

\* A pair and a suffix.
LEMMA ShortConcat ==
    ASSUME NEW a, NEW b, NEW c
    PROVE  <<a, b>> \o <<c>> = <<a, b, c>> /\ <<a, b>> \o <<>> = <<a, b>>
<1>1. <<a, b>> \in Seq({a, b, c}) /\ <<c>> \in Seq({a, b, c}) /\ <<a, b, c>> \in Seq({a, b, c})
  OBVIOUS
<1>2. <<a, b>> \o <<c>> = <<a, b, c>>
  <2>1. <<a, b>> \o <<c>> \in Seq({a, b, c}) /\ Len(<<a, b>> \o <<c>>) = 3
    BY <1>1
  <2>2. \A i \in 1..3 : (<<a, b>> \o <<c>>)[i] = <<a, b, c>>[i]
    BY <1>1
  <2> QED BY <1>1, <2>1, <2>2, SeqEqual
<1>3. <<a, b>> \o <<>> = <<a, b>>
  BY <1>1, ConcatEmptySeq
<1> QED BY <1>2, <1>3

LEMMA VipDataFits ==
    ASSUME HaInv, NEW u \in HaUnits, ~dnsHa
    PROVE  /\ VipData(u).resources = {Haproxy} \cup HaKeys /\ VipData(u).group = HaKeys
           /\ HaKeys \subseteq NewNames /\ VipData(u).delete \subseteq OldNames
           /\ OneEach(VipData(u))
<1>1. Range(vips) \subseteq VipAddresses
  BY DEF HaInv, Range
<1>2. VipData(u).resources = {Haproxy} \cup HaKeys /\ VipData(u).group = HaKeys
  BY DEF VipData, VipKey, HaKeys
<1>3. HaKeys \subseteq NewNames
  BY <1>1 DEF HaKeys, NewNames
<1>4. VipData(u).delete \subseteq OldNames
  <2>1. \A i \in DOMAIN vips : vips[i] \in VipAddresses
    BY DEF HaInv
  <2>2. \A v \in VipAddresses : VipInterface(u, v) \in Interface
    BY HaAssumption DEF HaInv, VipInterface, VipIface, Interface
  <2>3. \A i \in Interface : <<"vip", i>> \o <<"ip">> = <<"vip", i, "ip">> /\ <<"vip", i>> \o <<>> = <<"vip", i>>
    BY ShortConcat
  <2> QED BY <2>1, <2>2, <2>3 DEF VipData, OldKeys, OldNames
<1>5. OneEach(VipData(u))
  <2> DEFINE fallback(v) == IF wiring[u][v] = "none" THEN VipIface ELSE ""
             params == {<<Haproxy, "">>} \cup {<<VipKey(u, v), fallback(v)>> : v \in Range(vips)}
  <2>1. VipData(u).params = params /\ VipData(u).resources = {Haproxy} \cup {VipKey(u, v) : v \in Range(vips)}
    BY DEF VipData
  <2>2. \A v : Haproxy # VipKey(u, v)
    BY DEF Haproxy, VipKey
  <2>3. \A v, w : VipKey(u, v) = VipKey(u, w) => v = w
    BY DEF VipKey
  <2>4. \A p \in params : p = <<Haproxy, "">> \/ \E v \in Range(vips) : p = <<VipKey(u, v), fallback(v)>>
    OBVIOUS
  <2>5. <<Haproxy, "">> \in params /\ \A v \in Range(vips) : <<VipKey(u, v), fallback(v)>> \in params
    OBVIOUS
  <2> HIDE DEF params, fallback
  <2>6. {p \in params : p[1] = Haproxy} = {<<Haproxy, "">>}
    <3>1. \A p \in params : p[1] = Haproxy => p = <<Haproxy, "">>
      <4> SUFFICES ASSUME NEW p \in params, p[1] = Haproxy, p # <<Haproxy, "">> PROVE FALSE
        OBVIOUS
      <4>1. PICK v \in Range(vips) : p = <<VipKey(u, v), fallback(v)>>
        BY <2>4
      <4>2. p[1] = VipKey(u, v)
        BY <4>1, FirstOfPair
      <4> QED BY <2>2, <4>2
    <3> QED BY <2>5, <3>1, OnlyPair
  <2>7. ASSUME NEW v \in Range(vips)
        PROVE  {p \in params : p[1] = VipKey(u, v)} = {<<VipKey(u, v), fallback(v)>>}
    <3>1. \A p \in params : p[1] = VipKey(u, v) => p = <<VipKey(u, v), fallback(v)>>
      <4> SUFFICES ASSUME NEW p \in params, p[1] = VipKey(u, v)
                   PROVE  p = <<VipKey(u, v), fallback(v)>>
        OBVIOUS
      <4>1. p # <<Haproxy, "">>
        BY <2>2, FirstOfPair
      <4>2. PICK w \in Range(vips) : p = <<VipKey(u, w), fallback(w)>>
        BY <2>4, <4>1
      <4>3. p[1] = VipKey(u, w)
        BY <4>2, FirstOfPair
      <4> QED BY <2>3, <4>2, <4>3
    <3> QED BY <2>5, <3>1, OnlyPair
  <2>8. \A k \in VipData(u).resources : \E q \in params : {p \in params : p[1] = k} = {q}
    <3> SUFFICES ASSUME NEW k \in VipData(u).resources
                 PROVE  \E q \in params : {p \in params : p[1] = k} = {q}
      OBVIOUS
    <3>1. CASE k = Haproxy BY <2>5, <2>6, <3>1
    <3>2. CASE k # Haproxy
      <4>1. PICK v \in Range(vips) : k = VipKey(u, v) BY <2>1, <3>2
      <4> QED BY <2>5, <2>7, <4>1
    <3> QED BY <3>1, <3>2
  <2> QED BY <2>1, <2>8 DEF OneEach
<1> QED BY <1>2, <1>3, <1>4, <1>5

LEMMA DnsDataFits ==
    ASSUME HaInv, NEW u \in HaUnits, dnsHa
    PROVE  /\ DnsData(u).resources = {Haproxy} \cup HaKeys /\ DnsData(u).group = HaKeys
           /\ HaKeys \subseteq NewNames /\ DnsData(u).delete \subseteq OldNames
           /\ OneEach(DnsData(u))
<1>1. DnsData(u).resources = {Haproxy} \cup HaKeys /\ DnsData(u).group = HaKeys
  BY DEF DnsData, HaKeys
<1>2. HaKeys \subseteq NewNames
  BY DEF HaInv, HaKeys, NewNames
<1>3. DnsData(u).delete \subseteq OldNames
  BY DEF HaInv, DnsData
<1>4. OneEach(DnsData(u))
  <2> DEFINE params == {<<Haproxy, "">>} \cup {<<k, u>> : k \in HaKeys}
  <2>1. DnsData(u).params = params
    BY DEF DnsData, HaKeys
  <2>2. Haproxy \notin HaKeys
    BY DEF HaKeys, Haproxy
  <2>3. \A p \in params : p = <<Haproxy, "">> \/ \E k \in HaKeys : p = <<k, u>>
    OBVIOUS
  <2>4. <<Haproxy, "">> \in params /\ \A k \in HaKeys : <<k, u>> \in params
    OBVIOUS
  <2> HIDE DEF params
  <2>5. {p \in params : p[1] = Haproxy} = {<<Haproxy, "">>}
    <3>1. \A p \in params : p[1] = Haproxy => p = <<Haproxy, "">>
      <4> SUFFICES ASSUME NEW p \in params, p[1] = Haproxy, p # <<Haproxy, "">> PROVE FALSE
        OBVIOUS
      <4>1. PICK j \in HaKeys : p = <<j, u>>
        BY <2>3
      <4>2. p[1] = j
        BY <4>1, FirstOfPair
      <4> QED BY <2>2, <4>2
    <3>2. <<Haproxy, "">>[1] = Haproxy
      BY FirstOfPair
    <3> HIDE DEF Haproxy
    <3> QED BY <2>4, <3>1, <3>2, Zenon
  <2>6. ASSUME NEW k \in HaKeys PROVE {p \in params : p[1] = k} = {<<k, u>>}
    <3>1. \A p \in params : p[1] = k => p = <<k, u>>
      <4> SUFFICES ASSUME NEW p \in params, p[1] = k PROVE p = <<k, u>>
        OBVIOUS
      <4>1. p # <<Haproxy, "">>
        BY <2>2, FirstOfPair
      <4>2. PICK j \in HaKeys : p = <<j, u>>
        BY <2>3, <4>1
      <4> QED BY <4>2, FirstOfPair
    <3>2. <<k, u>>[1] = k
      BY FirstOfPair
    <3> QED BY <2>4, <3>1, <3>2, Zenon
  <2>7. \A k \in DnsData(u).resources : \E q \in params : {p \in params : p[1] = k} = {q}
    <3> SUFFICES ASSUME NEW k \in DnsData(u).resources
                 PROVE  \E q \in params : {p \in params : p[1] = k} = {q}
      OBVIOUS
    <3>1. CASE k = Haproxy BY <2>4, <2>5, <3>1
    <3>2. CASE k # Haproxy BY <1>1, <2>4, <2>6, <3>2
    <3> QED BY <3>1, <3>2
  <2> QED BY <2>1, <2>7 DEF OneEach
<1> QED BY <1>1, <1>2, <1>3, <1>4

LEMMA HaNextInv == HaInv /\ [HaNext]_haVars => HaInv'
<1> SUFFICES ASSUME HaInv, [HaNext]_haVars PROVE HaInv'
  OBVIOUS
<1>1. ASSUME NEW u \in HaUnits, HaJoined(u) PROVE HaInv'
  <2>1. PICK settings :
          /\ asked' = [asked EXCEPT ![u] = settings]
          /\ settings.resources = {Haproxy} \cup HaKeys /\ settings.group = HaKeys
          /\ settings.delete \subseteq OldNames /\ OneEach(settings)
          /\ HaKeys \subseteq NewNames
    BY <1>1, VipDataFits, DnsDataFits DEF HaJoined
  <2>2. HaKeys' = HaKeys
    BY <1>1 DEF HaJoined, HaKeys
  <2>3. /\ asked'[u] = settings /\ \A w \in HaUnits : w # u => asked'[w] = asked[w]
        /\ DOMAIN asked' = HaUnits
    BY <2>1 DEF HaInv
  <2>4. Haproxy \in NewNames
    BY DEF NewNames
  <2> QED BY <1>1, <2>1, <2>2, <2>3, <2>4 DEF HaInv, HaJoined
<1>2. ASSUME NEW V \in Seq(VipAddresses), ChangeVips(V) PROVE HaInv'
  BY <1>2 DEF HaInv, ChangeVips
<1>3. ASSUME NEW b \in BOOLEAN, NEW H \in SUBSET Hosts, ChangeDnsHa(b, H) PROVE HaInv'
  BY <1>3 DEF HaInv, ChangeDnsHa
<1>4. CASE UNCHANGED haVars
  BY <1>4 DEF HaInv, haVars, HaKeys
<1>5. {s \in SeqOf(VipAddresses, 2) : IsInjective(s)} \subseteq Seq(VipAddresses)
  <2>1. \A m \in 0..2 : m \in Nat
    OBVIOUS
  <2>2. SeqOf(VipAddresses, 2) \subseteq Seq(VipAddresses)
    BY <2>1, SeqDef, Zenon DEF SeqOf
  <2> QED BY <2>2
<1> QED BY <1>1, <1>2, <1>3, <1>4, <1>5 DEF HaNext

\* The units ask for the same and what they ask for is whole, for any units, addresses
\* and wirings.
THEOREM TheClusterAgrees == HaSpec => []UnitsAskTheSame
<1>1. HaInv => UnitsAskTheSame
  <2> SUFFICES ASSUME HaInv PROVE UnitsAskTheSame
    OBVIOUS
  <2>1. ASSUME NEW u \in HaUnits, NEW k \in asked[u].resources
        PROVE  Cardinality({p \in asked[u].params : p[1] = k}) = 1
    <3>1. OneEach(asked[u])
      BY DEF HaInv
    <3>2. PICK q \in asked[u].params : {p \in asked[u].params : p[1] = k} = {q}
      BY <3>1 DEF OneEach
    <3> QED BY <3>2, FS_Singleton
  <2> QED BY <2>1, NamesDiffer DEF UnitsAskTheSame, HaInv
<1> QED BY HaInitInv, HaNextInv, <1>1, PTL DEF HaSpec

-----------------------------------------------------------------------------
(* Addresses, on a cluster of any size. *)

AddressesTypeOK ==
    /\ adminNetwork \in {<<>>, <<"n1">>, <<"n2">>, <<"n2", "n1">>} /\ preferIpv6 \in BOOLEAN
    /\ attached \in [Addressed -> SUBSET Networks]
    /\ DOMAIN advertised = Addressed

\* The addresses of a unit that stay with it.
Lasting(u) == {NoAddress, Own(u, "n1"), Own(u, "n2"), Ipv6(u, "stable")}

ToldIsLasting ==
    \A u \in Addressed : advertised[u].admin \in Lasting(u) /\ advertised[u].private \in Lasting(u)

FirstIsTold ==
    \A u \in Addressed \ unseen : ~preferIpv6 =>
        \A i \in DOMAIN adminNetwork :
            (adminNetwork[i] \in attached[u] /\ \A j \in 1..(i - 1) : adminNetwork[j] \notin attached[u])
                => advertised[u].admin = Own(u, adminNetwork[i])

AddressesInv == AddressesTypeOK /\ ToldIsLasting /\ FirstIsTold

LEMMA InNetworkIsOwn ==
    ASSUME NEW u, NEW n
    PROVE  InNetwork(u, n) = IF n \in attached[u] THEN Own(u, n) ELSE NoAddress
BY DEF InNetwork, On, NoAddress, Own, Vip

LEMMA Ipv6IsStable == ASSUME NEW u PROVE GetIpv6Addr(u) = Ipv6(u, "stable")
<1>1. On6(u) = <<<<u, "v6", "temporary">>, <<u, "v6", "stable">>, <<u, "v6", "link">>>>
  BY DEF On6, Ipv6
<1>2. {i \in DOMAIN On6(u) : On6(u)[i][3] \notin {"link", "temporary"}} = {2}
  BY <1>1
<1>3. Min({2}) = 2
  BY DEF Min
<1> QED BY <1>1, <1>2, <1>3 DEF GetIpv6Addr, Ipv6

\* The first network of the option that the unit is in.
LEMMA FirstNetwork ==
    ASSUME AddressesTypeOK, NEW u \in Addressed, NEW fallback, NEW i \in DOMAIN adminNetwork,
           adminNetwork[i] \in attached[u], \A j \in 1..(i - 1) : adminNetwork[j] \notin attached[u]
    PROVE  GetAddressInNetwork(u, adminNetwork, fallback) = Own(u, adminNetwork[i])
<1> DEFINE found == {j \in DOMAIN adminNetwork : InNetwork(u, adminNetwork[j]) # NoAddress}
<1>1. found = {j \in DOMAIN adminNetwork : adminNetwork[j] \in attached[u]}
  BY InNetworkIsOwn DEF NoAddress, Own
<1>2. DOMAIN adminNetwork \subseteq Nat /\ \A j \in DOMAIN adminNetwork : j >= 1
  BY DEF AddressesTypeOK
<1>3. i \in found /\ \A j \in found : i <= j
  BY <1>1, <1>2
<1>4. Min(found) = i
  <2> HIDE DEF found
  <2>1. \A j \in found : j \in Nat
    BY <1>1, <1>2
  <2>2. \A k \in found : (\A j \in found : k <= j) => k = i
    BY <1>3, <2>1
  <2> QED BY <1>3, <2>2 DEF Min
<1> QED BY <1>3, <1>4, InNetworkIsOwn DEF GetAddressInNetwork

\* Whatever the option lists.
LEMMA NetworkAddressIsLasting ==
    ASSUME AddressesTypeOK, NEW u \in Addressed, NEW fallback \in Lasting(u)
    PROVE  GetAddressInNetwork(u, adminNetwork, fallback) \in Lasting(u)
<1> DEFINE found == {j \in DOMAIN adminNetwork : InNetwork(u, adminNetwork[j]) # NoAddress}
<1>1. CASE found = {}
  BY <1>1 DEF GetAddressInNetwork
<1>2. CASE found # {}
  <2>1. GetAddressInNetwork(u, adminNetwork, fallback) = InNetwork(u, adminNetwork[Min(found)])
    BY <1>2 DEF GetAddressInNetwork
  <2>2. attached[u] \subseteq Networks
    BY DEF AddressesTypeOK
  <2>3. \A n : InNetwork(u, n) \in Lasting(u)
    BY <2>2, InNetworkIsOwn DEF Lasting, Networks
  <2> QED BY <2>1, <2>3
<1> QED BY <1>1, <1>2

LEMMA InterfaceIsLasting ==
    ASSUME AddressesTypeOK, NEW u \in Addressed, NEW n \in Networks
    PROVE  InterfaceAddress(u, n) \in Lasting(u)
BY DEF InterfaceAddress, GetHostIp, Lasting, Networks

LEMMA AddressesInitInv == AddressesInit => AddressesInv
<1> SUFFICES ASSUME AddressesInit PROVE AddressesInv
  OBVIOUS
<1>1. AddressesTypeOK
  BY DEF AddressesInit, AddressesTypeOK, Networks
<1>2. \A u \in Addressed : advertised[u].admin = NoAddress /\ advertised[u].private = NoAddress
  BY DEF AddressesInit, NothingPublished
<1>3. ToldIsLasting
  BY <1>2 DEF ToldIsLasting, Lasting
<1>4. FirstIsTold
  BY DEF AddressesInit, FirstIsTold
<1> QED BY <1>1, <1>3, <1>4 DEF AddressesInv

LEMMA AddressesNextInv == AddressesInv /\ [AddressesNext]_addressVars => AddressesInv'
<1> SUFFICES ASSUME AddressesInv, [AddressesNext]_addressVars PROVE AddressesInv'
  OBVIOUS
<1> USE DEF AddressesInv, AddressesTypeOK, ToldIsLasting, FirstIsTold, juju
<1>1. ASSUME NEW u \in Addressed, ClusterJoinedAddresses(u) PROVE AddressesInv'
  <2> DEFINE admin == Told(GetRelationIp(u, "n2", adminNetwork), advertised[u].admin)
             private == GetRelationIp(u, "n1", <<>>)
  <2>1. /\ advertised' = [advertised EXCEPT ![u] = [admin |-> admin, private |-> private]]
        /\ unseen' = unseen \ {u}
        /\ UNCHANGED <<adminNetwork, preferIpv6, attached>>
    BY <1>1 DEF ClusterJoinedAddresses
  <2>2. InterfaceAddress(u, "n1") \in Lasting(u) /\ InterfaceAddress(u, "n2") \in Lasting(u)
    BY InterfaceIsLasting DEF Networks
  <2>3. admin \in Lasting(u) /\ private \in Lasting(u)
    BY <2>2, NetworkAddressIsLasting, Ipv6IsStable DEF GetRelationIp, Told, Lasting
  <2>4. ASSUME ~preferIpv6, NEW i \in DOMAIN adminNetwork, adminNetwork[i] \in attached[u],
               \A j \in 1..(i - 1) : adminNetwork[j] \notin attached[u]
        PROVE  admin = Own(u, adminNetwork[i])
    <3>1. GetRelationIp(u, "n2", adminNetwork) = Own(u, adminNetwork[i])
      BY <2>4, FirstNetwork DEF GetRelationIp
    <3> QED BY <3>1 DEF Told, Own, NoAddress
  <2> HIDE DEF admin, private
  <2>5. /\ advertised'[u].admin = admin /\ advertised'[u].private = private
        /\ \A w \in Addressed : w # u => advertised'[w] = advertised[w]
    BY <2>1
  <2>6. ToldIsLasting'
    BY <2>1, <2>3, <2>5 DEF Lasting
  <2>7. FirstIsTold'
    BY <2>1, <2>4, <2>5
  <2> QED BY <2>1, <2>6, <2>7
<1>2. ASSUME NEW u \in Addressed, InterfaceChanges(u) PROVE AddressesInv'
  BY <1>2 DEF InterfaceChanges, Networks, Lasting
<1>3. ASSUME NEW n, NEW u, VipMoves(n, u) PROVE AddressesInv'
  BY <1>3 DEF VipMoves, Lasting
<1>4. ASSUME NEW networks \in {<<>>, <<"n1">>, <<"n2">>, <<"n2", "n1">>}, NEW v6 \in BOOLEAN,
             ChangeNetworkOptions(networks, v6)
      PROVE  AddressesInv'
  BY <1>4 DEF ChangeNetworkOptions, Lasting
<1>5. CASE UNCHANGED addressVars
  BY <1>5 DEF addressVars, Lasting
<1> QED BY <1>1, <1>2, <1>3, <1>4, <1>5 DEF AddressesNext

\* A unit tells its own addresses, on a cluster of any size.
THEOREM UnitsTellTheirOwn == AddressesSpec => []AddressesAreOwn
<1>1. AddressesInv => AddressesAreOwn
  <2> SUFFICES ASSUME AddressesInv, NEW u \in Addressed,
                      NEW a \in {advertised[u].admin, advertised[u].private} \ {NoAddress}
               PROVE  a[1] = u /\ Last(a) # "temporary"
    BY DEF AddressesInv, AddressesAreOwn, FirstIsTold
  <2>1. a = <<u, "n1">> \/ a = <<u, "n2">> \/ a = <<u, "v6", "stable">>
    BY DEF AddressesInv, ToldIsLasting, Lasting, Own, Ipv6
  <2>2. CASE a = <<u, "n1">>
    BY <2>2 DEF Last
  <2>3. CASE a = <<u, "n2">>
    BY <2>3 DEF Last
  <2>4. CASE a = <<u, "v6", "stable">>
    BY <2>4 DEF Last
  <2> QED BY <2>1, <2>2, <2>3, <2>4
<1> QED BY AddressesInitInv, AddressesNextInv, <1>1, PTL DEF AddressesSpec

-----------------------------------------------------------------------------
(* Nrpe, for any names of the host. *)

\* What the hook works on are the checks that apply, and what it has taken away are
\* all the checks that do not.
HookFollowsOptions ==
    /\ at \in {"idle", "remove", "write", "publish", "end"}
    /\ at = "remove" => checks = added /\ added # {}
    /\ at \in {"remove", "write", "publish"} => HaproxyChecks \subseteq added
    /\ at \in {"write", "publish"} => Deprecated \subseteq queue

\* Each check is written before the server reads them.
WrittenIsDefined ==
    /\ at = "write" => added \ checks \subseteq commands
    /\ at = "publish" => checks = {} /\ added \subseteq commands /\ (restarted => loaded = commands)

\* Of the old monitors only those of haproxy may have lost their command.
StaleIsHaproxy ==
    /\ monitors \subseteq commands \cup ApiChecks
    /\ at \in {"remove", "write", "publish", "end"} => told \subseteq commands \cup ApiChecks

NrpeInv == HookFollowsOptions /\ WrittenIsDefined /\ StaleIsHaproxy /\ MonitoredIsDefined

LEMMA NrpeInitInv == NrpeInit => NrpeInv
BY DEF NrpeInit, NrpeInv, HookFollowsOptions, WrittenIsDefined, StaleIsHaproxy,
       MonitoredIsDefined

LEMMA NrpeNextInv == NrpeInv /\ [NrpeNext]_nrpeVars => NrpeInv'
<1> SUFFICES ASSUME NrpeInv, [NrpeNext]_nrpeVars PROVE NrpeInv'
  OBVIOUS
<1> USE DEF NrpeInv, HookFollowsOptions, WrittenIsDefined, StaleIsHaproxy,
            MonitoredIsDefined, outside, disk, HaproxyChecks, Deprecated
<1>1. CASE Begin
  BY <1>1 DEF Begin, ServicesToCheck, Services, ServiceChecks
<1>2. ASSUME NEW c \in Checks, RemoveCheck(c) PROVE NrpeInv'
  BY <1>2 DEF RemoveCheck, WithoutServiceFiles
<1>3. CASE BeginWrite
  BY <1>3 DEF BeginWrite
<1>4. ASSUME NEW c \in Checks, WriteCheck(c) PROVE NrpeInv'
  BY <1>4 DEF WriteCheck, WithoutServiceFiles
<1>5. CASE RestartServer
  BY <1>5 DEF RestartServer
<1>6. CASE PublishMonitors
  BY <1>6 DEF PublishMonitors, Merged
<1>7. CASE End
  BY <1>7 DEF End, Gone
<1>8. CASE NrpeHookFails
  BY <1>8 DEF NrpeHookFails, Gone
<1>9. ASSUME NEW b \in BOOLEAN, EnableApi(b) PROVE NrpeInv'
  BY <1>9 DEF EnableApi
<1>10. ASSUME NEW b \in BOOLEAN, ManageHaproxy(b) PROVE NrpeInv'
  BY <1>10 DEF ManageHaproxy
<1>11. CASE InstallServer
  BY <1>11 DEF InstallServer
<1>12. ASSUME NEW h \in HostNames, TellHostName(h) PROVE NrpeInv'
  BY <1>12 DEF TellHostName
<1>13. CASE UNCHANGED nrpeVars
  BY <1>13 DEF nrpeVars
<1> QED BY <1>1, <1>2, <1>3, <1>4, <1>5, <1>6, <1>7, <1>8, <1>9, <1>10, <1>11, <1>12,
           <1>13 DEF NrpeNext

\* Nagios is told of no check that the unit cannot answer, for any names of the host.
THEOREM MonitorsAreAnswered == NrpeSpec => []MonitoredIsDefined
<1>1. NrpeInv => MonitoredIsDefined BY DEF NrpeInv
<1> QED BY NrpeInitInv, NrpeNextInv, <1>1, PTL DEF NrpeSpec

-----------------------------------------------------------------------------
(* DeferredEvents, for any services and however long time runs. *)

\* No time is later than now.
TimesArePast ==
    /\ now \in Int
    /\ started \in [DeferredServices -> Int] /\ changed \in [DeferredServices -> Int]
    /\ restarting = [step |-> restarting.step, services |-> restarting.services]
    /\ \A s \in DeferredServices : started[s] <= now /\ changed[s] <= now
    /\ \A e \in events : e.service \in DeferredServices /\ e.time \in Int /\ e.time <= now

\* A service with a change that is tracked and not yet running has no event that was
\* done before: check_restart_timestamps leaves its events.
ChangedIsFresh ==
    \A s \in DeferredServices \ missed : changed[s] > started[s] => ~Stale(s)

\* What restart-services has started runs with the files of now: it may clear.
StartedIsDone ==
    restarting.step = "started" =>
        \A s \in (DeferredServices \ missed) \cap restarting.services : changed[s] <= started[s]

DeferredInv == TimesArePast /\ ChangedIsFresh /\ StartedIsDone /\ RestartIsRecorded

LEMMA DeferredInitInv == DeferredInit => DeferredInv
BY DEF DeferredInit, DeferredInv, TimesArePast, ChangedIsFresh, StartedIsDone,
       RestartIsRecorded, Idle

\* Services are started, and what was true of the others stays.
LEMMA StartsKeep ==
    ASSUME DeferredInv, NEW again, StartedAgain(again), Tick, changed' = changed,
           events' = events
    PROVE  /\ now' \in Int /\ started' \in [DeferredServices -> Int]
           /\ \A s \in DeferredServices : started'[s] <= now' /\ changed'[s] <= now'
           /\ \A e \in events' : e.service \in DeferredServices /\ e.time \in Int /\ e.time <= now'
           /\ ChangedIsFresh' /\ RestartIsRecorded'
           /\ \A s \in DeferredServices \ missed' :
                 \/ changed'[s] <= started'[s]
                 \/ s \notin missed /\ s \notin again /\ started'[s] = started[s]
<1>1. /\ now \in Int /\ now' = now + 1 /\ missed' = missed \ again
      /\ started' = [s \in DeferredServices |-> IF s \in again THEN now' ELSE started[s]]
  BY DEF StartedAgain, Tick, DeferredInv, TimesArePast
<1>2. \A s \in DeferredServices :
         /\ s \in again => started'[s] = now'
         /\ s \notin again => started'[s] = started[s]
         /\ started[s] \in Int /\ changed[s] \in Int /\ started[s] <= now /\ changed[s] <= now
  BY <1>1 DEF DeferredInv, TimesArePast
<1>3. /\ now' \in Int /\ started' \in [DeferredServices -> Int]
      /\ \A s \in DeferredServices : started'[s] <= now' /\ changed'[s] <= now'
  BY <1>1, <1>2
<1>4. \A e \in events' : e.service \in DeferredServices /\ e.time \in Int /\ e.time <= now'
  BY <1>1 DEF DeferredInv, TimesArePast
<1>5. \A s \in DeferredServices \ missed' :
         \/ changed'[s] <= started'[s]
         \/ s \notin missed /\ s \notin again /\ started'[s] = started[s]
  BY <1>1, <1>2
<1>6. \A s \in DeferredServices \ missed' : changed'[s] > started'[s] =>
         s \notin missed /\ started'[s] = started[s] /\ changed[s] > started[s]
  BY <1>2, <1>3, <1>5
<1>7. ChangedIsFresh'
  BY <1>6 DEF DeferredInv, ChangedIsFresh, Stale, DeferredRestarts, RestartedSince
<1>8. RestartIsRecorded'
  BY <1>6 DEF DeferredInv, RestartIsRecorded
<1> QED BY <1>3, <1>4, <1>5, <1>7, <1>8

\* A change of s that is tracked by an event, or not at all.
LEMMA ChangesKeep ==
    ASSUME DeferredInv, NEW s \in DeferredServices, Changes(s), started' = started,
           UNCHANGED restarting, events \subseteq events',
           \A e \in events' \ events : e.service = s /\ e.time = now',
           \/ missed' = missed \cup {s}
           \/ /\ missed' = missed /\ ~Stale(s)
              /\ ~(restarting.step = "started" /\ s \in restarting.services)
              /\ \E e \in events' : e.service = s
    PROVE  DeferredInv'
<1>1. /\ now \in Int /\ now' = now + 1 /\ changed' = [changed EXCEPT ![s] = now']
      /\ missed \subseteq missed'
  BY DEF Changes, Tick, DeferredInv, TimesArePast
<1>2. \A u \in DeferredServices :
         /\ u = s => changed'[u] = now'
         /\ u # s => changed'[u] = changed[u]
         /\ started[u] \in Int /\ changed[u] \in Int /\ started[u] <= now /\ changed[u] <= now
  BY <1>1 DEF DeferredInv, TimesArePast
<1>3. \A e \in events : e.service \in DeferredServices /\ e.time \in Int /\ e.time <= now
  BY DEF DeferredInv, TimesArePast
<1>4. TimesArePast'
  <2>1. now' \in Int /\ changed' \in [DeferredServices -> Int] /\ now <= now'
    BY <1>1 DEF DeferredInv, TimesArePast
  <2>2. \A u \in DeferredServices : started'[u] <= now' /\ changed'[u] <= now'
    BY <1>1, <1>2, <2>1
  <2>3. \A e \in events' : e.service \in DeferredServices /\ e.time \in Int /\ e.time <= now'
    BY <1>1, <1>3, <2>1
  <2> QED BY <2>1, <2>2, <2>3 DEF DeferredInv, TimesArePast
<1>5. \A u \in DeferredServices : Stale(u)' => Stale(u)
  <2> SUFFICES ASSUME NEW u \in DeferredServices, NEW e \in events', e.action = "restart",
                      e.service = u, ~(started[e.service] < e.time)
               PROVE  Stale(u)
    BY DEF Stale, DeferredRestarts, RestartedSince
  <2>1. e \in events
    BY <1>1, <1>2
  <2> QED BY <2>1 DEF Stale, DeferredRestarts, RestartedSince
<1>6. \A u \in DeferredServices \ missed' :
         /\ u \notin missed
         /\ u = s => /\ ~Stale(s) /\ ~(restarting.step = "started" /\ s \in restarting.services)
                     /\ \E e \in events' : e.service = s
  OBVIOUS
<1>7. ChangedIsFresh'
  BY <1>2, <1>5, <1>6 DEF DeferredInv, ChangedIsFresh
<1>8. StartedIsDone'
  BY <1>2, <1>6 DEF DeferredInv, StartedIsDone
<1>9. RestartIsRecorded'
  BY <1>2, <1>6 DEF DeferredInv, RestartIsRecorded
<1> QED BY <1>4, <1>7, <1>8, <1>9 DEF DeferredInv

LEMMA DeferredNextInv == DeferredInv /\ [DeferredNext]_deferredVars => DeferredInv'
<1> SUFFICES ASSUME DeferredInv, [DeferredNext]_deferredVars PROVE DeferredInv'
  OBVIOUS
<1>1. CASE CheckRestartTimestamps
  <2>1. /\ events' = {e \in events : e.service \notin {s \in DeferredServices : Stale(s)}}
        /\ UNCHANGED <<now, permitted, blocked, started, changed, restarting, missed>>
    BY <1>1 DEF CheckRestartTimestamps, Cleared
  <2>2. \A s \in DeferredServices : Stale(s)' => Stale(s)
    BY <2>1 DEF Stale, DeferredRestarts, RestartedSince
  <2>3. RestartIsRecorded'
    BY <2>1 DEF DeferredInv, RestartIsRecorded, ChangedIsFresh
  <2> QED BY <2>1, <2>2, <2>3 DEF DeferredInv, TimesArePast, ChangedIsFresh, StartedIsDone
<1>2. ASSUME NEW done \in SUBSET restarting.services, StopAndStart(done) PROVE DeferredInv'
  <2>1. /\ StartedAgain(done) /\ Tick /\ changed' = changed /\ events' = events
        /\ restarting' = IF done = restarting.services THEN [restarting EXCEPT !.step = "started"]
                         ELSE Idle
    BY <1>2 DEF StopAndStart
  <2>2. /\ restarting' = [step |-> restarting'.step, services |-> restarting'.services]
        /\ restarting'.step = "started" => restarting'.services = done
    <3>1. CASE done = restarting.services
      <4>1. restarting' = [restarting EXCEPT !.step = "started"]
        BY <2>1, <3>1
      <4> QED BY <3>1, <4>1 DEF DeferredInv, TimesArePast
    <3>2. CASE done # restarting.services
      <4>1. restarting' = Idle
        BY <2>1, <3>2
      <4> QED BY <4>1 DEF Idle
    <3> QED BY <3>1, <3>2
  <2>3. StartedIsDone'
    BY <2>1, <2>2, StartsKeep DEF StartedIsDone
  <2>4. TimesArePast'
    BY <2>1, <2>2, StartsKeep DEF TimesArePast, DeferredInv
  <2> QED BY <2>1, <2>3, <2>4, StartsKeep DEF DeferredInv
<1>3. CASE EndRestart
  <2>1. /\ restarting.step = "started" /\ restarting' = Idle
        /\ events' = {e \in events : e.service \notin restarting.services}
        /\ UNCHANGED <<now, permitted, blocked, started, changed, missed>>
    BY <1>3 DEF EndRestart, Cleared
  <2>2. \A s \in DeferredServices : Stale(s)' => Stale(s)
    BY <2>1 DEF Stale, DeferredRestarts, RestartedSince
  <2>3. RestartIsRecorded'
    <3> SUFFICES ASSUME NEW s \in DeferredServices \ missed, changed[s] > started[s]
                 PROVE  \E e \in events' : e.service = s
      BY <2>1 DEF RestartIsRecorded
    <3>1. s \notin restarting.services
      BY <2>1 DEF DeferredInv, TimesArePast, StartedIsDone
    <3> QED BY <2>1, <3>1 DEF DeferredInv, RestartIsRecorded
  <2> QED BY <2>1, <2>2, <2>3 DEF DeferredInv, TimesArePast, ChangedIsFresh, StartedIsDone, Idle
<1>4. ASSUME NEW p \in BOOLEAN, ConfigureDeferredRestarts(p) PROVE DeferredInv'
  BY <1>4 DEF ConfigureDeferredRestarts, DeferredInv, TimesArePast, ChangedIsFresh, StartedIsDone,
              RestartIsRecorded, Stale, DeferredRestarts, RestartedSince
<1>5. ASSUME NEW s \in DeferredServices, HookRestarts(s) PROVE DeferredInv'
  <2>1. /\ now \in Int /\ now' = now + 1 /\ changed' = [changed EXCEPT ![s] = now']
        /\ events' = {e \in events : e.service \notin {s}} /\ restarting' = restarting
        /\ restarting.step = "none"
    BY <1>5 DEF HookRestarts, Cleared, Changes, Tick, Quiet, Idle, DeferredInv, TimesArePast
  <2>2. \/ StartedAgain({s})
        \/ missed' = missed \cup {s} /\ started' = started
    BY <1>5 DEF HookRestarts
  <2>3. /\ started' \in [DeferredServices -> Int]
        /\ \A u \in DeferredServices : u # s => started'[u] = started[u] /\ changed'[u] = changed[u]
        /\ changed'[s] = now' /\ (started'[s] = now' \/ started'[s] = started[s])
        /\ s \in missed' \/ started'[s] = now'
        /\ \A u \in DeferredServices : u # s => (u \in missed' <=> u \in missed)
    BY <2>1, <2>2 DEF StartedAgain, DeferredInv, TimesArePast
  <2>4. TimesArePast'
    <3>1. now' \in Int /\ now <= now' /\ changed' \in [DeferredServices -> Int]
      BY <2>1, <2>3 DEF DeferredInv, TimesArePast
    <3>2. \A u \in DeferredServices : started'[u] <= now' /\ changed'[u] <= now'
      <4>1. \A u \in DeferredServices : started[u] \in Int /\ changed[u] \in Int
                                            /\ started[u] <= now /\ changed[u] <= now
        BY DEF DeferredInv, TimesArePast
      <4> QED BY <2>1, <2>3, <3>1, <4>1
    <3>3. \A e \in events' : e.service \in DeferredServices /\ e.time \in Int /\ e.time <= now'
      BY <2>1, <2>3, <3>1 DEF DeferredInv, TimesArePast
    <3> QED BY <2>1, <2>3, <3>1, <3>2, <3>3 DEF DeferredInv, TimesArePast
  <2>5. \A u \in DeferredServices : u # s /\ Stale(u)' => Stale(u)
    BY <2>1, <2>3 DEF Stale, DeferredRestarts, RestartedSince
  <2>6. now' \in Int /\ \A u \in DeferredServices \ missed' :
                           u # s \/ ~(changed'[u] > started'[u])
    BY <2>1, <2>3
  <2>7. ChangedIsFresh'
    BY <2>3, <2>5, <2>6 DEF DeferredInv, ChangedIsFresh
  <2>8. RestartIsRecorded'
    BY <2>1, <2>3, <2>6 DEF DeferredInv, RestartIsRecorded
  <2> QED BY <2>1, <2>4, <2>7, <2>8 DEF DeferredInv, StartedIsDone
<1>6. ASSUME NEW s \in DeferredServices, NEW f \in Files, HookDefers(s, f) PROVE DeferredInv'
  <2> DEFINE new == [time |-> now', service |-> s, action |-> "restart", reason |-> f]
  <2>1. new.time = now' /\ new.service = s
    OBVIOUS
  <2>2. /\ Changes(s) /\ started' = started /\ UNCHANGED restarting /\ restarting.step = "none"
        /\ events' = Saved(events, new)
        /\ missed' = IF Stale(s) THEN missed \cup {s} ELSE missed
    BY <1>6 DEF HookDefers, Quiet, Idle
  <2>3. /\ events \subseteq events' /\ events' \subseteq events \cup {new}
        /\ \E e \in events' : e.service = s
    BY <2>1, <2>2 DEF Saved, Duplicates
  <2> HIDE DEF new
  <2>4. \A e \in events' \ events : e.service = s /\ e.time = now'
    BY <2>1, <2>3
  <2>5. \/ missed' = missed \cup {s}
        \/ missed' = missed /\ ~Stale(s)
    BY <2>2
  <2> QED BY <2>2, <2>3, <2>4, <2>5, ChangesKeep
<1>7. ASSUME NEW s \in DeferredServices, HookFailsAfterWrite(s) PROVE DeferredInv'
  BY <1>7, ChangesKeep DEF HookFailsAfterWrite
<1>8. ASSUME NEW s \in DeferredServices, OperatorRestarts(s) PROVE DeferredInv'
  <2>1. StartedAgain({s}) /\ Tick /\ changed' = changed /\ events' = events /\ restarting' = restarting
    BY <1>8 DEF OperatorRestarts
  <2>2. TimesArePast'
    BY <2>1, StartsKeep DEF DeferredInv, TimesArePast
  <2>3. StartedIsDone'
    BY <2>1, StartsKeep DEF DeferredInv, StartedIsDone
  <2> QED BY <2>1, <2>2, <2>3, StartsKeep DEF DeferredInv
<1>9. ASSUME NEW s \in DeferredServices, NEW r \in Requests, PackageUpdate(s, r)
      PROVE DeferredInv'
  <2>0. Changes(s) /\ restarting' = restarting
    BY <1>9 DEF PackageUpdate
  <2>1. CASE ~Blocks(s)
    <3>1. /\ now \in Int /\ now' = now + 1 /\ changed' = [changed EXCEPT ![s] = now']
          /\ StartedAgain({s}) /\ events' = events
      BY <1>9, <2>0, <2>1 DEF PackageUpdate, Changes, Tick, DeferredInv, TimesArePast
    <3>2. /\ started' \in [DeferredServices -> Int]
          /\ \A u \in DeferredServices : u # s =>
                /\ started'[u] = started[u] /\ changed'[u] = changed[u]
                /\ u \in missed' <=> u \in missed
          /\ changed'[s] = now' /\ started'[s] = now' /\ now' \in Int
      BY <3>1 DEF StartedAgain, DeferredInv, TimesArePast
    <3>3. TimesArePast'
      <4>1. now' \in Int /\ now <= now' /\ changed' \in [DeferredServices -> Int]
        BY <2>0, <3>1, <3>2 DEF DeferredInv, TimesArePast
      <4>2. \A u \in DeferredServices : started'[u] <= now' /\ changed'[u] <= now'
        <5>1. \A u \in DeferredServices : started[u] \in Int /\ changed[u] \in Int
                                              /\ started[u] <= now /\ changed[u] <= now
          BY DEF DeferredInv, TimesArePast
        <5> QED BY <2>0, <3>1, <3>2, <4>1, <5>1
      <4>3. \A e \in events' : e.service \in DeferredServices /\ e.time \in Int /\ e.time <= now'
        BY <2>0, <3>1, <3>2, <4>1 DEF DeferredInv, TimesArePast
      <4> QED BY <2>0, <3>1, <3>2, <4>1, <4>2, <4>3 DEF DeferredInv, TimesArePast
    <3>4. \A u \in DeferredServices : u # s /\ Stale(u)' => Stale(u)
      BY <3>1, <3>2 DEF Stale, DeferredRestarts, RestartedSince
    <3>5. changed'[s] <= started'[s] /\ ~(changed'[s] > started'[s])
      BY <3>2
    <3>6. ChangedIsFresh'
      BY <3>2, <3>4, <3>5 DEF DeferredInv, ChangedIsFresh
    <3>7. StartedIsDone'
      BY <2>0, <3>2, <3>5 DEF DeferredInv, StartedIsDone
    <3>8. RestartIsRecorded'
      BY <3>1, <3>2, <3>5 DEF DeferredInv, RestartIsRecorded
    <3> QED BY <3>3, <3>6, <3>7, <3>8 DEF DeferredInv
  <2>2. CASE Blocks(s)
    <3> DEFINE new == [time |-> now', service |-> s, action |-> r,
                       reason |-> "Package update"]
               untracked == Stale(s) \/ (restarting.step = "started" /\ s \in restarting.services)
    <3>1. new.time = now' /\ new.service = s
      OBVIOUS
    <3>2. /\ events' = events \cup {new} /\ started' = started
          /\ missed' = IF untracked THEN missed \cup {s} ELSE missed
      BY <1>9, <2>2 DEF PackageUpdate
    <3> HIDE DEF new
    <3>3. \/ missed' = missed \cup {s}
          \/ missed' = missed /\ ~untracked
      <4> HIDE DEF untracked
      <4> QED BY <3>2
    <3> QED BY <2>0, <3>1, <3>2, <3>3, ChangesKeep
  <2> QED BY <2>1, <2>2
<1>10. ASSUME NEW given, BeginRestart(given) PROVE DeferredInv'
  BY <1>10 DEF BeginRestart, DeferredInv, TimesArePast, ChangedIsFresh, StartedIsDone,
               RestartIsRecorded, Stale, DeferredRestarts, RestartedSince
<1>11. CASE UNCHANGED deferredVars
  BY <1>11 DEF deferredVars, DeferredInv, TimesArePast, ChangedIsFresh, StartedIsDone,
               RestartIsRecorded, Stale, DeferredRestarts, RestartedSince
<1> QED BY <1>1, <1>2, <1>3, <1>4, <1>5, <1>6, <1>7, <1>8, <1>9, <1>10, <1>11 DEF DeferredNext

\* The operator's list of deferred restarts misses none but those that the property
\* names, for any services, however long it goes on.
THEOREM NoRestartIsMissed == DeferredSpec => []RestartIsRecorded
<1>1. DeferredInv => RestartIsRecorded BY DEF DeferredInv
<1> QED BY DeferredInitInv, DeferredNextInv, <1>1, PTL DEF DeferredSpec

-----------------------------------------------------------------------------
(* HookEnv, for any values of the option and any settings. *)

HookTypeOK ==
    /\ option \in OptionValues
    /\ conf \in OptionValues \cup {Absent}
    /\ body \in {"none", "running", "scope", "saving", "ended"}
    /\ DOMAIN seen = Keys /\ DOMAIN store = Keys

\* The saved options are those that the last hook with an end had read; while a hook
\* saves, they are what it has read or a torn file.
SavedIsHandled ==
    /\ saved \in OptionValues => saved = handled
    /\ body = "saving" /\ conf # Absent => conf = handled

\* What is not committed is the work of an open scope, and what is not published that
\* of a hook that runs.
OpenIsUncommitted ==
    /\ body # "scope" => seen = store
    /\ body = "none" => set = own

HookInv == HookTypeOK /\ SavedIsHandled /\ OpenIsUncommitted /\ NothingIsHalfDone

LEMMA HookInitInv == HookEnvInit => HookInv
BY HookEnvDistinct
   DEF HookEnvInit, HookInv, HookTypeOK, SavedIsHandled, OpenIsUncommitted, NothingIsHalfDone,
       ChangesAreSeen, WritesAreWhole, Keys, Triggers, Absent, Torn

LEMMA HookNextInv == HookInv /\ [HookEnvNext]_hookVars => HookInv'
<1> SUFFICES ASSUME HookInv, [HookEnvNext]_hookVars PROVE HookInv'
  OBVIOUS
<1> USE HookEnvDistinct
    DEF HookInv, HookTypeOK, SavedIsHandled, OpenIsUncommitted, NothingIsHalfDone,
        ChangesAreSeen, WritesAreWhole, Keys, Triggers, Absent, Torn, Previous, Changed,
        left, Forget
<1>1. CASE StartHook BY <1>1 DEF StartHook
<1>2. CASE ReadConfig BY <1>2 DEF ReadConfig
<1>3. CASE OpenScope BY <1>3 DEF OpenScope
<1>4. ASSUME NEW k \in Triggers, NEW n \in Nonces, SetTrigger(k, n) PROVE HookInv'
  BY <1>4 DEF SetTrigger
<1>5. CASE NoteOption BY <1>5 DEF NoteOption
<1>6. CASE CloseScope BY <1>6 DEF CloseScope
<1>7. CASE RelationGet BY <1>7 DEF RelationGet
<1>8. ASSUME NEW n \in Nonces, RelationSet(n) PROVE HookInv'
  BY <1>8 DEF RelationSet, Flush
<1>9. CASE Truncate BY <1>9 DEF Truncate
<1>10. CASE Save BY <1>10 DEF Save
<1>11. CASE Succeed BY <1>11 DEF Succeed
<1>12. CASE HookFails BY <1>12 DEF HookFails, SavedByFailure
<1>13. ASSUME NEW v \in OptionValues, ChangeOption(v) PROVE HookInv'
  BY <1>13 DEF ChangeOption, process
<1>14. CASE UNCHANGED hookVars BY <1>14 DEF hookVars
<1> QED BY <1>1, <1>2, <1>3, <1>4, <1>5, <1>6, <1>7, <1>8, <1>9, <1>10, <1>11, <1>12,
           <1>13, <1>14 DEF HookEnvNext

\* A hook that fails at any point leaves nothing half done, for any values of the
\* option and of the settings.
THEOREM FailuresLeaveNothing == HookEnvSpec => []NothingIsHalfDone
<1>1. HookInv => NothingIsHalfDone BY DEF HookInv
<1> QED BY HookInitInv, HookNextInv, <1>1, PTL DEF HookEnvSpec

-----------------------------------------------------------------------------
(* ServiceManager, for any services and definitions. *)

ManagerTypeOK ==
    /\ dataReady \subseteq ManagedServices /\ readyFile \subseteq ManagedServices
    /\ runs \subseteq ManagedServices /\ todoServices \subseteq ManagedServices
    /\ DOMAIN portFile = ManagedServices /\ DOMAIN definedPorts = ManagedServices
    /\ manages \in {"", "stop", "other"}
    /\ settled \in BOOLEAN /\ settled => manages = ""
    /\ manages = "" => inService = NoService
    /\ inService = NoService \/
          \E s \in ManagedServices \ todoServices, phase \in {"ports", "save"} :
             inService = <<s, phase>>

\* Each open port is in the file of its service, or is forgotten.
Accounted(ports) ==
    \A x \in ports :
        /\ x = <<x[1], x[2]>> /\ x[1] \in ManagedServices
        /\ x[2] \in portFile[x[1]] \/ x \in forgotten

\* The services whose ports the hook has managed, and those that it is done with.
Ported == {s \in ManagedServices \ todoServices : inService # <<s, "ports">>}
Finished == {s \in Ported : inService # <<s, "save">>}

\* What the hook has done to the services it has seen.
SeenFollow ==
    /\ manages = "other" => \A s \in dataReady \ todoServices : s \in runs
    /\ manages = "other" => \A s \in Finished :
          (s \in runs <=> s \in dataReady) /\ (s \in readyFile <=> s \in dataReady)
    /\ manages = "other" => \A s \in Ported :
          /\ s \in dataReady => PortsOf(s, definedPorts[s]) \subseteq portChanges
          /\ \A x \in portChanges :
                x[1] = s /\ (s \in dataReady => x[2] \notin definedPorts[s]) => x \in forgotten

ManagerInv ==
    /\ ManagerTypeOK /\ Accounted(openedPorts) /\ Accounted(portChanges)
    /\ SeenFollow /\ PortsFollowServices

LEMMA InPortsOf ==
    \A s, P, x : x \in PortsOf(s, P) <=> x = <<x[1], x[2]>> /\ x[1] = s /\ x[2] \in P
BY DEF PortsOf

LEMMA ManagerInitInv == ManagerInit => ManagerInv
BY DEF ManagerInit, ManagerInv, ManagerTypeOK, Accounted, SeenFollow, Ported, Finished,
       PortsFollowServices

LEMMA ManagerNextInv == ManagerInv /\ [ManagerNext]_managerVars => ManagerInv'
<1> SUFFICES ASSUME ManagerInv, [ManagerNext]_managerVars PROVE ManagerInv'
  OBVIOUS
<1> USE DEF ManagerInv, ManagerTypeOK, Accounted, SeenFollow, PortsFollowServices, files,
            NoService, Starts, Ported, Finished
<1>1. ASSUME NEW kind \in {"stop", "other"}, BeginManage(kind) PROVE ManagerInv'
  BY <1>1 DEF BeginManage
<1>2. ASSUME NEW s \in ManagedServices, NextService(s) PROVE ManagerInv'
  BY <1>2 DEF NextService
<1>3. CASE ManagePorts
  <2>1. PICK s \in ManagedServices \ todoServices : inService = <<s, "ports">>
    <3>1. inService # NoService /\ inService[2] = "ports"
      BY <1>3 DEF ManagePorts
    <3>2. PICK s \in ManagedServices \ todoServices, phase \in {"ports", "save"} :
             inService = <<s, phase>>
      BY <3>1
    <3> QED BY <3>1, <3>2
  <2> DEFINE gone == PortsOf(s, portFile[s] \ definedPorts[s])
             listed  == PortsOf(s, definedPorts[s])
  <2>2. /\ portFile' = [portFile EXCEPT ![s] = definedPorts[s]]
        /\ portChanges' = IF Starts(s) THEN (portChanges \ gone) \cup listed
                          ELSE (portChanges \ gone) \ listed
        /\ forgotten' = forgotten \cup gone
        /\ inService' = <<s, "save">>
        /\ UNCHANGED <<definedPorts, dataReady, readyFile, openedPorts, runs, todoServices,
                       manages, settled>>
    BY <1>3, <2>1 DEF ManagePorts, OldPorts
  <2> HIDE DEF ManagerInv
  <2>3. /\ \A x : x \in listed <=> x = <<x[1], x[2]>> /\ x[1] = s /\ x[2] \in definedPorts[s]
        /\ \A x : x \in gone <=>
                 x = <<x[1], x[2]>> /\ x[1] = s /\ x[2] \in portFile[s] /\ x[2] \notin definedPorts[s]
    <3>1. \A x : x \in listed <=> x = <<x[1], x[2]>> /\ x[1] = s /\ x[2] \in definedPorts[s]
      BY InPortsOf
    <3>2. \A x : x \in gone <=> x = <<x[1], x[2]>> /\ x[1] = s
                                      /\ x[2] \in portFile[s] \ definedPorts[s]
      BY InPortsOf
    <3> HIDE DEF listed, gone
    <3> QED BY <3>1, <3>2
  <2> HIDE DEF gone, listed
  <2> USE DEF ManagerInv
  <2>4. /\ \A w \in ManagedServices : w # s => portFile'[w] = portFile[w]
        /\ portFile'[s] = definedPorts[s] /\ DOMAIN portFile' = ManagedServices
    BY <2>2
  <2>5. ManagerTypeOK'
    <3>1. /\ inService' = <<s, "save">> /\ manages' = manages /\ manages # "" /\ settled' = settled
          /\ UNCHANGED <<definedPorts, dataReady, readyFile, runs, todoServices>>
      BY <1>3, <2>1, <2>2 DEF ManagePorts
    <3> QED BY <2>1, <2>4, <3>1
  <2>6. Accounted(openedPorts)'
    BY <2>2, <2>3, <2>4
  <2>7. Accounted(portChanges)'
    BY <2>2, <2>3, <2>4
  <2> HIDE DEF ManagerInv
  <2>8. /\ Ported' = Ported \cup {s} /\ Finished' = Finished /\ s \notin Ported
        /\ s \notin Finished /\ manages # ""
    <3>1. inService' = <<s, "save">> /\ todoServices' = todoServices
      BY <2>2
    <3>2. \A w : <<w, "save">> # <<s, "ports">> /\ <<w, "ports">> # <<s, "save">>
      OBVIOUS
    <3>3. manages # ""
      BY <2>1 DEF ManagerInv
    <3> QED BY <2>1, <3>1, <3>2, <3>3
  <2> USE DEF ManagerInv
  <2>9. ASSUME manages = "other", NEW w \in Ported'
        PROVE  /\ w \in dataReady => PortsOf(w, definedPorts[w]) \subseteq portChanges'
               /\ \A x \in portChanges' :
                     x[1] = w /\ (w \in dataReady => x[2] \notin definedPorts[w])
                        => x \in forgotten'
    <3> HIDE DEF Ported, Finished
    <3>1. CASE w = s
      <4>1. CASE s \in dataReady
        BY <2>2, <2>3, <2>9, <3>1, <4>1 DEF listed
      <4>2. CASE s \notin dataReady
        BY <2>2, <2>3, <2>9, <3>1, <4>2
      <4> QED BY <4>1, <4>2
    <3>2. CASE w # s
      <4>1. w \in Ported
        BY <2>8, <2>9, <3>2
      <4>2. \A x \in PortsOf(w, definedPorts[w]) : x \notin listed /\ x \notin gone
        <5> HIDE DEF ManagerInv
        <5> QED BY <2>3, <3>2, InPortsOf
      <4>3. \A x : x[1] = w => (x \in portChanges' <=> x \in portChanges)
        BY <2>2, <2>3, <3>2
      <4>4. w \in dataReady => PortsOf(w, definedPorts[w]) \subseteq portChanges
        BY <2>9, <4>1
      <4>5. w \in dataReady => PortsOf(w, definedPorts[w]) \subseteq portChanges'
        BY <4>3, <4>4, InPortsOf
      <4> QED BY <2>2, <2>9, <4>1, <4>3, <4>5
    <3> QED BY <3>1, <3>2
  <2>10. SeenFollow'
    <3> HIDE DEF Ported, Finished
    <3> QED BY <2>2, <2>8, <2>9
  <2>11. PortsFollowServices'
    BY <2>2, <2>8
  <2> QED BY <2>5, <2>6, <2>7, <2>10, <2>11
<1>4. CASE SaveService
  <2>1. PICK s \in ManagedServices \ todoServices : inService = <<s, "save">>
    <3>1. inService # NoService /\ inService[2] = "save"
      BY <1>4 DEF SaveService
    <3>2. PICK s \in ManagedServices \ todoServices, phase \in {"ports", "save"} :
             inService = <<s, phase>>
      BY <3>1
    <3> QED BY <3>1, <3>2
  <2>2. /\ runs' = IF Starts(s) THEN runs ELSE runs \ {s}
        /\ readyFile' = IF manages = "stop" THEN readyFile
                        ELSE IF Starts(s) THEN readyFile \cup {s} ELSE readyFile \ {s}
        /\ inService' = NoService /\ manages # ""
        /\ UNCHANGED <<definedPorts, dataReady, portFile, openedPorts, portChanges,
                       todoServices, manages, settled, forgotten>>
    BY <1>4, <2>1 DEF SaveService
  <2>3. /\ Ported' = Ported /\ Finished' = Finished \cup {s} /\ s \notin Finished
    BY <2>1, <2>2
  <2>4. ManagerTypeOK' /\ PortsFollowServices' /\ Accounted(openedPorts)' /\ Accounted(portChanges)'
    BY <2>2
  <2>5. SeenFollow'
    <3> HIDE DEF Ported, Finished
    <3> QED BY <2>2, <2>3
  <2> QED BY <2>4, <2>5
<1>5. CASE EndManage
  BY <1>5, InPortsOf DEF EndManage
<1>6. CASE FailManage
  BY <1>6 DEF FailManage
<1>7. ASSUME NEW s \in ManagedServices, DataChanges(s) PROVE ManagerInv'
  BY <1>7 DEF DataChanges
<1>8. ASSUME NEW s \in ManagedServices, NEW P \in PortChoices, DefinitionChanges(s, P)
      PROVE ManagerInv'
  BY <1>8 DEF DefinitionChanges
<1>9. CASE UNCHANGED managerVars
  <2>1. Ported' = Ported /\ Finished' = Finished
    BY <1>9 DEF managerVars
  <2>2. (PortsFollowServices)' <=> PortsFollowServices
    <3> HIDE DEF ManagerInv
    <3> QED BY <1>9 DEF managerVars
  <2>3. ManagerTypeOK' /\ Accounted(openedPorts)' /\ Accounted(portChanges)'
    BY <1>9 DEF managerVars
  <2>4. SeenFollow'
    <3> HIDE DEF Ported, Finished
    <3> QED BY <1>9, <2>1 DEF managerVars
  <2> QED BY <2>2, <2>3, <2>4
<1> QED BY <1>1, <1>2, <1>3, <1>4, <1>5, <1>6, <1>7, <1>8, <1>9 DEF ManagerNext

\* After a hook the ports, the files and the processes follow the services that have
\* their data, for any services and definitions.
THEOREM PortsFollow == ManagerSpec => []PortsFollowServices
<1>1. ManagerInv => PortsFollowServices BY DEF ManagerInv
<1> QED BY ManagerInitInv, ManagerNextInv, <1>1, PTL DEF ManagerSpec

-----------------------------------------------------------------------------
(* Templating, whatever a charm ships for any number of releases. *)

\* The newest of some templates is one of them, and none of them is newer.
LEMMA NewestIsLast ==
    ASSUME NEW templates, templates \subseteq Template, templates # {}
    PROVE  Newest(templates) \in templates
           /\ \A other \in templates : other.dir <= Newest(templates).dir
<1>1. \A t \in templates : t.dir \in 0..NewestRelease /\ NewestRelease \in Nat
  BY TemplatingAssumption DEF Template
<1> DEFINE T == {NewestRelease - t.dir : t \in templates}
<1>2. T \subseteq Nat /\ T # {}
  BY <1>1
<1>3. PICK x \in T : \A y \in T : x <= y
  <2> HIDE DEF T
  <2> QED BY <1>2, LeastNumber
<1>4. PICK t \in templates : x = NewestRelease - t.dir
  OBVIOUS
<1>5. \A other \in templates : other.dir <= t.dir
  <2> SUFFICES ASSUME NEW other \in templates PROVE other.dir <= t.dir
    OBVIOUS
  <2>1. NewestRelease - other.dir \in T
    OBVIOUS
  <2>2. NewestRelease - t.dir <= NewestRelease - other.dir
    BY <1>3, <1>4, <2>1
  <2> HIDE DEF T
  <2> QED BY <1>1, <2>2
<1> QED BY <1>5 DEF Newest

TemplatingTypeOK ==
    /\ shipped \in Shipments /\ installedRelease \in TemplateReleases
    /\ DOMAIN rendered = ConfFiles
    /\ finished \in {"no", "well", "outdated"} /\ (finished # "no" => ~Running)
    /\ Upgrading => Running

\* A process has an environment for its release, which is not after the one that is
\* installed; what it has written it has from that.
RendererFits ==
    Running =>
        /\ renderer = [release |-> renderer.release, env |-> renderer.env,
                       todo |-> renderer.todo, opened |-> renderer.opened]
        /\ renderer.release \in 1..installedRelease
        /\ renderer.env \in {0, renderer.release}
        /\ renderer.opened \subseteq renderer.todo
        /\ \A f \in renderer.opened : TemplateFor(f, renderer.release) # NotWritten
        /\ \A f \in ConfFiles \ renderer.todo :
              /\ rendered[f] = TemplateFor(f, renderer.release)
              /\ rendered[f] # NotWritten

\* CONFIGS that wait for an upgrade are for an older release, and write nothing.
SuspendedFits ==
    Upgrading =>
        /\ suspended = [release |-> suspended.release, env |-> suspended.env,
                        todo |-> suspended.todo, opened |-> suspended.opened]
        /\ suspended.release \in 1..installedRelease
        /\ suspended.env \in {0, suspended.release}
        /\ suspended.opened = {}

FilesAreNotAhead ==
    \A f \in ConfFiles : rendered[f].dir \in Int /\ rendered[f].dir <= installedRelease

WrittenFor(r) == \A f \in ConfFiles : rendered[f] = TemplateFor(f, r) /\ rendered[f] # NotWritten

FinishedIsWhole ==
    finished # "no" => \E r \in 1..installedRelease :
        (finished = "well" => r = installedRelease) /\ WrittenFor(r)

TemplatingInv ==
    TemplatingTypeOK /\ RendererFits /\ SuspendedFits /\ FilesAreNotAhead /\ FinishedIsWhole

\* What is found for a release is the newest under its name, or nothing.
LEMMA TemplateIsNewest ==
    ASSUME shipped \in Shipments, NEW f \in ConfFiles, NEW r \in Nat
    PROVE  \/ TemplateFor(f, r) = NotWritten
           \/ /\ TemplateFor(f, r) \in shipped[f] /\ TemplateFor(f, r).dir <= r
              /\ \A t \in shipped[f] :
                    (t.name = TemplateFor(f, r).name /\ t.dir <= r) => t.dir <= TemplateFor(f, r).dir
<1> DEFINE base == Found(f, Searched(r), "base")
           path == Found(f, Searched(r), "path")
<1>0. shipped[f] \subseteq Template /\ \A t \in shipped[f] : t.dir \in Nat
  BY TemplatingAssumption DEF ConfFiles, Template
<1>1. base \subseteq Template /\ path \subseteq Template
  BY <1>0 DEF Found
<1>2. ASSUME NEW name, NEW top \in Found(f, Searched(r), name),
             \A other \in Found(f, Searched(r), name) : other.dir <= top.dir
      PROVE  /\ top \in shipped[f] /\ top.dir <= r
             /\ \A t \in shipped[f] : t.name = top.name /\ t.dir <= r => t.dir <= top.dir
  <2>1. top \in shipped[f] /\ top.dir \in 0..r /\ top.name = name
    BY DEF Found, Searched
  <2>2. \A t \in shipped[f] : t.name = name /\ t.dir <= r => t \in Found(f, Searched(r), name)
    BY <1>0 DEF Found, Searched
  <2> QED BY <1>2, <2>1, <2>2
<1>3. CASE base # {}
  <2>1. TemplateFor(f, r) = Newest(base)
    BY <1>3 DEF TemplateFor
  <2> QED BY <1>1, <1>2, <1>3, <2>1, NewestIsLast
<1>4. CASE base = {} /\ path # {}
  <2>1. TemplateFor(f, r) = Newest(path)
    BY <1>4 DEF TemplateFor
  <2> QED BY <1>1, <1>2, <1>4, <2>1, NewestIsLast
<1>5. CASE base = {} /\ path = {}
  BY <1>5 DEF TemplateFor
<1> QED BY <1>3, <1>4, <1>5

LEMMA TemplatingInitInv == TemplatingInit => TemplatingInv
<1> SUFFICES ASSUME TemplatingInit PROVE TemplatingInv
  OBVIOUS
<1>1. \A f \in ConfFiles : rendered[f].dir = -1
  BY DEF TemplatingInit, NotWritten
<1>2. installedRelease \in 1..NewestRelease /\ NewestRelease \in Nat
  BY TemplatingAssumption DEF TemplatingInit, TemplateReleases
<1>3. FilesAreNotAhead
  BY <1>1, <1>2 DEF FilesAreNotAhead
<1>4. TemplatingTypeOK
  BY DEF TemplatingInit, TemplatingTypeOK, Running, Upgrading
<1> QED BY <1>3, <1>4 DEF TemplatingInit, TemplatingInv, RendererFits, SuspendedFits, FinishedIsWhole, Running, Upgrading

LEMMA TemplatingNextInv == TemplatingInv /\ [TemplatingNext]_templateVars => TemplatingInv'
<1> SUFFICES ASSUME TemplatingInv, [TemplatingNext]_templateVars PROVE TemplatingInv'
  OBVIOUS
<1>0. shipped' = shipped
  BY DEF TemplatingNext, StartRenderer, UpgradeReturns, EndsRenderer, KillRenderer, OpenFile,
         WriteFile, UpgradeInstalls, templateVars
<1>a. ConfFiles' = ConfFiles /\ \A f, r : TemplateFor(f, r)' = TemplateFor(f, r)
  BY <1>0 DEF ConfFiles, TemplateFor, Found
<1>b. installedRelease \in 1..NewestRelease /\ NewestRelease \in Nat \ {0}
  BY TemplatingAssumption DEF TemplatingInv, TemplatingTypeOK, TemplateReleases
<1>c. ASSUME NEW r PROVE
        /\ Registered(r).release = r /\ Registered(r).env = 0
        /\ SetRelease(r).release = r /\ SetRelease(r).env = r
        /\ \A q \in {Registered(r), SetRelease(r)} :
              /\ q.todo = ConfFiles /\ q.opened = {}
              /\ q = [release |-> q.release, env |-> q.env, todo |-> q.todo, opened |-> q.opened]
              /\ q # NoRenderer
  BY DEF Registered, SetRelease, NoRenderer
<1> USE DEF TemplatingInv, TemplatingTypeOK, RendererFits, SuspendedFits, FilesAreNotAhead,
            FinishedIsWhole, WrittenFor, Running, Upgrading, TemplateReleases
<1>1. CASE StartRenderer
  <2>1. /\ renderer'.release = installedRelease /\ renderer'.env = 0
        /\ renderer'.todo = ConfFiles /\ renderer'.opened = {}
        /\ renderer' = [release |-> renderer'.release, env |-> renderer'.env,
                        todo |-> renderer'.todo, opened |-> renderer'.opened]
        /\ finished' = "no" /\ renderer' # NoRenderer
        /\ UNCHANGED <<shipped, installedRelease, suspended, rendered>>
    BY <1>1, <1>c DEF StartRenderer
  <2>2. TemplatingTypeOK' /\ FilesAreNotAhead' /\ FinishedIsWhole' /\ SuspendedFits'
    BY <1>a, <2>1
  <2>3. RendererFits'
    BY <1>a, <1>b, <2>1
  <2> QED BY <2>2, <2>3
<1>2. CASE UpgradeReturns
  <2>1. /\ renderer'.release \in 1..installedRelease /\ renderer'.env \in {0, renderer'.release}
        /\ renderer'.todo = ConfFiles /\ renderer'.opened = {}
        /\ renderer' = [release |-> renderer'.release, env |-> renderer'.env,
                        todo |-> renderer'.todo, opened |-> renderer'.opened]
        /\ renderer' # NoRenderer
    <3>1. CASE renderer' = Registered(installedRelease)
      BY <1>b, <1>c, <3>1
    <3>2. CASE renderer' = [suspended EXCEPT !.todo = ConfFiles]
      <4>1. /\ renderer'.release = suspended.release /\ renderer'.env = suspended.env
            /\ renderer'.todo = ConfFiles /\ renderer'.opened = suspended.opened
            /\ renderer' = [release |-> suspended.release, env |-> suspended.env,
                            todo |-> ConfFiles, opened |-> suspended.opened]
        BY <1>2, <3>2 DEF UpgradeReturns
      <4> QED BY <1>2, <4>1 DEF UpgradeReturns, NoRenderer
    <3> QED BY <1>2, <3>1, <3>2 DEF UpgradeReturns
  <2>2. /\ Running /\ finished = "no" /\ suspended' = NoRenderer
        /\ UNCHANGED <<shipped, installedRelease, rendered, finished>>
    BY <1>2 DEF UpgradeReturns
  <2>3. TemplatingTypeOK' /\ FilesAreNotAhead' /\ FinishedIsWhole' /\ SuspendedFits'
    BY <1>a, <2>1, <2>2
  <2>4. RendererFits'
    BY <1>a, <1>b, <2>1, <2>2
  <2> QED BY <2>3, <2>4
<1>3. CASE EndsRenderer
  <2>1. /\ Running /\ ~Upgrading /\ renderer.todo = {} /\ renderer' = NoRenderer
        /\ finished' = (IF renderer.release = installedRelease THEN "well" ELSE "outdated")
        /\ UNCHANGED <<shipped, installedRelease, suspended, rendered>>
    BY <1>3 DEF EndsRenderer
  <2>2. PICK r \in 1..installedRelease : r = renderer.release /\ WrittenFor(r)
    BY <2>1
  <2>3. WrittenFor(r)'
    BY <1>a, <2>1, <2>2
  <2> QED BY <1>a, <1>b, <2>1, <2>2, <2>3
<1>4. CASE KillRenderer
  BY <1>0, <1>a, <1>b, <1>4 DEF KillRenderer, NoRenderer
<1>5. ASSUME NEW f \in ConfFiles, OpenFile(f) PROVE TemplatingInv'
  <2>1. Running /\ finished = "no" /\ Env = renderer.release /\ finished' = "no"
    BY <1>5 DEF OpenFile, Env
  <2>2. CASE TemplateFor(f, Env) = NotWritten
    BY <1>0, <1>a, <1>b, <1>5, <2>1, <2>2 DEF OpenFile, NoRenderer
  <2>3. CASE TemplateFor(f, Env) # NotWritten
    <3>1. /\ renderer'.release = renderer.release /\ renderer'.env = renderer.release
          /\ renderer'.todo = renderer.todo /\ renderer'.opened = {f} /\ f \in renderer.todo
          /\ renderer' = [release |-> renderer'.release, env |-> renderer'.env,
                          todo |-> renderer'.todo, opened |-> renderer'.opened]
          /\ rendered' = [rendered EXCEPT ![f] = TruncatedFile]
          /\ UNCHANGED <<shipped, installedRelease, suspended, finished>>
      BY <1>5, <2>1, <2>3 DEF OpenFile
    <3>2. \A g \in ConfFiles : rendered'[g] = IF g = f THEN TruncatedFile ELSE rendered[g]
      BY <3>1
    <3>3. FilesAreNotAhead'
      <4>1. TruncatedFile.dir \in Int /\ TruncatedFile.dir <= installedRelease
        BY <1>b DEF TruncatedFile
      <4> QED BY <1>a, <3>1, <3>2, <4>1
    <3>0. renderer' # NoRenderer
      BY <3>1 DEF NoRenderer
    <3>4. TemplatingTypeOK' /\ FinishedIsWhole' /\ SuspendedFits'
      BY <1>a, <2>1, <3>0, <3>1
    <3>5. RendererFits'
      BY <1>a, <2>1, <2>3, <3>1, <3>2
    <3> QED BY <3>3, <3>4, <3>5
  <2> QED BY <2>2, <2>3
<1>6. ASSUME NEW f \in ConfFiles, WriteFile(f) PROVE TemplatingInv'
  <2>1. /\ Running /\ finished = "no" /\ Env = renderer.release /\ finished' = "no"
        /\ TemplateFor(f, Env) # NotWritten
    BY <1>6 DEF WriteFile, Env
  <2>2. /\ renderer'.release = renderer.release /\ renderer'.env = renderer.env
        /\ renderer'.todo = renderer.todo \ {f} /\ renderer'.opened = {}
        /\ renderer' = [release |-> renderer'.release, env |-> renderer'.env,
                        todo |-> renderer'.todo, opened |-> renderer'.opened]
        /\ rendered' = [rendered EXCEPT ![f] = TemplateFor(f, Env)]
        /\ UNCHANGED <<shipped, installedRelease, suspended, finished>>
    BY <1>6, <2>1 DEF WriteFile
  <2>3. \A g \in ConfFiles : rendered'[g] = IF g = f THEN TemplateFor(f, Env) ELSE rendered[g]
    BY <2>2
  <2>4. FilesAreNotAhead'
    <3>1. renderer.release \in Nat /\ renderer.release <= installedRelease
      BY <1>b, <2>1
    <3>2. TemplateFor(f, Env) \in Template /\ TemplateFor(f, Env).dir <= renderer.release
      BY <2>1, <3>1, TemplateIsNewest, TemplatingAssumption DEF ConfFiles
    <3>3. TemplateFor(f, Env).dir \in Int /\ TemplateFor(f, Env).dir <= installedRelease
      <4>1. TemplateFor(f, Env).dir \in 0..NewestRelease
        BY <3>2 DEF Template
      <4> QED BY <1>b, <3>1, <3>2, <4>1
    <3> QED BY <1>a, <2>2, <2>3, <3>3
  <2>0. renderer' # NoRenderer
    BY <2>2 DEF NoRenderer
  <2>5. TemplatingTypeOK' /\ FinishedIsWhole' /\ SuspendedFits'
    BY <1>a, <2>0, <2>1, <2>2
  <2>6. RendererFits'
    BY <1>a, <2>1, <2>2, <2>3
  <2> QED BY <2>4, <2>5, <2>6
<1>7. ASSUME NEW r \in TemplateReleases, UpgradeInstalls(r) PROVE TemplatingInv'
  <2>1. /\ Running /\ ~Upgrading /\ finished = "no" /\ installedRelease' = r
        /\ r > installedRelease /\ renderer.opened = {}
        /\ suspended' = renderer /\ renderer' = SetRelease(r)
        /\ UNCHANGED <<shipped, rendered, finished>>
    BY <1>7 DEF UpgradeInstalls
  <2>2. FilesAreNotAhead'
    <3>1. \A f \in ConfFiles : rendered[f].dir <= installedRelease
      OBVIOUS
    <3>2. \A f \in ConfFiles : rendered[f].dir \in Int
      OBVIOUS
    <3> QED BY <1>a, <1>b, <2>1, <3>1, <3>2
  <2>3. /\ renderer'.release = r /\ renderer'.env = r
        /\ renderer'.todo = ConfFiles /\ renderer'.opened = {}
        /\ renderer' = [release |-> renderer'.release, env |-> renderer'.env,
                        todo |-> renderer'.todo, opened |-> renderer'.opened]
        /\ renderer' # NoRenderer
    BY <1>c, <2>1
  <2>4. RendererFits'
    BY <1>a, <1>b, <2>1, <2>3
  <2>5. SuspendedFits'
    <3>1. renderer.release \in 1..r
      BY <1>b, <2>1
    <3> QED BY <2>1, <3>1
  <2>6. TemplatingTypeOK' /\ FinishedIsWhole'
    BY <1>a, <1>b, <2>1, <2>3
  <2> QED BY <2>2, <2>4, <2>5, <2>6
<1>8. CASE UNCHANGED templateVars
  BY <1>0, <1>a, <1>b, <1>8 DEF templateVars
<1> QED BY <1>1, <1>2, <1>3, <1>4, <1>5, <1>6, <1>7, <1>8 DEF TemplatingNext

\* The files fit the packages, whatever templates a charm ships for any number of
\* releases.
THEOREM FilesFitThePackages == TemplatingSpec => []TemplatesFit
<1>1. TemplatingInv => TemplatesFit
  <2> SUFFICES ASSUME TemplatingInv PROVE TemplatesFit
    OBVIOUS
  <2>1. installedRelease \in Nat
    BY TemplatingAssumption DEF TemplatingInv, TemplatingTypeOK, TemplateReleases
  <2>2. ASSUME NEW r \in 1..installedRelease, WrittenFor(r)
        PROVE  \A f \in ConfFiles :
                  /\ rendered[f] \in shipped[f] /\ rendered[f].dir <= r
                  /\ \A t \in shipped[f] :
                        (t.name = rendered[f].name /\ t.dir <= r) => t.dir <= rendered[f].dir
    <3>1. r \in Nat /\ shipped \in Shipments
      BY <2>1 DEF TemplatingInv, TemplatingTypeOK
    <3> QED BY <2>2, <3>1, TemplateIsNewest DEF WrittenFor
  <2> QED BY <2>2 DEF TemplatingInv, FilesAreNotAhead, FinishedIsWhole, TemplatesFit
<1> QED BY TemplatingInitInv, TemplatingNextInv, <1>1, PTL DEF TemplatingSpec

-----------------------------------------------------------------------------
(* Sources, for any number of releases. *)

SourcesTypeOK ==
    /\ origin \in Source
    /\ adding \in {"idle", "key", "source", "write", "done"}
    /\ cloudList \in Releases \cup {Absentee, Truncated} /\ repositories \subseteq Releases

\* Each step has done its part: the key before the source, and of the source the list
\* or the repository that its form asks for.
StepsAreDone ==
    /\ adding \in {"source", "write", "done"} /\ HasKey(origin) => keys
    /\ adding = "write" => AddsPocket(origin)
    /\ adding \in {"write", "done"} => ~IsRefused(origin)
    /\ adding = "done" =>
          /\ AddsPocket(origin) => cloudList = origin.release
          /\ AddsRepository(origin) /\ ~AddsPocket(origin) => origin.release \in repositories

SourcesInv == SourcesTypeOK /\ StepsAreDone

LEMMA CandidateIsNewest ==
    ASSUME SourcesTypeOK
    PROVE  /\ Candidate \in {0, cloudList} \cup repositories
           /\ \A x \in {0, cloudList} \cup repositories : x <= Candidate
<1> DEFINE of == {0, cloudList} \cup repositories
<1>1. of \subseteq Int /\ of # {} /\ LastRelease \in Int /\ \A x \in of : x <= LastRelease
  BY SourcesAssumption DEF SourcesTypeOK, Releases, Absentee, Truncated
<1>2. Candidate = CHOOSE r \in of : \A x \in of : x <= r
  BY DEF Candidate
<1> HIDE DEF of
<1>3. \E r \in of : \A x \in of : x <= r
  BY <1>1, GreatestNumber
<1>4. Candidate \in of /\ \A x \in of : x <= Candidate
  BY <1>2, <1>3
<1> QED BY <1>4 DEF of

LEMMA SourcesInitInv == SourcesInit => SourcesInv
BY SourcesAssumption
   DEF SourcesInit, SourcesInv, SourcesTypeOK, StepsAreDone, Source, Forms, Releases

LEMMA SourcesNextInv == SourcesInv /\ [SourcesNext]_sourceVars => SourcesInv'
<1> SUFFICES ASSUME SourcesInv, [SourcesNext]_sourceVars PROVE SourcesInv'
  OBVIOUS
<1>0. origin.release \in Releases
  BY DEF SourcesInv, SourcesTypeOK, Source
<1> USE DEF SourcesInv, SourcesTypeOK, StepsAreDone, lists
<1>1. CASE BeginAdding BY <1>1 DEF BeginAdding
<1>2. CASE ImportKey BY <1>2 DEF ImportKey
<1>3. CASE AddSource BY <1>0, <1>3 DEF AddSource
<1>4. CASE WritePocket BY <1>0, <1>4 DEF WritePocket
<1>5. CASE AddingFails BY <1>5 DEF AddingFails
<1>6. ASSUME NEW s \in Source, ChangeOrigin(s) PROVE SourcesInv'
  BY <1>6 DEF ChangeOrigin
<1>7. CASE UNCHANGED sourceVars BY <1>7 DEF sourceVars
<1> QED BY <1>1, <1>2, <1>3, <1>4, <1>5, <1>6, <1>7 DEF SourcesNext

\* Apt finds the release that the charm derives from an origin, for any number of
\* releases.
THEOREM OriginsMeanTheirRelease == SourcesSpec => []OriginIsItsRelease
<1>1. SourcesInv => OriginIsItsRelease
  <2> SUFFICES ASSUME SourcesInv, adding = "done" PROVE OriginIsItsRelease
    BY DEF OriginIsItsRelease
  <2> DEFINE release == CodenameInstallSource(origin)
  <2>1. HasKey(origin) => keys
    BY DEF SourcesInv, StepsAreDone
  <2>2. /\ Candidate \in {0, cloudList} \cup repositories
        /\ \A x \in {0, cloudList} \cup repositories : x <= Candidate
    BY CandidateIsNewest DEF SourcesInv
  <2>3. /\ origin.form \in Forms /\ origin.release \in 0..LastRelease
        /\ origin.series \in {"this", "other"}
        /\ LastRelease \in Nat /\ repositories \subseteq 0..LastRelease
        /\ cloudList \in Int
    BY SourcesAssumption DEF SourcesInv, SourcesTypeOK, Source, Releases, Absentee, Truncated
  <2>4. /\ ~IsRefused(origin)
        /\ AddsPocket(origin) => cloudList = origin.release
        /\ AddsRepository(origin) /\ ~AddsPocket(origin) => origin.release \in repositories
    BY DEF SourcesInv, StepsAreDone
  <2>5. release # Unknown => release = 0 \/ release = origin.release
    BY <2>3 DEF CodenameInstallSource, Forms
  <2>6. ASSUME release # Unknown, release # 0 PROVE AddsPocket(origin) \/ AddsRepository(origin)
    BY <2>3, <2>4, <2>6 DEF CodenameInstallSource, Forms, AddsPocket, AddsRepository, IsRefused,
       TakesPocket, InPockets, OfThisSeries, AddBare, Unknown
  <2>7. release # Unknown => Candidate >= release
    BY <2>2, <2>3, <2>4, <2>5, <2>6
  <2>8. ASSUME release # Unknown, AddsPocket(origin), \A r \in repositories : r <= release
        PROVE  Candidate = release
    <3>1. release = origin.release
      BY <2>3, <2>8 DEF AddsPocket, TakesPocket, AddBare, CodenameInstallSource, Forms
    <3> QED BY <2>2, <2>3, <2>4, <2>8, <3>1
  <2> QED BY <2>1, <2>7, <2>8 DEF OriginIsItsRelease
<1> QED BY SourcesInitInv, SourcesNextInv, <1>1, PTL DEF SourcesSpec

-----------------------------------------------------------------------------
(* Hardening, for any templates and any objects that are exposed together. *)

HardeningTypeOK ==
    /\ template \in 1..MaxTemplate
    /\ todo \in Seq(Objects)
    /\ step \in {"idle", "check", "pre", "service", "save", "post", "ended"}
    /\ quiet \in -1..2
    /\ content \in [Templated -> 0..MaxTemplate] /\ good \in [Templated -> BOOLEAN]
    /\ DOMAIN live = Templated
    /\ tmplSum \in [Templated -> 0..MaxTemplate]
    /\ fileSum \in [Templated -> -1..MaxTemplate]
    /\ bad \subseteq Plain /\ exposed \subseteq Objects

\* The objects whose audits are still to run, and those of the whole pass.
Left  == {todo[i] : i \in DOMAIN todo}
InAll == {Audits(harden)[i] : i \in 1..Len(Audits(harden))}

\* The file of the first audit is as far as the step says; in an undisturbed pass
\* nobody else has written it.
StepsFit ==
    /\ step \in {"idle", "ended"} <=> todo = <<>>
    /\ Left \subseteq InAll
    /\ step \in {"pre", "service", "save", "post"} => Object \in Templated /\ tmplSum[Object] = template
    /\ step \in {"service", "save"} => content[Object] \in {template, Edited}
    /\ step \in {"save", "post"} /\ Object # "sysctl" =>
          live[Object] \in {content[Object], Down} \/ content[Object] = Edited
    /\ step \in {"service", "save", "post"} /\ quiet >= 0 => content[Object] = template /\ good[Object]
    /\ step = "post" /\ quiet >= 0 => fileSum[Object] = template
    /\ quiet = 2 => step \in {"idle", "check", "ended"}

\* Where the checksum is that of the file, the file is of the template it was last
\* checked against and in use, or a hook has ended between.
SumsTell ==
    \A p \in Templated : fileSum[p] = content[p] /\ content[p] # Edited =>
        /\ <<"cut", p>> \in escaped \/ content[p] = tmplSum[p] \/ (step = "pre" /\ Object = p)
        /\ \/ <<"lost", p>> \in escaped \/ live[p] \in {content[p], Down}
           \/ (step \in {"service", "save", "post"} /\ Object = p)

\* After one pass the other objects comply, and after two the files: the audit of a
\* directory spoils a file that was audited before it.
PlainComply ==
    \A p \in (InAll \cap Plain) \ {"limits.d"} :
        quiet >= 1 \/ (quiet = 0 /\ step # "idle" /\ p \notin Left) => p \notin bad

Settled(p) == good[p] /\ tmplSum[p] = template /\ fileSum[p] = content[p]

FilesSettle ==
    \A p \in InAll \cap Templated :
        quiet = 2 \/ (quiet = 1 /\ step # "idle" /\ p \notin Left) => Settled(p)

HardeningInv == HardeningTypeOK /\ StepsFit /\ SumsTell /\ PlainComply /\ FilesSettle

LEMMA InAllLasts == UNCHANGED <<harden, exposed>> => InAll' = InAll
BY DEF InAll, Audits, OsChecks, SshChecks, ApacheChecks, AptAudits, LimitsAudits, AccessAudits,
       SuidSgidAudits, SysctlAudits, One

LEMMA AuditsAreSequences == Audits(harden) \in Seq(Objects)
<1>1. \A p \in Objects : One(p) \in Seq(Objects)
  BY DEF One
<1>2. OsChecks \in Seq(Objects) /\ SshChecks \in Seq(Objects) /\ ApacheChecks \in Seq(Objects)
  <2>1. /\ One("packages") \in Seq(Objects) /\ One("limits.d") \in Seq(Objects)
        /\ One("bin") \in Seq(Objects) /\ One("shadow") \in Seq(Objects)
        /\ One("suid") \in Seq(Objects) /\ One("sysctl") \in Seq(Objects)
        /\ One("sshd") \in Seq(Objects) /\ One("alias") \in Seq(Objects)
        /\ One("apache_dir") \in Seq(Objects) /\ One("modules") \in Seq(Objects)
        /\ One("other") \in Seq(Objects) /\ One("index") \in Seq(Objects)
    BY <1>1 DEF Objects, Templated, Plain
  <2> HIDE DEF One
  <2> QED BY <2>1 DEF OsChecks, SshChecks, ApacheChecks, AptAudits, LimitsAudits, AccessAudits,
             SuidSgidAudits, SysctlAudits
<1> QED BY <1>2 DEF Audits

\* An audit is done.
LEMMA NextDrops ==
    ASSUME HardeningTypeOK, todo # <<>>, Next(Tail(todo))
    PROVE  /\ todo' \in Seq(Objects) /\ step' \in {"check", "ended"}
           /\ (step' = "ended") <=> (todo' = <<>>)
           /\ Left' \subseteq Left /\ Left \subseteq Left' \cup {Object} /\ Object \in Left
<1>1. todo' = Tail(todo) /\ step' = IF todo' = <<>> THEN "ended" ELSE "check"
  BY DEF Next
<1>2. /\ Tail(todo) \in Seq(Objects) /\ Object = todo[1] /\ 1 \in DOMAIN todo
      /\ \A i \in DOMAIN Tail(todo) : Tail(todo)[i] = todo[i + 1] /\ i + 1 \in DOMAIN todo
      /\ \A i \in DOMAIN todo : i = 1 \/ (i - 1 \in DOMAIN Tail(todo) /\ Tail(todo)[i - 1] = todo[i])
  BY DEF HardeningTypeOK, Object
<1>3. Left' = {Tail(todo)[i] : i \in DOMAIN Tail(todo)}
  BY <1>1 DEF Left
<1>4. Left' \subseteq Left
  BY <1>2, <1>3 DEF Left
<1>5. Object \in Left
  BY <1>2 DEF Left
<1>6. ASSUME NEW i \in DOMAIN todo PROVE todo[i] \in Left' \cup {Object}
  BY <1>2, <1>3
<1>7. Left \subseteq Left' \cup {Object}
  BY <1>6 DEF Left
<1> QED BY <1>1, <1>2, <1>4, <1>5, <1>7

LEMMA HardeningInitInv == HardeningAssumption /\ HardeningInit => HardeningInv
<1> SUFFICES ASSUME HardeningAssumption, HardeningInit PROVE HardeningInv
  OBVIOUS
<1>1. Left = {}
  BY DEF HardeningInit, Left
<1>2. HardeningTypeOK
  BY DEF HardeningInit, HardeningTypeOK, HardeningAssumption, Edited, NoSum
<1>3. StepsFit /\ PlainComply /\ FilesSettle
  BY <1>1 DEF HardeningInit, StepsFit, PlainComply, FilesSettle
<1>4. SumsTell
  BY DEF HardeningInit, SumsTell
<1> QED BY <1>2, <1>3, <1>4 DEF HardeningInv

\* What only goes on: nothing of the files or the audits changes but what is named.
LEMMA StartPassKeeps == ASSUME HardeningInv, StartPass PROVE HardeningInv'
<1> USE DEF HardeningInv
<1>1. /\ step = "idle" /\ todo' = Audits(harden) /\ step' = IF todo' = <<>> THEN "ended" ELSE "check"
      /\ UNCHANGED <<exposed, harden, template, content, good, live, bad, tmplSum, fileSum, escaped, quiet>>
  BY DEF StartPass, Next, charm, host, sums
<1>2. InAll' = InAll /\ Left' = InAll
  <2>1. InAll' = InAll
    BY <1>1, InAllLasts
  <2>2. Left' = {Audits(harden)[i] : i \in DOMAIN Audits(harden)}
    BY <1>1 DEF Left
  <2>3. DOMAIN Audits(harden) = 1..Len(Audits(harden))
    BY AuditsAreSequences
  <2> QED BY <2>1, <2>2, <2>3 DEF InAll
<1>3. HardeningTypeOK'
  BY <1>1, AuditsAreSequences DEF HardeningTypeOK
<1>4. StepsFit'
  BY <1>1, <1>2 DEF StepsFit
<1>5. SumsTell'
  BY <1>1 DEF SumsTell
<1>6. PlainComply' /\ FilesSettle'
  BY <1>1, <1>2 DEF PlainComply, FilesSettle, Settled
<1> QED BY <1>3, <1>4, <1>5, <1>6

LEMMA EndPassKeeps == ASSUME HardeningInv, EndPass PROVE HardeningInv'
<1> USE DEF HardeningInv
<1>1. /\ step = "ended" /\ step' = "idle" /\ quiet' = IF quiet = 2 THEN 2 ELSE quiet + 1
      /\ UNCHANGED <<exposed, harden, template, content, good, live, bad, tmplSum, fileSum, todo, escaped>>
  BY DEF EndPass, charm, host, sums
<1>2. InAll' = InAll /\ Left' = Left /\ Left = {}
  BY <1>1, InAllLasts DEF Left, StepsFit
<1>3. HardeningTypeOK'
  BY <1>1 DEF HardeningTypeOK
<1>4. StepsFit'
  BY <1>1, <1>2 DEF StepsFit
<1>5. SumsTell'
  BY <1>1 DEF SumsTell
<1>6. PlainComply' /\ FilesSettle'
  BY <1>1, <1>2 DEF PlainComply, FilesSettle, Settled, HardeningTypeOK
<1> QED BY <1>3, <1>4, <1>5, <1>6

LEMMA CheckFileKeeps == ASSUME HardeningInv, CheckFile PROVE HardeningInv'
<1> USE DEF HardeningInv
<1>1. /\ todo # <<>> /\ step = "check" /\ Object \in Templated
      /\ tmplSum' = [tmplSum EXCEPT ![Object] = template]
      /\ UNCHANGED <<exposed, harden, template, content, good, live, bad, fileSum, escaped, quiet>>
  BY DEF CheckFile, In, charm, host
<1>2. InAll' = InAll
  BY <1>1, InAllLasts
<1>3. CASE tmplSum[Object] = template /\ fileSum[Object] = content[Object] /\ good[Object]
  <2>1. Next(Tail(todo))
    <3>1. fileSum[Object] # NoSum
      BY <1>1, <1>3 DEF HardeningTypeOK, NoSum
    <3> QED BY <1>3, <3>1 DEF CheckFile, TemplatesMatch, ContentsMatch
  <2>2. tmplSum' = tmplSum
    BY <1>1, <1>3 DEF HardeningTypeOK
  <2>3. /\ todo' \in Seq(Objects) /\ step' \in {"check", "ended"}
        /\ (step' = "ended") <=> (todo' = <<>>)
        /\ Left' \subseteq Left /\ Left \subseteq Left' \cup {Object}
    BY <1>1, <2>1, NextDrops
  <2>4. HardeningTypeOK' /\ StepsFit' /\ SumsTell'
    BY <1>1, <1>2, <2>2, <2>3 DEF HardeningTypeOK, StepsFit, SumsTell
  <2>5. PlainComply'
    BY <1>1, <1>2, <2>3 DEF PlainComply, Templated, Plain
  <2>6. FilesSettle'
    BY <1>1, <1>2, <1>3, <2>2, <2>3 DEF FilesSettle, Settled
  <2> QED BY <2>4, <2>5, <2>6
<1>4. CASE ~(tmplSum[Object] = template /\ fileSum[Object] = content[Object] /\ good[Object])
  <2>1. step' = "pre" /\ todo' = todo
    BY <1>4 DEF CheckFile, TemplatesMatch, ContentsMatch
  <2>2. Left' = Left /\ Object' = Object /\ Object \in Left
    BY <1>1, <2>1 DEF Left, Object, HardeningTypeOK
  <2>3. quiet # 2
    BY <1>1, <1>4, <2>2 DEF FilesSettle, Settled, StepsFit
  <2>4. HardeningTypeOK'
    BY <1>1, <2>1 DEF HardeningTypeOK
  <2>5. StepsFit'
    BY <1>1, <1>2, <2>1, <2>2, <2>3 DEF StepsFit, HardeningTypeOK
  <2>6. SumsTell'
    BY <1>1, <2>1, <2>2 DEF SumsTell, HardeningTypeOK
  <2>7. PlainComply' /\ FilesSettle'
    BY <1>1, <1>2, <2>1, <2>2 DEF PlainComply, FilesSettle, Settled, HardeningTypeOK
  <2> QED BY <2>4, <2>5, <2>6, <2>7
<1> QED BY <1>3, <1>4

\* Todo stays: so does what is left of it.
LEMMA LeftStays == UNCHANGED todo => Left' = Left /\ Object' = Object
BY DEF Left, Object

LEMMA WriteKeeps == ASSUME HardeningInv, Write PROVE HardeningInv'
<1> USE DEF HardeningInv
<1>1. /\ todo # <<>> /\ step = "pre" /\ step' = "service"
      /\ content' = [content EXCEPT ![Object] = template]
      /\ good' = [good EXCEPT ![Object] = TRUE]
      /\ escaped' = escaped \ {<<"cut", Object>>}
      /\ UNCHANGED <<exposed, harden, template, live, bad, tmplSum, fileSum, todo, quiet>>
  BY DEF Write, In, charm, sums
<1>2. InAll' = InAll /\ Left' = Left /\ Object' = Object
  BY <1>1, InAllLasts, LeftStays
<1>3. Object \in Templated /\ tmplSum[Object] = template /\ quiet # 2 /\ Object \in Left
  <2>1. Object \in Left
    BY <1>1 DEF Left, Object, HardeningTypeOK
  <2> QED BY <1>1, <2>1 DEF StepsFit
<1>4. HardeningTypeOK'
  BY <1>1, <1>3 DEF HardeningTypeOK
<1>5. /\ content'[Object] = template /\ good'[Object]
      /\ \A p \in Templated \ {Object} : content'[p] = content[p] /\ good'[p] = good[p]
  BY <1>1, <1>3 DEF HardeningTypeOK
<1>6. StepsFit'
  BY <1>1, <1>2, <1>3, <1>5 DEF StepsFit
<1>7. SumsTell'
  <2>1. \A p \in Templated \ {Object} :
            /\ <<"cut", p>> \in escaped => <<"cut", p>> \in escaped'
            /\ <<"lost", p>> \in escaped => <<"lost", p>> \in escaped'
    BY <1>1
  <2> QED BY <1>1, <1>2, <1>3, <1>5, <2>1 DEF SumsTell
<1>8. PlainComply' /\ FilesSettle'
  BY <1>1, <1>2, <1>3, <1>5 DEF PlainComply, FilesSettle, Settled
<1> QED BY <1>4, <1>6, <1>7, <1>8

LEMMA RunServiceActionsKeeps == ASSUME HardeningInv, RunServiceActions PROVE HardeningInv'
<1> USE DEF HardeningInv
<1>1. /\ todo # <<>> /\ step = "service" /\ step' = "save"
      /\ UNCHANGED <<exposed, harden, template, content, good, bad, tmplSum, fileSum, todo, escaped>>
  BY DEF RunServiceActions, In, charm, sums
<1>2. InAll' = InAll /\ Left' = Left /\ Object' = Object
  BY <1>1, InAllLasts, LeftStays
<1>3. Object \in Templated /\ quiet # 2
  BY <1>1 DEF StepsFit
<1>4. /\ Object = "sysctl" \/ live'[Object] \in {content[Object], Down}
      /\ \A p \in Templated \ {Object} : live'[p] = live[p]
      /\ DOMAIN live' = Templated
      /\ quiet' = quiet \/ quiet' = -1
  BY <1>3 DEF RunServiceActions, HardeningTypeOK
<1>5. HardeningTypeOK'
  BY <1>1, <1>4 DEF HardeningTypeOK
<1>6. StepsFit'
  BY <1>1, <1>2, <1>3, <1>4 DEF StepsFit, HardeningTypeOK
<1>7. SumsTell'
  BY <1>1, <1>2, <1>4 DEF SumsTell
<1>8. PlainComply' /\ FilesSettle'
  BY <1>1, <1>2, <1>4 DEF PlainComply, FilesSettle, Settled
<1> QED BY <1>5, <1>6, <1>7, <1>8

LEMMA SaveChecksumKeeps == ASSUME HardeningInv, SaveChecksum PROVE HardeningInv'
<1> USE DEF HardeningInv
<1>1. /\ todo # <<>> /\ step = "save" /\ step' = "post"
      /\ fileSum' = [fileSum EXCEPT ![Object] = content[Object]]
      /\ UNCHANGED <<exposed, harden, template, content, good, live, bad, tmplSum, todo, escaped, quiet>>
  BY DEF SaveChecksum, In, charm, host
<1>2. InAll' = InAll /\ Left' = Left /\ Object' = Object
  BY <1>1, InAllLasts, LeftStays
<1>3. Object \in Templated /\ quiet # 2 /\ Object \in Left /\ tmplSum[Object] = template
  <2>1. Object \in Left
    BY <1>1 DEF Left, Object, HardeningTypeOK
  <2> QED BY <1>1, <2>1 DEF StepsFit
<1>4. /\ fileSum'[Object] = content[Object]
      /\ \A p \in Templated \ {Object} : fileSum'[p] = fileSum[p]
  BY <1>1, <1>3 DEF HardeningTypeOK
<1>5. HardeningTypeOK'
  <2>1. content[Object] \in -1..MaxTemplate
    BY <1>3 DEF HardeningTypeOK
  <2> QED BY <1>1, <2>1 DEF HardeningTypeOK
<1>6. StepsFit'
  BY <1>1, <1>2, <1>3, <1>4 DEF StepsFit
<1>7. SumsTell'
  BY <1>1, <1>2, <1>3, <1>4 DEF SumsTell, StepsFit
<1>8. PlainComply' /\ FilesSettle'
  BY <1>1, <1>2, <1>3, <1>4 DEF PlainComply, FilesSettle, Settled
<1> QED BY <1>5, <1>6, <1>7, <1>8

LEMMA PostWriteKeeps == ASSUME HardeningInv, PostWrite PROVE HardeningInv'
<1> USE DEF HardeningInv
<1>1. /\ todo # <<>> /\ step = "post" /\ Next(Tail(todo))
      /\ live' = IF Object = "sysctl" THEN [live EXCEPT ![Object] = content[Object]] ELSE live
      /\ escaped' = escaped \ {<<"lost", Object>>}
      /\ UNCHANGED <<exposed, harden, template, content, good, bad, tmplSum, fileSum, quiet>>
  BY DEF PostWrite, In, charm, sums
<1>2. InAll' = InAll
  BY <1>1, InAllLasts
<1>3. /\ todo' \in Seq(Objects) /\ step' \in {"check", "ended"}
      /\ (step' = "ended") <=> (todo' = <<>>)
      /\ Left' \subseteq Left /\ Left \subseteq Left' \cup {Object}
  BY <1>1, NextDrops
<1>4. Object \in Templated /\ quiet # 2 /\ tmplSum[Object] = template
  BY <1>1 DEF StepsFit
<1>5. /\ Object = "sysctl" => live'[Object] = content[Object]
      /\ Object # "sysctl" => live'[Object] = live[Object]
      /\ \A p \in Templated \ {Object} : live'[p] = live[p]
      /\ DOMAIN live' = Templated
  BY <1>1, <1>4 DEF HardeningTypeOK
<1>6. HardeningTypeOK'
  BY <1>1, <1>3, <1>5 DEF HardeningTypeOK
<1>7. StepsFit'
  BY <1>1, <1>2, <1>3, <1>4 DEF StepsFit
<1>8. SumsTell'
  <2>1. \A p \in Templated \ {Object} :
            /\ <<"cut", p>> \in escaped => <<"cut", p>> \in escaped'
            /\ <<"lost", p>> \in escaped => <<"lost", p>> \in escaped'
    BY <1>1
  <2>2. <<"cut", Object>> \in escaped => <<"cut", Object>> \in escaped'
    BY <1>1
  <2>3. live'[Object] \in {content[Object], Down} \/ content[Object] = Edited
    BY <1>1, <1>5 DEF StepsFit
  <2> QED BY <1>1, <1>3, <1>4, <1>5, <2>1, <2>2, <2>3 DEF SumsTell
<1>9. PlainComply'
  BY <1>1, <1>2, <1>3, <1>4 DEF PlainComply, Templated, Plain
<1>10. FilesSettle'
  <2>1. quiet >= 0 => Settled(Object)
    BY <1>1, <1>4 DEF StepsFit, Settled
  <2>2. \A p : Settled(p)' = Settled(p)
    BY <1>1 DEF Settled
  <2> QED BY <1>1, <1>2, <1>3, <1>4, <2>1, <2>2 DEF FilesSettle
<1> QED BY <1>6, <1>7, <1>8, <1>9, <1>10

\* The other audits: what they leave bad disturbs the pass, and only that of a
\* directory that did not comply touches a file.
LEMMA AuditedKeeps ==
    ASSUME HardeningInv, NEW S \in SUBSET Plain, Audited(S),
           bad' \subseteq bad,
           quiet' = -1 \/ (quiet' = quiet /\ (Object \notin bad' \/ Object = "limits.d")),
           good' = good \/ (Object = "apache_dir" /\ Object \in bad
                               /\ good' = [good EXCEPT !["alias"] = FALSE])
    PROVE  HardeningInv'
<1> USE DEF HardeningInv
<1>1. /\ todo # <<>> /\ step = "check" /\ Object \in Plain /\ Next(Tail(todo))
      /\ UNCHANGED <<exposed, harden, template, content, live, tmplSum, fileSum, escaped>>
  BY DEF Audited, In, charm, sums
<1>2. InAll' = InAll
  BY <1>1, InAllLasts
<1>3. /\ todo' \in Seq(Objects) /\ step' \in {"check", "ended"}
      /\ (step' = "ended") <=> (todo' = <<>>)
      /\ Left' \subseteq Left /\ Left \subseteq Left' \cup {Object} /\ Object \in Left
  BY <1>1, NextDrops
<1>4. HardeningTypeOK'
  <2>1. good' \in [Templated -> BOOLEAN]
    BY DEF HardeningTypeOK
  <2>2. quiet' \in -1..2 /\ bad' \subseteq Plain
    BY DEF HardeningTypeOK
  <2> QED BY <1>1, <1>3, <2>1, <2>2 DEF HardeningTypeOK
<1>5. StepsFit'
  BY <1>1, <1>2, <1>3 DEF StepsFit
<1>6. SumsTell'
  BY <1>1, <1>3 DEF SumsTell
<1>7. PlainComply'
  BY <1>1, <1>2, <1>3 DEF PlainComply, HardeningTypeOK
<1>8. FilesSettle'
  <2>1. CASE quiet' <= 0
    BY <2>1 DEF FilesSettle
  <2>2. CASE quiet' >= 1
    <3>1. quiet' = quiet
      BY <2>2
    <3>2. good' = good
      BY <1>1, <1>3, <2>2, <3>1 DEF PlainComply, StepsFit
    <3> QED BY <1>1, <1>2, <1>3, <3>1, <3>2 DEF FilesSettle, Settled, Templated, Plain
  <2> QED BY <1>4, <2>1, <2>2 DEF HardeningTypeOK
<1> QED BY <1>4, <1>5, <1>6, <1>7, <1>8

LEMMA HardeningFailsKeeps == ASSUME HardeningInv, HardeningFails PROVE HardeningInv'
<1> USE DEF HardeningInv
<1>1. /\ todo' = <<>> /\ step' = "idle" /\ quiet' = 0
      /\ escaped' = escaped \cup (IF step = "pre" THEN {<<"cut", Object>>} ELSE {})
                     \cup (IF step \in {"service", "save", "post"} THEN {<<"lost", Object>>} ELSE {})
      /\ UNCHANGED <<exposed, harden, template, content, good, live, bad, tmplSum, fileSum>>
  BY DEF HardeningFails, charm, host, sums
<1>2. Left' = {}
  BY <1>1 DEF Left
<1>3. HardeningTypeOK' /\ StepsFit'
  BY <1>1, <1>2 DEF HardeningTypeOK, StepsFit
<1>4. SumsTell'
  BY <1>1 DEF SumsTell
<1>5. PlainComply' /\ FilesSettle'
  BY <1>1 DEF PlainComply, FilesSettle
<1> QED BY <1>3, <1>4, <1>5

\* Between hooks, and with no quiet left.
LEMMA OperatorKeeps ==
    ASSUME HardeningInv, step = "idle", quiet' = 0, template' \in 1..MaxTemplate,
           UNCHANGED <<exposed, content, good, live, bad, tmplSum, fileSum, todo, step, escaped>>
    PROVE  HardeningInv'
<1> USE DEF HardeningInv
<1>1. Left' = {} /\ todo' = <<>>
  BY DEF Left, StepsFit
<1>2. HardeningTypeOK' /\ StepsFit'
  BY <1>1 DEF HardeningTypeOK, StepsFit
<1>3. SumsTell'
  BY DEF SumsTell
<1>4. PlainComply' /\ FilesSettle'
  BY DEF PlainComply, FilesSettle
<1> QED BY <1>2, <1>3, <1>4

LEMMA EditKeeps == ASSUME HardeningAssumption, HardeningInv, NEW p \in exposed, Edit(p) PROVE HardeningInv'
<1> USE DEF HardeningInv
<1>1. /\ UNCHANGED <<exposed, harden, template, live, tmplSum, fileSum, todo, step, escaped>>
      /\ quiet' = Disturbed /\ quiet' <= 0 /\ quiet' \in -1..2 /\ (step # "idle" => quiet' = -1)
  BY DEF Edit, Disturbed, charm, sums
<1>2. InAll' = InAll /\ Left' = Left /\ Object' = Object
  BY <1>1, InAllLasts, LeftStays
<1>3. /\ content' \in [Templated -> 0..MaxTemplate] /\ good' \in [Templated -> BOOLEAN]
      /\ \A q \in Templated : content'[q] = content[q] \/ content'[q] = Edited
  <2>1. CASE p \in Templated
    <3>1. Edited \in 0..MaxTemplate
      BY DEF HardeningAssumption, Edited
    <3>2. content' = [content EXCEPT ![p] = Edited] /\ good' \in {good, [good EXCEPT ![p] = FALSE]}
      BY <2>1 DEF Edit
    <3>3. content' \in [Templated -> 0..MaxTemplate]
      BY <3>1, <3>2 DEF HardeningTypeOK
    <3>4. good' \in [Templated -> BOOLEAN]
      BY <3>2 DEF HardeningTypeOK
    <3>5. \A q \in Templated : content'[q] = content[q] \/ content'[q] = Edited
      BY <3>2 DEF HardeningTypeOK
    <3> QED BY <3>3, <3>4, <3>5
  <2>2. CASE p \notin Templated
    BY <2>2 DEF Edit, HardeningTypeOK
  <2> QED BY <2>1, <2>2
<1>4. bad' \subseteq Plain
  <2>1. CASE p \in Templated
    BY <2>1 DEF Edit, HardeningTypeOK
  <2>2. CASE p \notin Templated
    BY <2>2 DEF Edit, HardeningTypeOK, Objects
  <2> QED BY <2>1, <2>2
<1>5. HardeningTypeOK'
  BY <1>1, <1>3, <1>4 DEF HardeningTypeOK
<1>6. StepsFit'
  BY <1>1, <1>2, <1>3 DEF StepsFit
<1>7. SumsTell'
  BY <1>1, <1>2, <1>3 DEF SumsTell
<1>8. PlainComply' /\ FilesSettle'
  BY <1>1 DEF PlainComply, FilesSettle
<1> QED BY <1>5, <1>6, <1>7, <1>8

LEMMA RestartKeeps == ASSUME HardeningInv, NEW p \in exposed, Restart(p) PROVE HardeningInv'
<1> USE DEF HardeningInv
<1>1. /\ UNCHANGED <<exposed, harden, template, content, good, bad, tmplSum, fileSum, todo, step, escaped>>
      /\ p \in Templated /\ live' = [live EXCEPT ![p] = content[p]]
      /\ quiet' = Disturbed /\ quiet' <= 0 /\ quiet' \in -1..2 /\ (step # "idle" => quiet' = -1)
  BY DEF Restart, Disturbed, charm, sums
<1>2. InAll' = InAll /\ Left' = Left /\ Object' = Object
  BY <1>1, InAllLasts, LeftStays
<1>3. /\ DOMAIN live' = Templated /\ live'[p] = content[p]
      /\ \A q \in Templated \ {p} : live'[q] = live[q]
  BY <1>1 DEF HardeningTypeOK
<1>4. HardeningTypeOK'
  BY <1>1, <1>3 DEF HardeningTypeOK
<1>5. StepsFit'
  BY <1>1, <1>2, <1>3 DEF StepsFit
<1>6. SumsTell'
  BY <1>1, <1>2, <1>3 DEF SumsTell
<1>7. PlainComply' /\ FilesSettle'
  BY <1>1 DEF PlainComply, FilesSettle
<1> QED BY <1>4, <1>5, <1>6, <1>7

LEMMA HardeningNextInv ==
    ASSUME HardeningAssumption, HardeningInv, [HardeningNext]_hardeningVars
    PROVE  HardeningInv'
<1>1. CASE StartPass \/ EndPass \/ CheckFile \/ Write \/ RunServiceActions
  BY <1>1, StartPassKeeps, EndPassKeeps, CheckFileKeeps, WriteKeeps, RunServiceActionsKeeps
<1>2. CASE SaveChecksum \/ PostWrite \/ HardeningFails
  BY <1>2, SaveChecksumKeeps, PostWriteKeeps, HardeningFailsKeeps
<1>3. CASE AuditPermissions
  <2>1. {"shadow"} \in SUBSET Plain
    BY DEF Plain
  <2>2. Audited({"shadow"}) /\ bad' = bad \ {Object} /\ UNCHANGED <<good, quiet>>
    BY <1>3 DEF AuditPermissions
  <2> QED BY <2>1, <2>2, AuditedKeeps
<1>4. CASE AuditDirectories
  <2>1. {"limits.d", "apache_dir"} \in SUBSET Plain
    BY DEF Plain
  <2>2. Audited({"limits.d", "apache_dir"}) /\ quiet' = quiet
    BY <1>4 DEF AuditDirectories
  <2>3. Object \in {"limits.d", "apache_dir"}
    BY <2>2 DEF Audited
  <2>4. CASE Object \in bad /\ Object = "apache_dir"
    <3>1. bad' = bad \ BelowDirectory /\ good' = [good EXCEPT !["alias"] = FALSE]
      BY <1>4, <2>4 DEF AuditDirectories
    <3>2. bad' \subseteq bad /\ Object \notin bad'
      BY <2>4, <3>1 DEF BelowDirectory
    <3> QED BY <2>1, <2>2, <2>4, <3>1, <3>2, AuditedKeeps
  <2>5. CASE ~(Object \in bad /\ Object = "apache_dir")
    <3>1. UNCHANGED <<bad, good>>
      BY <1>4, <2>5 DEF AuditDirectories
    <3> QED BY <2>1, <2>2, <2>3, <2>5, <3>1, AuditedKeeps
  <2> QED BY <2>4, <2>5
<1>5. CASE AuditModes
  <2>1. {"bin", "suid", "other"} \in SUBSET Plain
    BY DEF Plain
  <2> QED BY <1>5, <2>1, AuditedKeeps DEF AuditModes, Commanded
<1>6. CASE AuditPackages
  <2>1. {"packages"} \in SUBSET Plain
    BY DEF Plain
  <2> QED BY <1>6, <2>1, AuditedKeeps DEF AuditPackages, Commanded
<1>7. CASE AuditModules
  <2>1. {"modules"} \in SUBSET Plain
    BY DEF Plain
  <2> QED BY <1>7, <2>1, AuditedKeeps DEF AuditModules, Commanded
<1>8. CASE AuditDeleted
  <2>1. {"index"} \in SUBSET Plain
    BY DEF Plain
  <2> QED BY <1>8, <2>1, AuditedKeeps DEF AuditDeleted
<1>9. ASSUME NEW modules \in SUBSET Modules, ChangeModules(modules) PROVE HardeningInv'
  <2>1. /\ step = "idle" /\ quiet' = 0 /\ template' = template
        /\ UNCHANGED <<exposed, content, good, live, bad, tmplSum, fileSum, todo, step, escaped>>
    BY <1>9 DEF ChangeModules, host, sums
  <2>2. template' \in 1..MaxTemplate
    BY <2>1 DEF HardeningInv, HardeningTypeOK
  <2> QED BY <2>1, <2>2, OperatorKeeps
<1>10. ASSUME NEW t \in 1..MaxTemplate, UpgradeCharm(t) PROVE HardeningInv'
  <2>1. /\ step = "idle" /\ quiet' = 0 /\ template' \in 1..MaxTemplate
        /\ UNCHANGED <<exposed, content, good, live, bad, tmplSum, fileSum, todo, step, escaped>>
    BY <1>10 DEF UpgradeCharm, host, sums
  <2> QED BY <2>1, OperatorKeeps
<1>11. ASSUME NEW p \in exposed, Edit(p) \/ Restart(p) PROVE HardeningInv'
  BY <1>11, EditKeeps, RestartKeeps
<1>12. CASE UNCHANGED hardeningVars
  <2>1. /\ UNCHANGED <<exposed, harden, template, content, good, live, tmplSum, fileSum>>
        /\ UNCHANGED <<bad, todo, step, escaped, quiet>>
    BY <1>12 DEF hardeningVars
  <2>2. InAll' = InAll /\ Left' = Left /\ Object' = Object
    BY <2>1, InAllLasts, LeftStays
  <2> QED BY <2>1, <2>2 DEF HardeningInv, HardeningTypeOK, StepsFit, SumsTell, PlainComply,
             FilesSettle, Settled
<1> QED BY <1>1, <1>2, <1>3, <1>4, <1>5, <1>6, <1>7, <1>8, <1>9, <1>10, <1>11, <1>12 DEF HardeningNext

LEMMA InvSettles == HardeningInv => SettlesInTwo
<1> SUFFICES ASSUME HardeningInv, quiet = 2
             PROVE  /\ step \in {"idle", "check", "ended"}
                    /\ InAll \cap bad \subseteq {"limits.d"}
                    /\ \A p \in InAll \cap Templated :
                          /\ good[p]
                          /\ fileSum[p] # Edited =>
                                /\ content[p] # Edited
                                /\ <<"cut", p>> \in escaped \/ content[p] = template
                                /\ <<"lost", p>> \in escaped \/ live[p] \in {content[p], Down}
  BY DEF SettlesInTwo, InAll
<1> USE DEF HardeningInv
<1>1. step \in {"idle", "check", "ended"}
  BY DEF StepsFit
<1>2. InAll \cap bad \subseteq {"limits.d"}
  BY DEF PlainComply, HardeningTypeOK
<1>3. ASSUME NEW p \in InAll \cap Templated PROVE Settled(p)
  BY <1>3 DEF FilesSettle
<1>4. ASSUME NEW p \in InAll \cap Templated, fileSum[p] # Edited
      PROVE  /\ content[p] # Edited
             /\ <<"cut", p>> \in escaped \/ content[p] = template
             /\ <<"lost", p>> \in escaped \/ live[p] \in {content[p], Down}
  <2>1. fileSum[p] = content[p] /\ tmplSum[p] = template
    BY <1>3 DEF Settled
  <2> QED BY <1>1, <1>4, <2>1 DEF SumsTell
<1> QED BY <1>1, <1>2, <1>3, <1>4 DEF Settled

\* After two passes that nobody has disturbed all that is audited complies, in any
\* behaviour: whatever was edited and restarted and whichever hooks failed at
\* whichever steps, with any templates and any objects exposed together.
THEOREM HardeningSettles == HardeningSpec => []SettlesInTwo
<1>1. HardeningInit => HardeningInv
  BY HardeningInitInv, HardeningAssumption
<1>2. HardeningInv /\ [HardeningNext]_hardeningVars => HardeningInv'
  BY HardeningNextInv, HardeningAssumption
<1> QED BY <1>1, <1>2, InvSettles, PTL DEF HardeningSpec
=============================================================================
