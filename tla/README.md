# Formal models of the cinder charm

TLA+ specifications of the charm in `src/` (the `cinder` operator for Juju), TLC
configurations that check them on small instances, and proofs, checked by TLAPS, of
the properties that matter most for every instance. Paths below are relative to
`src/`; "the library" is `charmhelpers/`, the copy of charm-helpers in the tree.

1. [The system](#the-system)
2. [The modules](#the-modules)
3. [What the checks show](#what-the-checks-show)
4. [What is proved](#what-is-proved)
5. [What the models have shown about the code](#what-the-models-have-shown-about-the-code)
6. [What is not modelled](#what-is-not-modelled)
7. [Plan](#plan)

## The system

The charm is a set of short programs. Juju runs `hooks/cinder_hooks.py` on a unit
once for every event it owes to it (an option was set, a relation has changed, a
device was attached), one at a time; the operator runs `actions/*.py` in between.
Nothing stays in memory from one execution to the next. Three rules of Juju shape
everything else:

- what a hook writes to a relation is published when the hook succeeds, and dropped
  when it fails;
- a hook that fails is run again before any other hook of the unit, on whatever the
  failed attempt has left on the host;
- hooks of different units run at the same time.

An action that fails is reported, not repeated, and actions run on a unit with a
failed hook too.

### Components

| Component | State | Operations | Works with |
|---|---|---|---|
| Database initialisation (`cinder_utils.py:714-906`, `cinder_hooks.py:329-349, 550-575`) | notification and echo of each unit in the peer relation; the schema; when services were started | `db_changed`, `cluster_joined`, `cluster_changed`, `migrate_database` with retries, `do_openstack_upgrade` | leadership, the peer relation, pause |
| Unit configuration and services (`cinder_hooks.py`, `cinder_utils.py:212-495, 864-1048`, library `core/host.py`, `contrib/openstack/utils.py`, `templating.py`) | files, services and their masks, what each service has read, the flags paused and upgrading | some thirty hook handlers, `restart_on_change`, pause, resume, `openstack-upgrade`, `upgrade-charm`, the series upgrade | every relation |
| Local volume group (`cinder_utils.py:497-712`, library `contrib/storage/linux/lvm.py`, `utils.py`) | labels and partition tables of devices, the volume group, its thin pool | `configure_lvm_storage` | `config-changed`, `storage.real`, the cinder-volume service |
| Ceph broker (`cinder_hooks.py:487-547`, library `contrib/storage/linux/ceph.py:1600-2250`) | the request published, the answers of the ceph units, keyring, `ceph.conf` | `ceph_joined`, `ceph_changed`, `ceph_broken` | ceph units, configuration, pause |
| Workload status (`cinder_utils.py:972-1010`, library `contrib/openstack/utils.py`) | the status shown | `assess_status` after each hook, the pause and resume helpers | contexts, flags, services |
| Policy overrides (library `contrib/openstack/policyd.py`) | `policy.d`, the success file | `maybe_do_policyd_overrides` | Juju resources, status |
| Endpoints, certificates and clustering (`cinder_hooks.py:377-458, 578-735`, library `ip.py`, `ha/utils.py`, `cert_utils.py`) | settings in the identity, ha and certificates relations; the https site and its files; addresses in the peer relation | `identity_joined`, `ha_joined`, `ha_changed`, `certs_joined`, `certs_changed`, `configure_https`, `cluster_joined` | keystone, hacluster, vault, haproxy, apache |
| Upgrade decision and package set (library `contrib/openstack/utils.py`, `fetch/ubuntu.py`) | packages, the lists of apt, files of a release | `openstack_upgrade_available`, `do_openstack_upgrade`, `add_source` | `config-changed`, the action, the database |
| Operator actions on the service table (`actions/cinder_manage.py`) | the table of services in the database | `remove-services`, `rename-volume-host`, `volume-host-add-driver` | cinder-manage |
| Contexts and templates (`cinder_contexts.py`, library `context.py`, `templating.py`) | none between hooks | the context classes, `OSConfigRenderer` | what other charms publish |
| Monitoring checks (library `contrib/charmsupport/nrpe.py`) | commands, exported services, monitors on a relation | `update_nrpe_config`, `NRPE.write` | the nrpe subordinate |
| Hardening (library `contrib/hardening`) | audited files and their saved checksums | the audits of `harden` | operators, packages |
| Deferred restarts, readiness of peers, ceph pools and images, the framework of services (library) | events; peer settings; pools; ports | | parts of the library this charm copies and uses in part or not yet |
| Hook environment (library `core/hookenv.py`, `unitdata.py`) | options saved, the store of the unit | start and end of a hook process | everything |
| Installation, tests and packaging | | | |

`PROJECT.json` lists them all with what is modelled of each.

### What is hard about it

- *Units interleave.* The one-time initialisation of the database is agreed upon with
  two keys per unit in the peer relation and no lock. Leadership moves at any time, and
  so does the virtual address of the cluster.
- *Hooks fail half way.* A decision that looks at the host (has the file changed, is
  the device a physical volume, are the packages old, does an equal request exist) is
  taken anew by the second attempt, on what the first one has already done.
- *Changes are detected, not recorded.* A service is restarted because a file differs
  from what it was when this hook started. Whoever writes the file first without a
  restart takes the reason away from whoever comes next.
- *Sets are computed, not remembered.* Pause, resume, the monitors of nagios and the
  resources of the cluster each derive anew what they are about; what changed in between
  must still be undone.
- *Pause crosses everything.* Handlers skip, skip partly, or rely on a masked service
  when the unit is paused, and a series upgrade pauses and resumes on its own.
- *Answers are late.* Ceph units answer requests that the unit has replaced.
- *Data can be destroyed.* Devices are zapped, groups removed, directories moved to
  images on grounds that were looked up some commands earlier.

### What makes it correct

| Component | Properties |
|---|---|
| Database initialisation | Services are started on the database of the moment, no unit acknowledges a sync it has not picked up. Knowledge of an initialised database is never lost. Every sync is picked up by all units. An upgrade of all units migrates the database. |
| Unit configuration | Between hooks, running services have read what is on disk. No change of a relation is lost. A paused unit stays down, an active one is up, in whatever order operations come and whatever services it has. |
| Local volume group | No data is destroyed unless an option says so. The group is not removed by a hook that found it. What the hook has taken ends up in use. |
| Ceph broker | A request counts as complete only when it is. The volume service is started after that. The keyring is there exactly while the relation is. Every request is served. |
| Workload status, policy overrides | The status is true once the hooks have run, and an untrue one does not last. The policy directory holds one resource or nothing. |
| Endpoints and clustering | Once hooks are through, keystone has the url of the moment, the site serves it, and the ports chain from haproxy to the api. Units tell their own addresses, and ask the cluster for the same. |
| Upgrade | Nothing serves on a database older than its code; what an upgrade began is finished. apt finds the release the charm derives. |

## The modules

| Module | What it is |
|---|---|
| `DbInit`, `MCDbInit`, `DbInit_proofs` | database initialisation, several units |
| `Migration` | the abstract specification that `DbInit` implements |
| `UnitConfig`, `MCUnitConfig`, `UnitConfig_proofs` | files, services, pause and upgrades of one unit |
| `LvmStorage`, `MCLvmStorage`, `LvmStorage_proofs` | the volume group of one unit, command by command |
| `CephBroker`, `MCCephBroker`, `CephBroker_proofs` | one unit and the units of ceph |
| `OpenstackUpgrade`, `MCOpenstackUpgrade`, `OpenstackUpgrade_proofs` | the upgrade of one unit from release to release, step by step |
| `Endpoints`, `MCEndpoints`, `Endpoints_proofs` | identity, ha and certificates relations of one unit and its https site |
| `Policyd` | policy overrides; extended by `WorkloadStatus` |
| `WorkloadStatus`, `MCWorkloadStatus`, `WorkloadStatus_proofs` | the workload status, composed with `Policyd` |
| `MCLibrary`, `Library_proofs` | sixteen smaller modules, each explored on its own in one run; proofs about all of them, a section for each |
| `Contexts` | what a context gives of what several units publish |
| `HookEnv` | the process of one hook: options, cached settings, store, end |
| `DeferredEvents` | restarts that wait for the operator |
| `Hardening` | audits and the checksums of templated files |
| `Nrpe` | monitoring checks |
| `Sources` | `openstack-origin`, apt's lists, the release derived |
| `HaResources` | what each unit asks of the cluster |
| `Addresses` | the addresses that units publish to their peers |
| `ApiFrontend` | haproxy, apache and the api of the units of a cluster |
| `ServiceRoles` | which services a unit has, across pause and resume |
| `ServiceTable` | operator actions on the service table |
| `CephPools` | pools that a broker request asks for |
| `RbdStorage` | `ensure_ceph_storage`, command by command |
| `PeerReadiness` | whether all units of an application are ready |
| `Templating` | which template a file is made from |
| `ServiceManager` | ports in the library's framework of services |

Each specification names its bounds as constants (`Max...`). They limit what the
environment does (options set, failures, operator actions); the ones that limit the
charm are `MaxSyncs`, which ends the numbering of syncs, and `MaxVersion`, which ends that
of the data of an image. Operators called `X_Something` next
to an operator `X` are variants of it with one plausible mistake; with the variant in
the place of the original TLC must find a property violated, which shows that the
property looks at that code. `PROJECT.json` pairs them.

### DbInit

| Variable | In the code |
|---|---|
| `bag[u]` | `cinder-db-initialised` and its echo, in the peer relation, as committed |
| `hook[u]` | the hook or action under way, how far it is, the retries left, and the settings it has made so far |
| `pend[u][v]` | the events about `v` that Juju owes to `u`; from it `related_units()` |
| `schema`, `svc[u]` | the number of syncs run, and that number when `u`'s services were last started |
| `up`, `paused`, `pkg`, `migrated`, `leader`, `left` | services, the paused flag, upgraded packages, whether an upgraded unit has run a sync, `is_elected_leader`, removed units |

`DbChanged` is the handler of shared-db up to the decision to migrate, `StartUpgrade`
is `do_openstack_upgrade` up to the same point, called by `config-changed` or by the
action. `SyncOk`, `SyncNeedsOnlineMigrations`, `OnlineMigrationsDone` and `Retry` are
the ways through `migrate_database`; `Announce` is its end, the restart of the services and
the new id. A hook may fail before or after it. `ClusterHook(u, v)` is
`check_local_db_actions_complete` on the peer `v`. `HookEnds` publishes, `HookFails`
drops and owes again. The identity of a notification is its author and the number of
syncs when it was made, which is what the uuid stands for. `local_unit() in init_id` is the relation
`Prefix` on names. What `cluster_changed` does besides, `CONFIGS.write_all`, is in
`UnitConfig`.

`Migration` says what all this is for, without ids, hooks or relations: a database with
a number of syncs, units whose services are started on one, and what each unit has
acknowledged. Its steps are a sync, a start or stop of a unit's services on the
database of the moment, and an acknowledgement that never exceeds what running services
were started on and never leaves a unit that has acknowledged one with none.
`DbInit` implements it under `running <- up`, `version <- svc` and
`acknowledged <- the numbers of the ids that a unit has published or echoed`; the
property is `MigrationIsKept`.

### UnitConfig

Three sources of data stand for all the charm renders: the options, the relations that
go into `cinder.conf` alone, and identity and certificate data that go into the site of
the api. A source is a version number; a file is the vector of versions it was made
from; a service has read files. A fourth source, `ceph`, exists for the one handler
that is not decorated with `restart_on_change`.

A relation may have part of its data only (`partial`): the handlers of identity, amqp and
shared-db then return before they write (`Return`).

A hook runs in steps: `StartHook` takes the data and, if decorated and not paused, the
hashes; `Write` renders; `Post` is what follows in the body (the reload in
`configure_https`) and the comparison of hashes; `Restart` restarts one service.
Pause is `StopServices` (stop, disable, mask) and `SetUnitPaused`; resume is
`StartServices` (unmask, start what is down) and `ClearUnitPaused`. The
`openstack-upgrade` action is `Write`, `CycleServices`, a resume if paused, and
`config_changed` with its decorator; it ends where the resume raises because a service
has not started, and a series hook is run again (`Retried`). A masked service does not
start.

Abstracted: `StopServices` and `StartServices` take all services at a time;
`configure_https` carries a decorator of its own whose restarts are among those of the
outer one, and is represented by the reload alone; restarts are never deferred (the
charm has no option `enable-auto-restarts`; `DeferredEvents` has them). In
`ceph-relation-broken` Juju still lists the relation, so what `ceph_broken` writes does
not depend on the relation's going.

`ServiceRoles` complements it: hooks are whole there, but which services a unit has
follows from `enabled-services`, the release, the backup relation and the installed
packages, anew each time, and pause, resume and the handlers apply to those of their
moment.

### LvmStorage

A device carries nothing, a filesystem on the whole disk, a partition table or an LVM
label; it belongs to the charm's group, to another one or to none; it may be attached,
mounted, and hold somebody's data. `Mount` stands for a filesystem on the device or for
a logical volume that lies on it. `StartHook` takes the option and leaves out what is
absent or mounted; `Examine`, `CleanStorage` and `CreatePhysicalVolume` are one turn of
the loop; `AfterScan`, `RemoveVolumeGroup`, `CreateVolumeGroup`, `Reduce`, `Extend` and
`GrowPool` are the commands after it. `Blocked` says when the command of a step cannot
succeed; `Fail` then ends the hook, and may do so at any other step within `MaxFails`.

The history variable `orphans` holds devices thrown out of a group. One device of the
group always stays attached: with all of them gone, a second group of the same name
could be created, and LVM tells such groups apart by uuid, which the charm does not.
A filesystem that takes a whole disk is treated as the code treats it: `fdisk` shows no
partition table, so the disk counts as empty.

### CephBroker

The unit has published one request (`sent`), each ceph unit has been shown some request
(`seen`), and its answer carries the id of the request it answers. The id is a hash of
the operations asked for, hence equal requests have equal ids: a request is its id.
`CephChanged` is `ceph_changed` up to its decision, then either `Send`, or `Write`,
`RestartVolume` and `Post`. `ConfigChanged` writes the same files. `CephBroken` deletes
the keyring and writes; `PostBroken` ends the hook and with it the relation.
`done` and `fresh` are history: what ceph has carried out, and whether an answer was
given after the unit last sent a request.

One ceph relation at a time is modelled. Every unit of ceph answers with the id of the
request, so the branch of `is_request_complete_for_rid` for old ceph units without it is
not reached. Events come between hooks or between their steps as Juju allows: relation
data changes at any time, units leave between hooks.

### OpenstackUpgrade and Sources

A release is a number. Whether an upgrade is due compares the release of the
installation source with that of a marker package, or of `cinder-common` where the
archive has none. `StartConfigChanged` and the action lead into the steps of
`do_openstack_upgrade`: source, fetch of the index (which may fail and be passed over),
`apt` (which may unpack one package and not the other), purge of what the release has no
use for, files, stop, migration, start. A step may be the last of a process: `cut`
remembers an upgrade that was interrupted and not done over. `schema` is the release
that this leader migrated to, `told[b]` what a storage backend has heard. What
`config_changed` writes after an upgrade comes from the renderer of its import; `file`
is the release whose templates a file was made from. `service_stop` and `service_start`
return False where systemd fails, and nobody looks: `Stop`, `Start` and `Restart` may do
nothing, and `refused` remembers it until the next command that is obeyed. Services that
did not stop go on with the old code; that is what `FilesFitPackages` and
`ServicesComeBack` except, and no more.

`Sources` has every form of `openstack-origin`, what `add_source` writes for it step by
step, and the release that `get_os_codename_install_source` reads from the same string.

### Endpoints, HaResources, Addresses, ApiFrontend

`Endpoints` has the identity, ha and certificates relations of one unit. The url that
`identity_joined` sets is a scheme and a host; the host is an option, the vip once the
cluster is formed, or the unit's address; the scheme depends on the certificates that
were delivered and on the ssl options. `registered[v].host` has a host for each type of
endpoint: `os-public-hostname` is for the public one, and admin is resolved as internal,
as neither has a hostname of its own here. Whatever asks for addresses asks for all of
them, hence `AddressRaises` stops every hook that does, `assess_status` at the end of
each included. `asked`, `issued`, `disk` and `site` follow one
certificate from the request through files and links to the site of apache;
`processed` are the hosts of the request when `certs-changed` last ran, because only
`process_certificates` makes the links of a host, for the addresses it finds then. Hooks are
whole steps here, as nothing in them depends on an interleaving within the unit.
`deaf` marks changes that no hook is run for: a relation that goes (the charm has no
hook for the end of the ha and certificates relations).

`HaResources` has what each of several units asks of hacluster (`vip` and DNS HA).
`Addresses` has the addresses that `cluster_joined` picks among those of the interfaces,
where a vip may be at that moment. `ApiFrontend` has the four files on each unit that
decide which process listens on which port, and the way of a request from any haproxy to
any api.

### WorkloadStatus and Policyd

`WorkloadStatus` EXTENDS `Policyd`: one process at a time runs on the unit, the rewriting
of policy.d step by step included, and the status is assessed at its end. A required
relation is absent, joined or complete, and each change owes a hook. `assess_status`
takes the first of its causes; the pause and resume helpers raise if the result is
neither active nor maintenance, which leaves a series-upgrade hook in error: Juju then
runs nothing but that hook. `drift` marks what no hook is owed for, such as a service
that died.

### The sixteen parts of MCLibrary

Each is a component of its own, with variables that no other part uses. A behaviour of
the run picks a part and stays in it; the other variables keep their first values. This
keeps the parts apart and shares one TLC run among them. What they have that is easy to
overlook:

- `Contexts`: the hooks of shared-db set the hostname that the database may be reached
  from, and until it is an address in the network that the other application asks for the
  context is deferred (`Deferred`, `context.py:250-266`). A hook sees its own setting
  (`ourHostname`), the other application only what a hook that ended well has set
  (`committed`). `prefer-ipv6` is left out there.
- `DeferredEvents`: a package can be updated at any moment, also between the restart that
  `restart-services` makes and the clearing of its events. `missed` is history: the
  services whose change the code cannot know of.
- `Nrpe`: the server is restarted except in update-status, and `service` may fail without a
  word (`restarted`).
- `RbdStorage`: `service_stop` and mounts may fail without a word; `mishap` remembers it.
- `Templating`: `do_openstack_upgrade` makes a second renderer; CONFIGS wait (`suspended`)
  and write last in a hook, with the release of before. The action registers new ones.

## What the checks show

`tlc -config X.cfg M` in this directory repeats a run; `PROJECT.json` lists them.
Deadlock is not checked: in all models the system may come to rest, when nothing
is owed and the environment has used up its bounds.

### Runs that pass

| Run | Instance | Checked |
|---|---|---|
| `db_safety` | two units, the second joining, three syncs, one change of leader, one failed hook, one pause, one upgrade, one removal, one retry; 709,000 states | `DeliveredMeansRestarted`, `MigrationIsKept` |
| `db_live` | three units under one leader, two syncs, one retry, all three upgraded; fair; 63,000 states | `InitialisedOnce`, `UpgradeMigrates`, `EverySyncIsPickedUp` |
| `unit` | two changes of the sources but ceph, those of relations complete or not; any three of pause, resume, openstack-upgrade, upgrade-charm and the two series hooks, pause amid a series upgrade included; one failure, one service that systemd does not stop or start; fair; 409,000 states | `RunsWhatIsOnDisk`, `PausedStaysDown`, `ActiveIsUp`, `ChangesAreRendered` |
| `lvm_safety` | a new disk, a disk in use, a disk of another group; three choices of devices, with and without overwrite and removal of what is missing; two changes of options, one device that goes or is mounted, one failing command; 699,000 states | `DevicesServe`, `NothingIsLost` |
| `ceph_live` | two ceph units, two requests, two changes of the options, one trouble (failed hook, refusal, a unit or the relation going, pause); fair; 335,000 states | `CephIsAwaited`, `KeyringFollowsRelation`, `EveryRequestIsServed` |
| `upgrade` | three releases, two changes of the options, two actions, one retry, one process cut short, one fetch of the lists that fails quietly, one command to the services that systemd refuses; fair; 491,000 states | `MigratedBeforeServing`, `UpgradeIsWhole`, `UpgradeGoesThrough` |
| `endpoints` | no vip, one in the network, one outside it; a hostname or none; ssl options set or not; the release before xena, an upgrade; one change of the options, four relation events, one pause or failed hook; fair; 1,357,000 states | `EndpointsAreCurrent`, `SiteIsServed`, `IsRegistered` |
| `status` | one required relation, a cluster, four resources (two good, one that does not open, one with a bad file); four events, one service or process that fails; fair; 286,000 states | `StatusIsTrue`, `OverridesAreSound`, `StatusRecovers` |
| `library` | the sixteen parts, one by one; 650,000 states | one property each, below |

Some properties are conjunctions, where one question has several sides:
`MigrationIsKept` contains that no unit announces a sync its services have not picked up,
and that knowledge of the database is kept; `DevicesServe` is `OverwriteConverges`
(devices that were initialised end up in the group) and `PoolCoversGroup`;
`NothingIsLost` is `KeptWithoutOverwrite` and `GroupSurvives`; `CephIsAwaited` is
`CompleteMeansDone` and `AnsweredMeansRestarted`; `UpgradeIsWhole` is what an upgrade
leaves to do in files, packages and backends; `SiteIsServed` has the site for each https
url and the certificate for each site; `OverridesAreSound` has the four promises of the
docstring of `maybe_do_policyd_overrides`.

| Part of `library` | Property | In words |
|---|---|---|
| `Contexts` | `ContextsAreSound` | the credentials a context gives are of one source, a complete context stays complete while units only join and publish, and no file lacks a section for want of an address that the database has |
| `HookEnv` | `NothingIsHalfDone` | a hook killed anywhere leaves the options it saw as changed for the next one, and what it wrote whole or gone |
| `DeferredEvents` | `RestartIsRecorded` | a service that runs with files from before a change has an event, but for four kinds of changes |
| `Hardening` | `SettlesInTwo` | two undisturbed passes make everything audited comply and the third changes nothing |
| `Nrpe` | `MonitoredIsDefined` | nagios is told of no monitor without a command, which the server has read if it could be restarted |
| `Sources` | `OriginIsItsRelease` | apt finds the release that the charm derives from the option |
| `HaResources` | `UnitsAskTheSame` | units ask for the same resources and none deletes what another wants |
| `CephPools` | `PoolsAreAsAsked` | a pool is what the operation that created it asked for |
| `RbdStorage` | `MoveKeepsData` | the directory shows the newest data wherever the move is interrupted, if services stop and mounts do not fail silently |
| `PeerReadiness` | `QuietUnitsAgree` | quiet units agree on whether the application is ready, and are right |
| `Addresses` | `AddressesAreOwn` | a unit never publishes a vip or a temporary address |
| `ServiceTable` | `RemovalsAreReported` | each removal is reported by one action, and nothing else is |
| `Templating` | `TemplatesFit` | after a process that ended well all files are of the newest templates of one release, the installed one unless a hook upgraded under its CONFIGS |
| `ServiceManager` | `PortsFollowServices` | the ports open are those of the services with their data |
| `ServiceRoles` | `PauseReachesServices` | pause and resume reach services that change between them |
| `ApiFrontend` | `ChainIsClosed` | between units that have caught up, a request reaches the api |

Why the bounds are enough to be of interest:

- In `DbInit` the hard cases need a unit that writes while another reads, a second
  notification after the first, and a second leader; each mutant of the run is found
  within these bounds. Two units exhaust what one peer can do to another; the
  properties that depend on a third (an echo that hides an id from it) are in `db_live`
  and `db_cleared`. Safety for every number of units, syncs, failures and pauses is
  proved (below).
- In `UnitConfig` a stale service needs one change, one hook that writes without a
  restart and one that could have; a lost mask needs a pause, a series upgrade and
  something in between. The safety properties are proved for every bound.
- In `LvmStorage` each disk is of another kind, and three are what it takes for one in
  the group, one new and one refused. Two changes of options reach there-and-back.
- In `CephBroker` two units give answers to different requests at the same time, and
  two changes of options bring the first request back. The theorems hold for any bounds.
- In `OpenstackUpgrade` three releases allow an upgrade that is interrupted, a second one
  over it and one that was skipped; two changes of options reach a release and back.
- In `Endpoints` four events relate all three relations and remove one, and each option
  has a value for each branch of `resolve_address` and `https`.
- In `WorkloadStatus` four events are a pause, a resource, a relation and one between;
  a good resource that replaces a good one, one that fails early and one that fails late
  are the ways through the abort.
- In the parts of the library two of everything are there where two interfere (units,
  services, hosts, vips), and up to three versions where one is skipped.

### Fairness

`DbInit`: every owed event is dispatched and every hook that has started goes on to its
end (`ClusterHook`, `Migrate`, `HookEnds`): Juju's agent retries until a hook succeeds
and never drops an event, and the commands the hooks run terminate. Nothing is assumed
of the operator, of leadership, of retries or of failures. `UnitConfig`, `WorkloadStatus`
and `OpenstackUpgrade`: the hook and the execution under way go on. Weak fairness of
`Hook` as a whole suffices where the hooks owed are finitely many and each is owed until
it ran; no order among them is assumed. In `WorkloadStatus` it includes update-status,
which Juju runs periodically. `CephBroker`: the same for the unit, and each ceph unit
publishes its key, is shown what the unit publishes, and answers, either way, what it
was shown. Which way is left open, and the property excludes refused requests rather
than assuming there are none. `Endpoints`: each hook owed is dispatched, and keystone,
the cluster and the certificate authority answer. `LvmStorage` and the parts of the
library have no liveness property: a device that stays mounted blocks the hook for
ever, as it should.

### Runs that find a violation

Each checks one property, taken from a sentence of the repository that `PROJECT.json`
quotes.

- `db_cleared` (`QuiescentMeansRestarted`): a unit that has lost the leadership clears its
  own id when it echoes another, even if its own is the newer and no peer has read it.
  The peers then never hear of the last sync.
- `upgrade_configs` (`CorrectConfigsSelected`): `config_changed` that upgrades ends with
  `CONFIGS.write_all()` of the renderer that was made at import, for the release of
  before, and puts the old files over the new.
- `policyd_broken` (`FailureIsTold`): a resource that does not open, attached after a good
  one, empties policy.d and leaves the success file, so that the status says `PO:` and
  later hooks skip the overrides.

## What is proved

TLAPS checks the theorems for every value of the constants that satisfies the assumptions
of its module (bounds are natural numbers, sets are what they are said to be).

- **`DbInit_proofs`**. `TypeCorrect`. `AnnouncementsAreCovered`: always
  `AnnouncedMeansRestarted` and `PausedMeansDown`, for any units, name relation, leader
  changes, failures and pauses. The property alone is not inductive, as it speaks of
  committed settings while a hook that ends commits the ones in `hook`. `AnnounceInv`
  adds that what the hook has set so far is covered too, and that no id in the relation
  or in a hook is from a sync that has not run. `DatabaseStaysKnown`: `KnowledgeIsKept`, by
  the invariant that a unit with published settings runs no hook whose settings are empty.
  `DeliveriesAreHandled`: if no name is part of another (`Prefix = {}`), always
  `DeliveredMeansRestarted`. It takes that an id is published by the unit it names, so
  that a peer never takes it for its own, and `AnnounceInv` for the case that the id has been
  echoed before. `MigrationIsImplemented`: `Spec => MigrationIsKept`, the refinement. The
  initial state maps to an initial one; a step of `DbInit` maps to a sync, a start, a stop,
  an acknowledgement or a stutter, by `AnnounceInv` and `KnowInv`.
  `UpgradesMigrate` and `InitialisedOnlyOnce`: under one leader and with no failed
  hook (`Steady`), by `LeaderInv`: only the leader migrates, and what it has done is in
  the settings that it has published or will. For the last the set of units is finite,
  as the property counts.
- **`UnitConfig_proofs`**. `TypeCorrect`. `PausedUnitsStayDown`: as long as no execution was
  cut short and systemd obeyed, always `PausedStaysDown`. It rests on `DownInv`:
  whenever the flag is set, or is about to be, all services are down *and masked*, except
  in a resume or an upgrade on its way to clear the flag. The mask is what makes it
  inductive: `upgrade_charm` and the hooks restart services without a look at the flag.
  `ActiveUnitsAreUp` (`ActiveIsUp`) by `UpInv`, which says for each step of a pause,
  resume or upgrade which services are up and unmasked already.
  `ServicesRunWhatIsOnDisk` (`RunsWhatIsOnDisk`), provided `ceph_broken` does not come and
  a unit is at most paused amid a series upgrade (`OnlyDecorated`). `FreshWhenDone` says
  why a service that has not read a file will: while the hook is at its body, the hash
  taken at its start is that of what the service has read; afterwards it is among those
  still to be restarted. The condition is needed: without it TLC finds the property
  violated both ways.
- **`LvmStorage_proofs`**. `TypeCorrect`. `DataIsKept`: without overwrite and without
  `remove-missing-force` no step destroys data, but that of a filesystem that takes a
  whole disk. `GroupIsKept`: `vgremove` happens only in a hook none of whose devices is in
  the group. Both follow from `SafeInv`: a device in the group that the hook has seen is
  either still to be examined or has set `vg_found`, a device about to be cleaned is one
  that the options allow, and what the hook has put aside is a physical volume.
  `LossIsRuledOut` puts them together. `DevicesAreInService` (`DevicesServe`), unless
  another group has a thin pool: `FreeInv` follows each device that is initialised and
  unused through the hook, and shows that it holds no data, so that it is not mounted and
  not passed over; `PoolInv` shows that the pool lies in the group, that a group is created
  only where none is left, and that at most the device being added is outside the pool.
- **`CephBroker_proofs`**. `TypeCorrect`, `CompletionIsReal` (`CompleteMeansDone`),
  `AnsweredUnitsAreRestarted` (`AnsweredMeansRestarted`), together `CephIsAwaitedAlways`
  (`CephIsAwaited`), and `KeyringIsOfRelation` (`KeyringFollowsRelation`), with failures,
  refusals, departures and pauses without bound. `BrokerInv` says that a positive answer
  means the request is done, and that an answer to the present request either has been
  picked up by the volume service, or has a hook owed, in error or under way that will
  pick it up. The last part makes the theorem about quiet states inductive.
- **`OpenstackUpgrade_proofs`**. `TypeCorrect`. `LeadersMigrateFirst`
  (`MigratedBeforeServing`) and `UpgradesAreWhole` (`UpgradeIsWhole`), for any number of
  releases, changes of the source, actions, retries and failures. `UpgradeInv` has a part
  for each thing that an upgrade carries from step to step: what the process knows (the
  release of its source and of its renderer), which packages are on their way, what is left
  to purge, whether the database has been migrated, what the backends were told, of which
  release the files are and what the services have read. The properties speak of the unit
  at rest; between `stop` and `start` it is the position in `do_openstack_upgrade` that
  says which of them hold already. Services that systemd refused to stop or start are in
  the invariant as in the code, without a bound.
- **`Endpoints_proofs`**. `TypeCorrect`, `KeystoneIsUpToDate` (`EndpointsAreCurrent`) and
  `TheSiteIsServed` (`SiteIsServed`), for any number of changes of the options, the
  relations and the release. `EndpointsInv`: whatever changes the url owes a hook that
  registers it, whatever changes the site owes one that writes it, or is in `deaf`.
  `LinkInv` was what the certificates needed: what was delivered is on disk only for the
  hosts that `certs-changed` had in its request. Without `processed` the property is not
  inductive, and false: with a second change of the options (the instance has one) the
  site can move to a host whose certificate was delivered and never linked.
- **`WorkloadStatus_proofs`**. `TypeCorrect`, `TheStatusIsTrue` (`StatusIsTrue`) and
  `PolicyIsWholeOrGone` (`OverridesAreSound`), for any required relations, resources,
  events and faults. `StatusInv` says that the status fits as soon as no hook is owed or
  under way; for policy.d, `WriteInv` says what each step of the rewriting has written,
  `SuccessInv` that with the success file the directory is whole and of the attached
  resource, or `upgrade-charm` is owed, and `FailureInv` that without it the directory is
  empty, or a hook is about to empty it.
- **`Library_proofs`**, for all values of the constants of each part:

  | Theorem | Property | What makes it inductive |
  |---|---|---|
  | `OperatorsAreToldTheTruth` | `RemovalsAreReported` | what an action under way still means to remove |
  | `PauseReachesAll` | `PauseReachesServices` | `MaskInv`: which services are masked, and that an installed one that is not masked runs |
  | `TheWayIsOpen` | `ChainIsClosed` | `FilesAreFollowed`: whatever takes one of the four files from being current owes the unit a hook that writes all of them, or is remembered |
  | `TheMoveKeepsData` | `MoveKeepsData` | `MoveIsSafe`: the step under way, where the newest data are and what is mounted |
  | `PoolsFollowTheirOperation` | `PoolsAreAsAsked` | `CallFollows`: what the call has done, by its command. That the number of placement groups is near the share rests on lemmas about `NearestPower`: powers of two between which each number lies |
  | `QuietMeansAgreed` | `QuietUnitsAgree` | `QuietUnitsFit`: what a unit with no hook left has said fits the units it can see |
  | `TheClusterAgrees` | `UnitsAskTheSame` | what a unit that has seen the options asks for, as a function of them; the names of resources differ and none is an old one |
  | `UnitsTellTheirOwn` | `AddressesAreOwn` | `ToldIsLasting`, `FirstIsTold`: what was told is not on its way out, and is of the first network the unit is in |
  | `MonitorsAreAnswered` | `MonitoredIsDefined` | `WrittenIsDefined`: each check is written before the server reads, and only stale monitors of haproxy lose their command |
  | `NoRestartIsMissed` | `RestartIsRecorded` | a request before the start of its service has been done, and what `restart-services` has started runs with the files of now, or is in `missed` |
  | `FailuresLeaveNothing` | `NothingIsHalfDone` | `SavedIsHandled`, `OpenIsUncommitted`: whose work is saved, and whose is not yet committed |
  | `PortsFollow` | `PortsFollowServices` | `ManagerInv`: each open port is in the file of its service or forgotten, and what the hook has done to each service it has seen |
  | `FilesFitThePackages` | `TemplatesFit` | `RendererFits`, `SuspendedFits`: the renderer that writes and the one that waits each have an environment of their release, which is not after the installed one; what is not left to do is written for it |
  | `OriginsMeanTheirRelease` | `OriginIsItsRelease` | `StepsAreDone`: what each step of `add_source` has done, by the form of the origin |
  | `HardeningSettles` | `SettlesInTwo` | `SumsTell`: a checksum that agrees with its file says that the file is of the template last checked and in use, unless a hook ended between; `PlainComply` after one pass, `FilesSettle` after two, as a pass may spoil the mode of a file it has already seen |
  | `ContextsHold` | `ContextsAreSound` | `ContextsInv`: a context is computed afresh in each hook; a hook takes back the address that the other application has only if no unit asks for a network. What the loop over the units returns has a closed form (`Read`: the units up to the first that makes the dictionary complete, each key as the last of them that has it gave it), shown equal to the recursive function in `LoopIsRead` by the least number at which the two would differ; from it follows when a context is complete (`SufficesIs`) and that this lasts |

### Assumptions

An assumption named `...Assumption` in a module says what its constants are, and TLC
evaluates it in the run of the module. Bounds are natural numbers and sets are sets of
what their name says. Those that say more: `WorkloadStatus` needs a required relation
(cinder always has some, `REQUIRED_INTERFACES` in `cinder_utils.py`); `PeerReadiness` a
finite set of units that is not empty; in `HaResources` an address is not the name of an
interface; `CephPools` has at
most ten thousand OSDs, so that the powers of two the source tries, which are unbounded
there, can be taken from a fixed set; `CephBroker` and `DbInit` have a value that is no
request and no unit.

### Only model-checked

- Liveness: `EverySyncIsPickedUp`, `ChangesAreRendered`, `EveryRequestIsServed`,
  `UpgradeGoesThrough`, `IsRegistered`, `StatusRecovers`. They rest on fairness and
  `ENABLED`, which the provers do not handle.

Every safety property of the passing runs is a theorem.

## What the models have shown about the code

What follows holds back some of the properties above, by a premise or by an action that an
instance leaves out. The hazards of `PROJECT.json` have the lines.

Database and upgrade:

- `local_unit() not in init_id` is a substring test. `cinder/1` takes the notification of
  `cinder/10` for its own and neither restarts nor echoes; with such a `Prefix`
  `DeliveredMeansRestarted` is violated.
- `migrate_database` runs on the unit that leads at the moment of its own upgrade. With one
  unit upgraded before it becomes the leader and the other after it has ceased to be,
  nobody migrates: with `MaxTerms = 1`, `UpgradeMigrates` is violated.
- A hook that fails after the sync loses its id. An initialisation is synced again by the
  next hook; an upgrade is not, and the peers do not hear of its sync.
- Once the packages are new `openstack_upgrade_available` answers no. A hook that fails
  after apt is run again without the upgrade: `MigratedBeforeServing` and
  `UpgradeIsWhole` except an upgrade that was cut short (`cut`).
- `Sources`: `cloud:<release>` without a pocket ends in an IndexError in one of the two
  readers; `cloud:<series>-updates/<release>` gives the release "updates"; `<release>/proposed`
  and http sources give none. The lists of apt accumulate: the pocket of before stays in
  place when the option goes back to `distro`.

Unit configuration:

- A hook that fails between writing a file and restarting its services leaves nothing for
  the second attempt to detect. `RunsWhatIsOnDisk` speaks of units that have not failed
  (`Undisturbed`). For the ceph relation the explicit restart in `ceph_changed` repairs it,
  and `CephIsAwaited` holds with failures.
- `ceph_broken` writes all files and restarts nothing; a change of another relation that it
  writes on the way is found unchanged by the hook of that relation. The instance has no
  change of `ceph`.
- With a resume between the two series hooks, `post-series-upgrade` writes files under
  running services, without the decorator. The instance has pauses only.
- `config_changed` skips on a paused unit, with the comment that it is forced on the resume
  (`cinder_hooks.py:204`). The resume action does not call it: `OptionsAreRendered`, stated in
  `UnitConfig`, is violated in three steps.
- `overwrite` is stored before the services are restarted in `config_changed`
  (`cinder_hooks.py:239`), so that a failed hook loses the reason for it.
- `ServiceRoles`: a service that leaves while the unit is paused and returns afterwards
  stays masked; one that joins while it is paused runs; `config-changed` installs no
  packages for a role that is enabled later; `overwrite` restarts cinder-volume even where
  it is not enabled. `_pause_resume_helper` (`cinder_utils.py:1042-1045`) computes the
  services without haproxy under hacluster and then does not use them, although
  `cluster.py:424-426` says why haproxy must be left alone.

Volume group and ceph:

- Devices become physical volumes before the group is created or extended. If the command
  after `pvcreate` fails, a run without overwrite succeeds without the device:
  `NothingStranded`, stated in `LvmStorage`, is violated, and `OverwriteConverges` holds.
- `PoolCoversGroup` speaks of runs without a failed command: `lvextend` that fails after
  `vgextend` is not tried again.
- A logical volume that is unmounted while the hook runs hides its device from the search
  for the group and yet does not protect it: `GroupSurvives` is stated for the devices the
  hook found.
- An option that changes and changes back within one round trip meets an old answer with
  the right id; ceph does not answer again and the volume service is not restarted.
  `EveryRequestIsServed` excludes it by `Stale`.
- `CephPools`: the name of an erasure operation is passed positionally (`ceph.py:1938-1940`);
  a pool whose creation failed half way is only updated later, never completed;
  `_ops_equal` ignores profile and type; replicas are not applied to a pool that exists.
- `RbdStorage`: a service that does not stop goes on writing during the copy
  (`ceph.py:1636`), and a mount that fails does so silently, and after a reboot the device is
  formatted again (the `XXX` of the source); `/mnt` left mounted by a process that died
  makes every later attempt fail at `mkfs`. `MoveKeepsData` excepts both (`mishap`).

Endpoints and clustering:

- `ApacheSSLContext.external_ports` is the constant 8776 (`cinder_contexts.py:130`) while
  the option `api-listening-port` (`config.yaml:159-162`) moves haproxy and the api. With
  https and another port, haproxy sends to that port less ten while the site listens on
  8766. `ChainIsClosed` asks for the chain on the default port, or without https.
- There is no hook for the end of the certificates and ha relations; `Endpoints` marks
  their removal (`deaf`).
- The links for a host are made by `process_certificates` alone, which runs in
  `certs-changed`. When an option or the cluster moves the site to a host whose
  certificate has been delivered before, `configure_https` writes a site for files
  that are not there: `SiteHasCertificate` excepts hosts that are not in `processed`.
- `identity_joined` adds keys and clears none: endpoints of versions that the release no
  longer serves stay registered.
- `Addresses`: with `prefer-ipv6`, `get_relation_ip` does not exclude a vip (`ip.py:634`);
  a private name that does not resolve clears `private-address`.
- `HaResources`: a vip outside the networks of a unit goes to the fallback interface.

Status and policy:

- A series-upgrade hook is in error while a relation is missing, and Juju runs no other hook
  before it succeeds: `StatusRecovers` has it as an escape.
- `assess_status` runs before the callbacks at exit, and shows a status of before what they do.

Library:

- `Contexts`: keystone units of two versions of the api leave the domain of one with the
  credentials of the other; the property asks for one version.
- `HookEnv`: deltas of `HookData` are always "added"; `relations()` is cached for the process.
- `DeferredEvents`: a restart by hand is noticed only by the check of timestamps; four kinds
  of changes leave no event (`missed`): of a hook that fails after it has written, of one
  whose restart failed without a word, of a package between the restart by
  `restart-services` and the clearing of its events (`utils.py:2664-2683`), and one that
  comes while an event from before the last restart is still listed, as both are cleared;
  `is_hook_allowed` overrides the answer it had for a paused unit (`utils.py:1592`).
- `Hardening`: settings are never rendered again once the files exist, in spite of
  `hardening/utils.py:30-32`; the audit of directories with `recursive` never corrects one
  that has no directories, and sets the mode of files; a file put back to its old content
  before a restart leaves the service with what it read; a checksum taken after an edit
  adopts the edit; the template of kernel modules and the search for unknown
  suid files raise TypeErrors where they are reached; the SSH content audits check and do
  not correct.
- `Nrpe`: checks of services no longer enabled stay (`nrpe.py:412-430`); without the server
  nothing is written until a later hook (`nrpe.py:316-322`); a restart that fails is not
  noticed (`nrpe.py:351`).
- `ServiceTable`: releases before liberty have their removals reported though nothing is
  done; `unused` removes every host but the two defaults; a rename reads and writes in two
  steps.
- `Templating`: a hook that upgrades ends with files of the release before
  (`upgrade_configs`); the base name in an older directory is preferred to the path name in a newer
  one; an unknown codename searches all directories.
- `ServiceManager`: a port shared by two services is closed by the one that is not ready; a
  failed hook leaves a port open that is in no file.
- `PeerReadiness`: `all` over no peers is true; the scale is known only with goal-state.

## What is not modelled

`PROJECT.json` gives the reason for each component. In short: installation is commands and
I/O; the contexts of neutron, bonds, SR-IOV and other charms, `neutron.py`, `keystone.py`,
`vaultlocker`, `bcache`, hardware and cli helpers are in the tree and not reached by this
charm; cache tiers, erasure profiles and crush rules are commands that other charms run;
certificate bundles and the CA store are files whose order carries nothing; what
`db_joined`, `amqp_joined` and the like set are single assignments; the security checklist
only reads; no store is opened with `keep_revisions`, so that `unitdata.py` keeps no history. Of
the modelled components the text of files, log and status messages, and the
wording of relation data are left out, because no property tells them apart.

## Plan

What is left, most important first.

1. Refinement: an abstract specification of a service that `CephBroker` implements (a
   request is asked, served, taken into use), beside that of `DbInit`.
2. `UnitConfig` with two units and `ApiFrontend` within hooks: a restart of haproxy on one
   unit between the files of another.
3. `CephBroker`: two ceph relations at a time, and the legacy answers without an id.
4. `LvmStorage`: devices listed twice; more than one foreign pool.
5. The security checklist as a reader of what the other modules write.
