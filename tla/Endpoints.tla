------------------------------- MODULE Endpoints -------------------------------
(***************************************************************************)
(* The endpoints that one unit registers in keystone, the https site of    *)
(* its apache, and the certificates that the site needs.                   *)
(*                                                                         *)
(* identity_joined sets the urls of each version of the api; config-       *)
(* changed, identity-changed, ha-changed and certificates-changed call it  *)
(* again.  The host of a url is an option, the virtual address once the    *)
(* cluster is formed, or the address of the unit; the scheme depends on    *)
(* what the certificates relation has delivered.  A hook is one step: Juju shows it *)
(* the settings of its start and publishes what it set if it succeeds.     *)
(***************************************************************************)
EXTENDS Integers, FiniteSets

CONSTANTS
    Vips,        \* the values of option vip: subset of {"none", "vip", "foreign"}
    HostNames,   \* the values of os-public-hostname: of {"none", "name"}
    SslOptions,  \* whether ssl_cert and ssl_key are set
    Releases,    \* the releases to start from: of 1..3
    MaxSets,     \* bound: changes of the options
    MaxRelation, \* bound: relations added or removed and answers given
    MaxEvents    \* bound: upgrades, failed hooks, pause and resume actions

ASSUME EndpointsAssumption ==
    /\ "none" \in Vips /\ Vips \subseteq {"none", "vip", "foreign"}
    /\ "none" \in HostNames /\ HostNames \subseteq {"none", "name"}
    /\ FALSE \in SslOptions /\ SslOptions \subseteq BOOLEAN
    /\ Releases \subseteq 1..3
    /\ MaxSets \in Nat /\ MaxRelation \in Nat /\ MaxEvents \in Nat

Host    == {"unit", "vip", "name"}
Type    == {"public", "internal"}  \* of endpoints: admin is as internal
Urls    == [scheme : {"http", "https"}, host : [Type -> Host]]
NoUrls  == [scheme |-> "none", host |-> [t \in Type |-> "none"]]
Version == {"v1", "v2", "v3"}
Hook    == {"config", "identity-joined", "identity-changed", "ha-joined",
            "ha-changed", "certs-joined", "certs-changed"}

VARIABLES
    options,     \* vip, name, ssl: the options
    release,     \* 1: before pike, 2: pike to wallaby, 3: xena and later
    relation,    \* identity, ha, certs: the state of the relations
    owed,        \* the hooks that Juju owes to the unit
    registered,  \* registered[v]: what the unit has set for version v
    asked,       \* the hosts that the certificate request covers
    issued,      \* the hosts that the certificates delivered cover
    processed,   \* the hosts of the request when certs-changed ran last
    disk,        \* the hosts with a certificate file or link on disk
    site,        \* the hosts of the https site of apache; {}: disabled
    paused,      \* the unit-paused flag
    deaf,        \* what has changed since without a hook that deals with it
    budget

vars == <<options, release, relation, owed, registered, asked, issued,
          processed, disk, site, paused, deaf, budget>>

-----------------------------------------------------------------------------
(* The functions of the environment. *)

\* is_clustered: a unit of the ha relation says so.
IsClustered == relation.ha = "clustered"

\* get_hacluster_config raises if there is nothing to cluster.
HaRaises == relation.ha # "none" /\ options.vip = "none"

\* resolve_address raises if no vip lies in the network of the endpoint.  Whoever
\* asks for addresses asks for those of all types, and os-public-hostname spares
\* the public one alone.
AddressRaises == IsClustered /\ options.vip = "foreign"

\* resolve_address: the hostname, the vip of a cluster, the unit's own address.
ResolveAddress(t) ==
    CASE t = "public" /\ options.name # "none" -> "name"
      [] options.vip # "none" /\ IsClustered -> "vip"
      [] OTHER -> "unit"

\* get_network_addresses: the site has a host for each type of endpoint.
SiteHosts == {ResolveAddress(t) : t \in Type}

\* https(): the options, or certificates for this unit.  As there always is a
\* request, what keystone has to offer is not looked at.
Https == options.ssl \/ (relation.certs # "none" /\ issued # {})

CanonicalUrls == [scheme |-> IF Https THEN "https" ELSE "http",
                 host |-> [t \in Type |-> ResolveAddress(t)]]

\* CompareOpenStackReleases in identity_joined.
Versions(r) == CASE r = 1 -> {"v1", "v2"}
                 [] r = 2 -> {"v2", "v3"}
                 [] OTHER -> {"v3"}

\* get_certificate_request: the address of the unit and the vip go into the
\* certificate of the machine, a hostname gets its own.
RequestedHosts == {"unit"} \cup {h \in {"vip"} : options.vip = "vip"}
                           \cup {h \in {"name"} : options.name = "name"}

\* "Deferring registration until clustered".
Defers == options.vip # "none" /\ ~IsClustered

\* assess_status ends every hook: it evaluates all contexts, and with them the
\* addresses, unless the unit is paused.
Assesses == paused \/ ~AddressRaises

-----------------------------------------------------------------------------
(* The parts that hooks are made of. *)

\* identity_joined: what is set is never unset.
Registers(r) ==
    registered' = IF relation.identity = "none" \/ Defers THEN registered
                  ELSE [v \in Version |-> IF v \in Versions(r) THEN CanonicalUrls
                                                       ELSE registered[v]]

\* write_all and a2ensite or a2dissite: the context of the site names the hosts
\* and installs the certificate of the options, unless there is a relation.
WritesSite ==
    /\ site' = IF Https THEN SiteHosts ELSE {}
    /\ disk' = IF options.ssl /\ relation.certs = "none"
               THEN disk \cup SiteHosts ELSE disk

\* install_certs: a file for each certificate; that of the machine has the name
\* of no endpoint.
Certificates == issued \cap {"name"}

\* Mutant: links to the certificate are not made.
Installs_NoLinks == disk' = disk \cup Certificates

\* process_certificates: the files, and links for the addresses of the request of
\* now.
Installs ==
    disk' = disk \cup Certificates
                 \cup IF issued # {} THEN RequestedHosts \ {"name"} ELSE {}

Init ==
    /\ options \in [vip : Vips, name : HostNames, ssl : SslOptions]
    /\ release \in Releases
    /\ relation = [identity |-> "none", ha |-> "none", certs |-> "none"]
    /\ owed = {"config"}
    /\ registered = [v \in Version |-> NoUrls]
    /\ asked = {} /\ issued = {} /\ processed = {}
    /\ disk = {} /\ site = {}
    /\ paused = FALSE /\ deaf = {}
    /\ budget = [sets |-> MaxSets, relation |-> MaxRelation,
                 events |-> MaxEvents]

Spend(b) == budget[b] > 0 /\ budget' = [budget EXCEPT ![b] = @ - 1]
Owe(h) == owed' = owed \cup {h}

\* A hook runs, and what it does not do it leaves.
Runs(h)     == h \in owed /\ owed' = owed \ {h}
RelationsKept == UNCHANGED <<options, relation, issued, paused>>

\* configure_https: write_all, the site, and the endpoints.
ConfiguresHttps(r) == /\ ~AddressRaises
                      /\ WritesSite
                      /\ Registers(r)
                      /\ deaf' = {}

-----------------------------------------------------------------------------
(* Hooks. *)

\* config_changed, or the openstack-upgrade action that ends with it: the
\* endpoints are those of the release after the upgrade.
ConfigChanged ==
    /\ Runs("config")
    /\ ~paused /\ ~HaRaises
    /\ \/ UNCHANGED <<release, budget>>
       \/ release < 3 /\ Spend("events") /\ release' = release + 1
    /\ ConfiguresHttps(release')
    /\ UNCHANGED <<asked, processed>> /\ RelationsKept

\* "Unit is pause or upgrading. Skipping config_changed".
ConfigSkipped ==
    /\ Runs("config")
    /\ paused
    /\ deaf' = {"urls", "site"}
    /\ UNCHANGED <<release, registered, asked, processed, disk, site, budget>>
    /\ RelationsKept

IdentityJoined ==
    /\ Runs("identity-joined")
    /\ ~AddressRaises
    /\ Registers(release)
    /\ deaf' = deaf \ {"urls"}
    /\ UNCHANGED <<release, asked, processed, disk, site, budget>>
    /\ RelationsKept

\* Keystone has answered, so that the context identity-service is complete.
IdentityChanged ==
    /\ Runs("identity-changed")
    /\ ConfiguresHttps(release)
    /\ UNCHANGED <<release, asked, processed, budget>> /\ RelationsKept

\* ha_joined sends hacluster what to cluster.
HaJoined ==
    /\ Runs("ha-joined")
    /\ ~HaRaises /\ Assesses
    /\ UNCHANGED <<release, registered, asked, processed, disk, site, deaf,
                   budget>>
    /\ RelationsKept

\* Mutant: the endpoints are left to keystone's next answer.
HaChanged_NoNotice ==
    /\ Runs("ha-changed")
    /\ Assesses
    /\ UNCHANGED <<release, registered, asked, processed, disk, site, deaf,
                   budget>>
    /\ RelationsKept

\* ha_changed: "notifying other services and updating keystone endpoint
\* configuration".  It writes no file.
HaChanged ==
    /\ Runs("ha-changed")
    /\ Assesses
    /\ relation.identity # "none" => ~AddressRaises
    /\ IF IsClustered
       THEN /\ Registers(release)
            /\ deaf' = (deaf \ {"urls"}) \cup {"site"}
       ELSE UNCHANGED <<registered, deaf>>
    /\ UNCHANGED <<release, asked, processed, disk, site, budget>>
    /\ RelationsKept

\* certs_joined: the one time that certificates are asked for, for all addresses.
CertsJoined ==
    /\ Runs("certs-joined")
    /\ ~AddressRaises
    /\ asked' = RequestedHosts
    /\ UNCHANGED <<release, registered, processed, disk, site, deaf, budget>>
    /\ RelationsKept

\* certs_changed: process_certificates and configure_https.
CertsChanged ==
    /\ Runs("certs-changed")
    /\ ~AddressRaises
    /\ Installs
    /\ processed' = RequestedHosts
    /\ site' = IF Https THEN SiteHosts ELSE {}
    /\ Registers(release)
    /\ deaf' = {}
    /\ UNCHANGED <<release, asked, budget>> /\ RelationsKept

\* A hook fails after it has written: what it set is dropped, the files stay.
\* certs-changed has the certificates on disk before it looks for the addresses.
HookFails(h) ==
    /\ h \in owed
    /\ \/ Spend("events")
       \/ h = "certs-changed" /\ AddressRaises /\ UNCHANGED budget
    /\ \/ h = "config" /\ ~paused /\ ~AddressRaises /\ WritesSite
       \/ h = "certs-changed" /\ ~AddressRaises /\ Installs /\ UNCHANGED site
       \/ h = "certs-changed" /\ disk' = disk \cup Certificates /\ UNCHANGED site
    /\ UNCHANGED <<release, owed, registered, asked, processed, deaf>>
    /\ RelationsKept

Hooks == \/ ConfigChanged \/ ConfigSkipped \/ IdentityJoined \/ IdentityChanged
         \/ HaJoined \/ HaChanged \/ CertsJoined \/ CertsChanged

-----------------------------------------------------------------------------
(* The operator, and the charms on the other side of the relations. *)

UnitKept == UNCHANGED <<release, registered, asked, processed, disk, site>>

SetOption ==
    /\ Spend("sets")
    /\ \E v \in Vips, n \in HostNames, s \in SslOptions :
           options' = [vip |-> v, name |-> n, ssl |-> s]
    /\ options' # options
    /\ Owe("config")
    /\ UNCHANGED <<relation, issued, paused, deaf>> /\ UnitKept

PauseOrResume ==
    /\ Spend("events")
    /\ paused' = ~paused
    /\ UNCHANGED <<options, relation, owed, issued, deaf>> /\ UnitKept

RelateTo(r) ==
    /\ relation[r] = "none"
    /\ Spend("relation")
    /\ relation' = [relation EXCEPT ![r] = "joined"]
    /\ Owe(CASE r = "identity" -> "identity-joined"
             [] r = "ha" -> "ha-joined" [] OTHER -> "certs-joined")
    /\ UNCHANGED <<options, issued, paused, deaf>> /\ UnitKept

\* Keystone answers the first registration; hacluster forms the cluster.
KeystoneAnswers ==
    /\ relation.identity = "joined"
    /\ registered # [v \in Version |-> NoUrls]
    /\ relation' = [relation EXCEPT !.identity = "answered"]
    /\ Owe("identity-changed")
    /\ UNCHANGED <<options, issued, paused, deaf, budget>> /\ UnitKept

ClusterForms ==
    /\ relation.ha = "joined"
    /\ "ha-joined" \notin owed
    /\ relation' = [relation EXCEPT !.ha = "clustered"]
    /\ Owe("ha-changed")
    /\ UNCHANGED <<options, issued, paused, deaf, budget>> /\ UnitKept

\* The certificate authority answers the request.
CertificatesIssued ==
    /\ relation.certs = "joined"
    /\ asked # {} /\ "certs-joined" \notin owed
    /\ issued # asked
    /\ issued' = asked
    /\ Owe("certs-changed")
    /\ UNCHANGED <<options, relation, paused, deaf, budget>> /\ UnitKept

\* The ha or the certificates relation is removed: the charm has a hook for
\* neither.
RelationRemoved(r) ==
    /\ relation[r] # "none"
    /\ Spend("relation")
    /\ relation' = [relation EXCEPT ![r] = "none"]
    /\ owed' = owed \ (IF r = "ha" THEN {"ha-joined", "ha-changed"}
                                   ELSE {"certs-joined", "certs-changed"})
    /\ issued' = IF r = "certs" THEN {} ELSE issued
    /\ processed' = IF r = "certs" THEN {} ELSE processed
    /\ deaf' = {"urls", "site"}
    /\ UNCHANGED <<options, release, registered, asked, disk, site, paused>>

Answers == KeystoneAnswers \/ ClusterForms \/ CertificatesIssued

Next == \/ Hooks \/ Answers \/ SetOption \/ PauseOrResume
        \/ \E h \in Hook : HookFails(h)
        \/ \E r \in {"identity", "ha", "certs"} : RelateTo(r)
        \/ \E r \in {"ha", "certs"} : RelationRemoved(r)

Spec == Init /\ [][Next]_vars

\* Juju dispatches the hooks that it owes, and the other charms answer.
Fairness == /\ WF_vars(ConfigChanged) /\ WF_vars(ConfigSkipped)
            /\ WF_vars(IdentityJoined) /\ WF_vars(IdentityChanged)
            /\ WF_vars(HaJoined) /\ WF_vars(HaChanged)
            /\ WF_vars(CertsJoined) /\ WF_vars(CertsChanged)
            /\ WF_vars(Answers)

FairSpec == Spec /\ Fairness

-----------------------------------------------------------------------------
(* Properties. *)

TypeOK ==
    /\ options \in [vip : Vips, name : HostNames, ssl : SslOptions]
    /\ release \in 1..3
    /\ relation \in [identity : {"none", "joined", "answered"},
                     ha : {"none", "joined", "clustered"},
                     certs : {"none", "joined"}]
    /\ owed \subseteq Hook
    /\ registered \in [Version -> Urls \cup {NoUrls}]
    /\ asked \subseteq Host /\ issued \subseteq Host /\ processed \subseteq Host
    /\ disk \subseteq Host /\ site \subseteq Host
    /\ paused \in BOOLEAN
    /\ deaf \subseteq {"urls", "site"}
    /\ budget \in [sets : Nat, relation : Nat, events : Nat]

\* Whatever the order of options, cluster, certificates, keystone and upgrade:
\* once the hooks have run, keystone has the present urls of every version that
\* the release serves.  What changes without a hook is left out.
EndpointsAreCurrent ==
    /\ owed = {} /\ "urls" \notin deaf
    /\ relation.identity # "none" /\ ~Defers
    => \A v \in Versions(release) : registered[v] = CanonicalUrls

\* An https url is registered only with the site to serve it: when the hooks
\* have run, apache serves the hosts that keystone has.
SiteServesEndpoints ==
    /\ owed = {} /\ deaf = {}
    /\ relation.identity # "none" /\ ~Defers
    => \A v \in Versions(release) :
           \A t \in Type :
               registered[v].scheme = "https" <=> registered[v].host[t] \in site

\* When the hooks have run, the site has the certificate that it names: that of
\* the options, or with a certificates relation the one that was delivered.  Two
\* things may leave it without: the request is sent once and may not cover the
\* site of today, and only certs-changed makes links, for the addresses of its day.
SiteHasCertificate ==
    /\ owed = {} /\ deaf = {}
    => \A h \in site :
           \/ h \in disk
           \/ relation.certs # "none" /\ (h \notin issued \/ h \notin processed)

\* The url, the site and the certificate go together, whatever relation or
\* option came last.
SiteIsServed == SiteServesEndpoints /\ SiteHasCertificate

\* With a vip the registration waits for the cluster; it comes then, unless the
\* hook reports what the options lack or the unit is paused: a hook that is
\* skipped is not made up for when the unit is resumed.
IsRegistered ==
    relation.identity # "none"
        ~> \/ \A v \in Versions(release) : registered[v] # NoUrls
           \/ Defers \/ HaRaises \/ AddressRaises
           \/ paused \/ "urls" \in deaf
=============================================================================
