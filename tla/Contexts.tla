------------------------------- MODULE Contexts -------------------------------
(***************************************************************************)
(* What the templates are given of a relation.  A context is computed      *)
(* afresh, in every hook, from what the units of the other application     *)
(* have published until then; the units join, publish and leave one by     *)
(* one.  Each class reads them in its own way: one unit at a time, all     *)
(* merged into one dictionary, or some keys from whoever has them.  A      *)
(* value is named by the unit that published it.                           *)
(***************************************************************************)
EXTENDS Integers, FiniteSets, Functions

CONSTANTS
    MaxUnits,   \* the units of the other application, in the order of Juju
    Interfaces  \* the interfaces that are looked at

\* Of the keys that a class reads those that tell its results apart.
Key == [shared      |-> {"db_host", "password", "access-network"},
        identity    |-> {"service_host", "service_password", "v3", "service_domain"},
        credentials |-> {"service_host", "service_password", "v3", "service_domain"},
        amqp        |-> {"password", "clustered", "ha-vip-only"},
        image       |-> {"glance-api-server"},
        subordinate |-> {"sections", "stateless"},
        cluster     |-> {"private-address", "public-address"}]

ASSUME ContextsAssumption ==
    MaxUnits \in Nat /\ Interfaces \subseteq DOMAIN Key

Units  == 1..MaxUnits
Nobody == 0               \* no value: None or the empty string
App    == MaxUnits + 1    \* the application, where the data bag is its own

VARIABLES
    interface,  \* the interface of the context that is looked at
    related,    \* the relation exists
    joined,     \* the units in it
    published,  \* published[u]: the keys that u has published
    appBag,     \* the keys in the bag of the application (identity only)
    hook,       \* the unit whose hook of shared-db is under way, or Nobody: another
                \* hook or none
    met,        \* the units whose shared-db-relation-joined has ended well
    ourHostname, \* the hostname we give to the database is our address in its
                \* access-network, as the hook sees it
    committed   \* the same as the other application sees it

dbHookVars  == <<hook, met, ourHostname, committed>>
contextVars == <<interface, related, joined, published, appBag, dbHookVars>>

ContextsInit ==
    /\ interface \in Interfaces
    /\ related = FALSE
    /\ joined = {}
    /\ published = [u \in Units |-> {}]
    /\ appBag = {}
    /\ hook = Nobody
    /\ met = {}
    /\ ourHostname = FALSE
    /\ committed = FALSE

-----------------------------------------------------------------------------
(* Dictionaries, and the loop over related_units. *)

Has(u, k)   == k \in published[u]
Value(u, k) == IF Has(u, k) THEN u ELSE Nobody

\* d.update(e)
Updated(d, e) == [k \in DOMAIN d \cup DOMAIN e |->
                     IF k \in DOMAIN e THEN e[k] ELSE d[k]]

\* context_complete: the keys whose value is None or empty.
MissingOf(d) == {k \in DOMAIN d : d[k] = Nobody}

\* The state of a class: the dictionary so far, missing_data, complete, and the
\* unit that was read last.
Nothing == [ctxt |-> <<>>, missing |-> {}, complete |-> FALSE, last |-> Nobody]
Judged(u, d) ==
    [ctxt |-> d, missing |-> MissingOf(d), complete |-> MissingOf(d) = {}, last |-> u]

\* for unit in related_units(rid), until the dictionary is complete: it is updated
\* with what each unit gives, dict[u].
ForUnits(dict) ==
    LET loop[n \in 0..MaxUnits] ==
            IF n = 0 THEN Nothing
            ELSE IF loop[n - 1].complete \/ n \notin joined THEN loop[n - 1]
            ELSE Judged(n, Updated(loop[n - 1].ctxt, dict[n]))
    IN  loop[MaxUnits]

-----------------------------------------------------------------------------
(* The classes. *)

\* "if mysql charm provides a network upon which access to the database should be
\* made, reconfigure relation with the service units local address and defer
\* execution": the network is read of the unit whose hook it is, and of no one in the
\* hooks of other relations.
Deferred ==
    /\ interface = "shared"
    /\ hook # Nobody
    /\ Has(hook, "access-network")
    /\ ~ourHostname

SharedKeys == {"db_host", "password"}

\* SharedDBContext (and, without the network, PostgresqlDBContext): a dictionary for
\* each unit, which replaces the one before as they have the same keys.
SharedDb == IF Deferred THEN Nothing
            ELSE ForUnits([u \in Units |-> [k \in SharedKeys |-> Value(u, k)]])

\* Mutant: what a unit has not published is taken from the units before it.
Resolve_FromOthers(u, k) ==
    LET with == {v \in joined : v <= u /\ Has(v, k)}
    IN  IF k \in appBag THEN App ELSE IF with = {} THEN Nobody
        ELSE CHOOSE v \in with : \A w \in with : w <= v

\* "preferentially get data from the app data bag"
Resolve(u, k) == IF k \in appBag THEN App ELSE Value(u, k)

\* The domain is read for api_version 3 only.
IdentityOf(u) ==
    [k \in {"service_host", "service_password"}
           \cup {x \in {"service_domain"} : Resolve(u, "v3") # Nobody}
        |-> Resolve(u, k)]

\* IdentityServiceContext: one dictionary, that each unit updates.
Identity == ForUnits([u \in Units |-> IdentityOf(u)])

\* The section [keystone_authtoken], which is made anew from each dictionary.
Authtoken(ctxt) ==
    [password |-> ctxt.service_password,
     domain   |-> IF "service_domain" \in DOMAIN ctxt THEN ctxt.service_domain ELSE Nobody]

\* IdentityCredentialsContext: the same from the bags of the units alone.
CredentialsOf(u) ==
    [k \in {"service_host", "service_password"}
           \cup {x \in {"service_domain"} : Has(u, "v3")}
        |-> Value(u, k)]

Credentials == ForUnits([u \in Units |-> CredentialsOf(u)])

\* The host of a clustered unit is its vip, which it sends along.
AmqpOf(u) ==
    Updated([password |-> Value(u, "password"), host |-> u],
            [k \in {"clustered"} \cap published[u] |-> u])

\* Mutant: the loop does not end at the first complete dictionary.
Amqp_NoBreak ==
    LET loop[n \in 0..MaxUnits] ==
            IF n = 0 THEN Nothing ELSE IF n \notin joined THEN loop[n - 1]
            ELSE Judged(n, Updated(loop[n - 1].ctxt, AmqpOf(n)))
    IN  loop[MaxUnits]

Amqp == ForUnits([u \in Units |-> AmqpOf(u)])

\* The hosts of transport_url: all units that have sent a password, or the one
\* that was read last.
TransportHosts ==
    LET last == Amqp.last
    IN  IF last = Nobody THEN {}
        ELSE IF /\ "clustered" \notin DOMAIN Amqp.ctxt \/ Has(last, "ha-vip-only")
                /\ Cardinality(joined) > 1
             THEN {u \in joined : Has(u, "password")}
             ELSE {last}

\* ImageServiceContext: whichever unit has a server first.
Image ==
    LET servers == {u \in joined : Has(u, "glance-api-server")}
    IN  IF servers = {} THEN Nothing
        ELSE Judged(Nobody, [glance_api_servers |->
                                CHOOSE u \in servers : \A v \in servers : u <= v])

\* SubordinateConfigContext: the sections of all the units together.
Sections == {u \in joined : Has(u, "sections")}

\* CinderSubordinateConfigContext: "If all backends are stateless we can allow
\* host setting to be set across hosts/units".
SharesHost == joined # {} /\ \A u \in joined : Has(u, "stateless")

\* It adds the host to sections that the base class may not have returned, a
\* KeyError.
SubordinateRaises == SharesHost /\ Sections = {}

Subordinate == IF Sections = {} THEN Nothing
               ELSE Judged(Nobody, [sections |-> App])

\* HAProxyContext, in singlenode mode: a frontend forwards to the unit itself and
\* to the peers that have published their address for it.
Backends(frontend) == {App} \cup {u \in joined : Has(u, frontend)}

Cluster == Judged(Nobody, [default_backend |-> App])

Context == CASE interface = "shared"      -> SharedDb
             [] interface = "identity"    -> Identity
             [] interface = "credentials" -> Credentials
             [] interface = "amqp"        -> Amqp
             [] interface = "image"       -> Image
             [] interface = "subordinate" -> Subordinate
             [] interface = "cluster"     -> Cluster

\* OSConfigTemplate.context: a context that returns a dictionary is complete.
Complete ==
    /\ Context.complete
    /\ interface = "subordinate" => ~SubordinateRaises

\* get_incomplete_context_data: what the operator is told.
IncompleteData == [related |-> related, missing_data |-> Context.missing]

-----------------------------------------------------------------------------
(* The other application, of which a hook sees what was there when it began. *)

Relate ==
    /\ ~related
    /\ related' = TRUE
    /\ UNCHANGED <<interface, joined, published, appBag, dbHookVars>>

\* Juju publishes the private-address of a unit that joins.
Join(u) ==
    /\ related
    /\ hook = Nobody
    /\ u \notin joined
    /\ joined' = joined \cup {u}
    /\ published' = [published EXCEPT ![u] = Key[interface] \cap {"private-address"}]
    /\ UNCHANGED <<interface, related, appBag, dbHookVars>>

\* The version is told with the first keys.
FirstKeys(bag, K) == "v3" \in K => bag = {}

\* A hook of the unit publishes some keys, which no hook takes back.  Keystone
\* uses the bags of its units or, as keystone-k8s, that of the application.
Publish(u, K) ==
    /\ u \in joined
    /\ hook = Nobody
    /\ appBag = {}
    /\ FirstKeys(published[u], K)
    /\ published' = [published EXCEPT ![u] = @ \cup K]
    /\ UNCHANGED <<interface, related, joined, appBag, dbHookVars>>

PublishForApplication(K) ==
    /\ related
    /\ interface = "identity"
    /\ \A u \in Units : published[u] = {}
    /\ FirstKeys(appBag, K)
    /\ appBag' = appBag \cup K
    /\ UNCHANGED <<interface, related, joined, published, dbHookVars>>

Leave(u) ==
    /\ u \in joined
    /\ hook = Nobody
    /\ joined' = joined \ {u}
    /\ published' = [published EXCEPT ![u] = {}]
    /\ met' = met \ {u}
    /\ UNCHANGED <<interface, related, appBag, hook, ourHostname, committed>>

-----------------------------------------------------------------------------
(* The hooks of shared-db. *)

\* shared-db-relation-joined: db_joined gives the address in the network that some
\* unit has told, or else the one of the binding, which may be the same
\* (prefer-ipv6, with which it gives a list of addresses, is left out).
HookJoined(u) ==
    /\ interface = "shared"
    /\ hook = Nobody
    /\ u \in joined \ met
    /\ hook' = u
    /\ ourHostname' \in IF \E v \in joined : Has(v, "access-network") THEN {TRUE} ELSE BOOLEAN
    /\ UNCHANGED <<interface, related, joined, published, appBag, met, committed>>

\* shared-db-relation-changed
HookChanged(u) ==
    /\ interface = "shared"
    /\ hook = Nobody
    /\ u \in joined \cap met
    /\ hook' = u
    /\ UNCHANGED <<interface, related, joined, published, appBag, met, ourHostname, committed>>

\* The context is computed, and reconfigures the relation if it defers the rest.
Reconfigure ==
    /\ Deferred
    /\ ourHostname' = TRUE
    /\ UNCHANGED <<interface, related, joined, published, appBag, hook, met, committed>>

\* What a hook has set is the other application's when it ends well.
HookEnds ==
    /\ hook # Nobody
    /\ hook' = Nobody
    /\ met' = met \cup {hook}
    /\ committed' = ourHostname
    /\ UNCHANGED <<interface, related, joined, published, appBag, ourHostname>>

DbHookFails ==
    /\ hook # Nobody
    /\ hook' = Nobody
    /\ ourHostname' = committed
    /\ UNCHANGED <<interface, related, joined, published, appBag, met, committed>>

ContextsNext ==
    \/ Relate
    \/ \E u \in Units : Join(u) \/ Leave(u) \/ HookJoined(u) \/ HookChanged(u)
    \/ Reconfigure \/ HookEnds \/ DbHookFails
    \/ \E K \in SUBSET (Key[interface] \ appBag) \ {{}} : PublishForApplication(K)
    \/ \E u \in Units : \E K \in SUBSET (Key[interface] \ published[u]) \ {{}} : Publish(u, K)

ContextsSpec == ContextsInit /\ [][ContextsNext]_contextVars

-----------------------------------------------------------------------------
(* Properties. *)

\* All units of keystone speak the same version.
SameVersion ==
    LET speaking == {u \in joined : published[u] # {}}
    IN  \A u, v \in speaking : Has(u, "v3") = Has(v, "v3")

\* Credentials belong together: the host, the user's password and the domain of
\* a complete context come from one unit (or all from the application), the
\* domain as long as the units speak one version, and [keystone_authtoken] has
\* them all; a message goes to hosts that know the password.  A peer of a frontend
\* is a peer of the default one.
CredentialsBelongTogether ==
    Complete =>
      /\ interface \in {"shared", "identity", "credentials"} =>
            LET ctxt == Context.ctxt
                keys == IF SameVersion THEN DOMAIN ctxt ELSE DOMAIN ctxt \ {"service_domain"}
            IN  \A j, k \in keys : ctxt[j] = ctxt[k]
      /\ interface = "identity" =>
            /\ Authtoken(Context.ctxt).password # Nobody
            /\ SameVersion /\ Resolve(Context.last, "v3") # Nobody
                  => Authtoken(Context.ctxt).domain # Nobody
      /\ interface = "amqp" =>
            /\ TransportHosts # {}
            /\ \A u \in TransportHosts : Has(u, "password")
      /\ interface = "cluster" =>
            Backends("public-address") \subseteq Backends("private-address")

\* A complete context stays complete as long as no unit leaves (and those of
\* keystone speak one version), whatever units join in whatever order with
\* whatever part of their data: a file is not rendered without its section
\* because the other application grows.  If it is incomplete although a unit is
\* there, the operator is told what is missing.  The exception is the database with
\* a network that our address is not in: its context is deferred, and nobody is told,
\* until the hook has set the address, and never while the other application has
\* been given the address, whichever hostname the hooks of new units set.
StaysComplete ==
    /\ (interface' = interface /\ joined \subseteq joined' /\ SameVersion') =>
        /\ Complete => Complete' \/ Deferred'
        /\ (~Complete /\ ~Deferred /\ joined # {}
             /\ interface \in {"shared", "identity", "credentials", "amqp"})
              => IncompleteData.missing_data # {}
    /\ Deferred => ~committed

\* What a context gives is of one source and stays there.  Every state has a step:
\* units can always come or go.
ContextsAreSound == [][CredentialsBelongTogether /\ StaysComplete]_contextVars
=============================================================================
