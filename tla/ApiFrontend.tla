----------------------------- MODULE ApiFrontend -----------------------------
(***************************************************************************)
(* The way of a request through the units of a cluster: the haproxy of any *)
(* unit takes it on the public port and passes it to each unit in turn, on *)
(* which apache ends the https and passes it on to the api.  Which process *)
(* listens on which port follows from an option and from https(), and is   *)
(* in four files, which hooks of each unit render in their own time.       *)
(* Hooks are whole here; UnitConfig has what happens inside them.          *)
(***************************************************************************)
EXTENDS Integers

CONSTANTS
    ApiUnits,    \* the units there may be
    FrontPorts,  \* values of api-listening-port
    MaxMoves     \* bound: changes of options and relations

DefaultPort == 8776

ASSUME ApiFrontendAssumption ==
    /\ ApiUnits # {} /\ MaxMoves \in Nat
    /\ DefaultPort \in FrontPorts /\ FrontPorts \subseteq Nat \ {0}

VARIABLES
    port,        \* api-listening-port
    sslSet,      \* ssl_cert and ssl_key are set
    delivered,   \* the units that have certificates by their relation
    members,     \* the units in the peer relation
    apiInApache, \* the api is a site of apache: ocata and later
    confFile,    \* confFile[u]: the port of the api in cinder.conf
    wsgiFile,    \* wsgiFile[u]: the one in the site of the api
    siteFile,    \* siteFile[u]: openstack_https_frontend
    front,       \* front[u]: haproxy.cfg
    owedHooks,   \* owedHooks[u]: what Juju owes to u
    frontPaused, \* the units that are paused
    lagging,     \* the units on which something changed without a hook that writes
    moves

frontVars == <<port, sslSet, delivered, members, apiInApache, confFile, wsgiFile,
               siteFile, front, owedHooks, frontPaused, lagging, moves>>
frontFiles == <<confFile, wsgiFile, siteFile, front>>
choices    == <<port, sslSet, delivered, members, apiInApache>>

NoPort  == 0
NoSite  == [listen |-> NoPort, to |-> NoPort]
NoFront == [bind |-> NoPort, to |-> NoPort, backends |-> {}, tls |-> FALSE]

-----------------------------------------------------------------------------
(* The functions of the environment. *)

\* https(), as far as this charm gets in it
FrontHttps(u) == sslSet \/ u \in delivered

\* singlenode_mode counts haproxy in, with peers or without.
ApachePort(public) == public - 10
ApiPort(u, public) == ApachePort(public) - (IF FrontHttps(u) THEN 10 ELSE 0)

\* The context of the site has a port of its own, whatever the option says.
ExternalPort == 8776
SiteContext(u) == IF FrontHttps(u)
                  THEN [listen |-> ApachePort(ExternalPort), to |-> ApiPort(u, ExternalPort)]
                  ELSE NoSite

\* Every unit of the peer relation is a backend, and the unit itself.
FrontBackends(u) == members \cup {u}
FrontContext(u) == [bind |-> port, to |-> ApachePort(port),
                    backends |-> FrontBackends(u), tls |-> FrontHttps(u)]

\* Mutant: configure_https renders what has to do with https only.
WritesAll_Site(u) ==
    /\ confFile' = [confFile EXCEPT ![u] = ApiPort(u, port)]
    /\ siteFile' = [siteFile EXCEPT ![u] = SiteContext(u)]
    /\ IF front[u] = NoFront
       THEN /\ front' = [front EXCEPT ![u] = FrontContext(u)]
            /\ wsgiFile' = [wsgiFile EXCEPT ![u] = IF apiInApache THEN ApiPort(u, port) ELSE NoPort]
       ELSE UNCHANGED <<front, wsgiFile>>

\* CONFIGS.write_all
WritesAll(u) ==
    /\ confFile' = [confFile EXCEPT ![u] = ApiPort(u, port)]
    /\ front' = [front EXCEPT ![u] = FrontContext(u)]
    /\ siteFile' = [siteFile EXCEPT ![u] = SiteContext(u)]
    /\ wsgiFile' = [wsgiFile EXCEPT ![u] = IF apiInApache THEN ApiPort(u, port) ELSE NoPort]

-----------------------------------------------------------------------------
(* Options and relations. *)

FrontInit ==
    /\ port \in FrontPorts /\ sslSet = FALSE /\ delivered = {}
    /\ members = {CHOOSE u \in ApiUnits : TRUE}
    /\ apiInApache \in BOOLEAN
    /\ confFile = [u \in ApiUnits |-> NoPort] /\ wsgiFile = confFile
    /\ siteFile = [u \in ApiUnits |-> NoSite] /\ front = [u \in ApiUnits |-> NoFront]
    /\ owedHooks = [u \in ApiUnits |-> IF u \in members THEN {"config-changed"} ELSE {}]
    /\ frontPaused = {} /\ lagging = {} /\ moves = MaxMoves

Moves == moves > 0 /\ moves' = moves - 1
Owes(U, h) == owedHooks' = [u \in ApiUnits |-> IF u \in U THEN owedHooks[u] \cup {h}
                                                          ELSE owedHooks[u]]

SetFront(p, s) ==
    /\ Moves /\ <<p, s>> # <<port, sslSet>>
    /\ port' = p /\ sslSet' = s
    /\ Owes(members, "config-changed")
    /\ UNCHANGED <<delivered, members, apiInApache, frontFiles, frontPaused, lagging>>

\* vault answers one unit after the other.
Deliver(u) ==
    /\ Moves /\ u \in members \ delivered
    /\ delivered' = delivered \cup {u}
    /\ Owes({u}, "certificates-changed")
    /\ UNCHANGED <<port, sslSet, members, apiInApache, frontFiles, frontPaused, lagging>>

\* The charm has no hook for the end of the certificates relation.
BreakCertificates ==
    /\ Moves /\ delivered # {}
    /\ delivered' = {} /\ lagging' = lagging \cup delivered
    /\ UNCHANGED <<port, sslSet, members, apiInApache, frontFiles, owedHooks, frontPaused>>

PeerComes(u) ==
    /\ Moves /\ u \notin members /\ front[u] = NoFront
    /\ members' = members \cup {u}
    /\ owedHooks' = [w \in ApiUnits |->
                        IF w = u THEN {"config-changed", "cluster-changed"}
                        ELSE IF w \in members THEN owedHooks[w] \cup {"cluster-changed"} ELSE {}]
    /\ UNCHANGED <<port, sslSet, delivered, apiInApache, frontFiles, frontPaused, lagging>>

PeerGoes(u) ==
    /\ Moves /\ u \in members /\ members # {u}
    /\ members' = members \ {u}
    /\ owedHooks' = [w \in ApiUnits |->
                        IF w \in members \ {u} THEN owedHooks[w] \cup {"cluster-changed"} ELSE {}]
    /\ UNCHANGED <<port, sslSet, delivered, apiInApache, frontFiles, frontPaused, lagging>>

-----------------------------------------------------------------------------
(* Hooks. *)

\* Relations come after the first config-changed, which a paused unit skips.
WritingHook(u, h) ==
    /\ h \in owedHooks[u] /\ (h = "config-changed" \/ front[u] # NoFront)
    /\ owedHooks' = [owedHooks EXCEPT ![u] = @ \ {h}]
    /\ IF h = "config-changed" /\ u \in frontPaused
       THEN lagging' = lagging \cup {u} /\ UNCHANGED frontFiles
       ELSE lagging' = lagging \ {u} /\ WritesAll(u)
    /\ UNCHANGED <<choices, frontPaused, moves>>

\* The hooks of the database, the queue, the images and the backends write
\* cinder.conf, with the port of the api of that moment.
WritesConf(u) ==
    /\ u \in members /\ front[u] # NoFront
    /\ confFile' = [confFile EXCEPT ![u] = ApiPort(u, port)]
    /\ UNCHANGED <<choices, wsgiFile, siteFile, front, owedHooks, frontPaused, lagging, moves>>

FrontPause(u) ==
    /\ Moves /\ u \in members /\ front[u] # NoFront
    /\ frontPaused' = (frontPaused \ {u}) \cup ({u} \ frontPaused)
    /\ UNCHANGED <<choices, frontFiles, owedHooks, lagging>>

FrontHooks == {"config-changed", "cluster-changed", "certificates-changed"}

FrontNext ==
    \/ BreakCertificates
    \/ \E p \in FrontPorts, s \in BOOLEAN : SetFront(p, s)
    \/ \E u \in ApiUnits :
          \/ Deliver(u) \/ PeerComes(u) \/ PeerGoes(u)
          \/ WritesConf(u) \/ FrontPause(u)
          \/ \E h \in FrontHooks : WritingHook(u, h)

FrontSpec == FrontInit /\ [][FrontNext]_frontVars

-----------------------------------------------------------------------------
(* Properties. *)

ApiListens(u) == IF apiInApache THEN wsgiFile[u] ELSE confFile[u]

\* What a request of u for w meets: the public port, the way to w, and there the
\* api, behind the site if there is one.  No two of the processes ask for one port.
WayOpen(u, w) ==
    /\ front[u].bind = port /\ w \in front[u].backends
    /\ front[u].to = IF siteFile[w] = NoSite THEN ApiListens(w) ELSE siteFile[w].listen
    /\ siteFile[w] # NoSite => /\ siteFile[w].to = ApiListens(w)
                               /\ siteFile[w].listen # ApiListens(w)
    /\ FrontHttps(u) = FrontHttps(w) => front[u].tls = (siteFile[w] # NoSite)
    /\ front[w].bind \notin {ApiListens(w), siteFile[w].listen}

\* Of any two units that have run their hooks the one reaches the api of the
\* other, while the rest of the cluster still follows: certificates come to one
\* unit after the other, peers come and go, hooks of other relations write one of
\* the files.  With https the public port has to be that of the site, 8776.
ChainIsClosed ==
    LET done == {u \in members \ (frontPaused \cup lagging) :
                    /\ owedHooks[u] = {}
                    /\ port = ExternalPort \/ ~FrontHttps(u)}
    IN  \A u, w \in done : WayOpen(u, w) /\ front[u].backends \subseteq members
=============================================================================
