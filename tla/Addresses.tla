------------------------------ MODULE Addresses ------------------------------
(***************************************************************************)
(* The addresses that a unit tells its peers.  cluster_joined, which       *)
(* config-changed runs too, picks for each network of the endpoints and    *)
(* for the cluster itself one of the addresses that the unit has at that   *)
(* moment.  Among those may be a vip, which the cluster moves from unit to *)
(* unit without a hook.                                                    *)
(***************************************************************************)
EXTENDS Integers, Sequences, SequencesExt

CONSTANT Addressed    \* the units

VARIABLES
    adminNetwork, \* os-admin-network: a list of networks, <<>> if it is not set
    preferIpv6,   \* prefer-ipv6
    networkGet,   \* what network-get can do: "bound", "unbound", "missing"
    privateIs,    \* how Juju names the private address: "address", "host", "unknown"
    attached,     \* attached[u]: the networks that u has an interface in
    holder,       \* holder[n]: the unit that holds the vip of network n, or none
    advertised,    \* advertised[u]: admin-address and private-address on the peer relation
    unseen        \* the units that have not run the hook since something changed

addressVars == <<adminNetwork, preferIpv6, networkGet, privateIs, attached, holder, advertised, unseen>>
juju        == <<networkGet, privateIs>>

Networks == {"n1", "n2"}     \* every unit is in n1, with its private address
NoAddress == <<>>            \* None

Own(u, n)  == <<u, n>>
Vip(n)     == <<"vip", n>>
Ipv6(u, k) == <<u, "v6", k>>

\* The addresses in a network, the unit's own before the vip, which is added later;
\* netifaces lists n1 before n2.
On(u, n) == IF n \notin attached[u] THEN <<>>
            ELSE IF holder[n] = u THEN <<Own(u, n), Vip(n)>> ELSE <<Own(u, n)>>

\* The interface in n1 has a link-local address, one that is temporary and one that
\* is neither; ip prints them in this order.
On6(u) == <<Ipv6(u, "temporary"), Ipv6(u, "stable"), Ipv6(u, "link")>>

NothingPublished == [admin |-> NoAddress, private |-> NoAddress]

AddressesInit ==
    /\ adminNetwork = <<>> /\ preferIpv6 = FALSE
    /\ networkGet \in {"bound", "unbound", "missing"}
    /\ privateIs \in {"address", "host", "unknown"}
    /\ attached \in [Addressed -> {{"n1"}, {"n1", "n2"}}]
    /\ holder = [n \in Networks |-> "nobody"]
    /\ advertised = [u \in Addressed |-> NothingPublished]
    /\ unseen = Addressed

-----------------------------------------------------------------------------
(* charmhelpers.contrib.network.ip *)

\* Mutant: any address of the network, say the last.
InNetwork_Last(u, n) == IF On(u, n) = <<>> THEN NoAddress ELSE Last(On(u, n))

InNetwork(u, n) == IF On(u, n) = <<>> THEN NoAddress ELSE Head(On(u, n))

\* get_address_in_network: of the first network in the list that has one
GetAddressInNetwork(u, networks, fallback) ==
    LET found == {i \in DOMAIN networks : InNetwork(u, networks[i]) # NoAddress}
    IN  IF found = {} THEN fallback ELSE InNetwork(u, networks[Min(found)])

\* get_iface_from_addr, by sniff_iface: raises for what is not an address here.
Sniffs == privateIs = "address"

\* get_ipv6_addr(dynamic_only=False): the first of what it returns
GetIpv6Addr(u) ==
    On6(u)[Min({i \in DOMAIN On6(u) : On6(u)[i][3] \notin {"link", "temporary"}})]

\* get_host_ip of the private address: it may be a name that nobody resolves.
GetHostIp(u) == IF privateIs = "unknown" THEN NoAddress ELSE Own(u, "n1")

\* get_relation_ip for a binding, which is in network n if bindings are known;
\* network-get gives what Juju knows of the machine and never a vip.
InterfaceAddress(u, n) ==
    IF networkGet = "bound" /\ n \in attached[u] THEN Own(u, n) ELSE GetHostIp(u)

GetRelationIp(u, n, networks) ==
    IF preferIpv6 THEN GetIpv6Addr(u)
    ELSE IF networks = <<>> THEN InterfaceAddress(u, n)
    ELSE GetAddressInNetwork(u, networks, InterfaceAddress(u, n))

-----------------------------------------------------------------------------
(* Hooks. *)

\* An address that is None is not set; relation-set leaves what was there.
Told(address, before) == IF address = NoAddress THEN before ELSE address

\* cluster_joined; the private address is set as it comes, and None clears it.
ClusterJoinedAddresses(u) ==
    /\ u \in unseen
    /\ preferIpv6 => Sniffs
    /\ advertised' = [advertised EXCEPT ![u] =
          [admin   |-> Told(GetRelationIp(u, "n2", adminNetwork), @.admin),
           private |-> GetRelationIp(u, "n1", <<>>)]]
    /\ unseen' = unseen \ {u}
    /\ UNCHANGED <<adminNetwork, preferIpv6, juju, attached, holder>>

\* The cluster moves a vip to a unit that has the network, or drops it.
VipMoves(n, u) ==
    /\ u \in {"nobody"} \cup {w \in Addressed : n \in attached[w]}
    /\ holder' = [holder EXCEPT ![n] = u]
    /\ UNCHANGED <<adminNetwork, preferIpv6, juju, attached, advertised, unseen>>

\* An interface goes, with its addresses, or comes back; the next hook of
\* the unit finds it.
InterfaceChanges(u) ==
    /\ attached' = [attached EXCEPT ![u] = IF "n2" \in @ THEN {"n1"} ELSE {"n1", "n2"}]
    /\ holder' = [n \in Networks |-> IF holder[n] = u /\ n \notin attached'[u] THEN "nobody" ELSE holder[n]]
    /\ unseen' = unseen \cup {u}
    /\ UNCHANGED <<adminNetwork, preferIpv6, juju, advertised>>

ChangeNetworkOptions(networks, v6) ==
    /\ <<networks, v6>> # <<adminNetwork, preferIpv6>>
    /\ adminNetwork' = networks /\ preferIpv6' = v6
    /\ unseen' = Addressed
    /\ UNCHANGED <<juju, attached, holder, advertised>>

AddressesNext ==
    \/ \E u \in Addressed : ClusterJoinedAddresses(u) \/ InterfaceChanges(u)
    \/ \E n \in Networks, u \in Addressed \cup {"nobody"} : VipMoves(n, u)
    \/ \E networks \in {<<>>, <<"n1">>, <<"n2">>, <<"n2", "n1">>}, v6 \in BOOLEAN :
          ChangeNetworkOptions(networks, v6)

AddressesSpec == AddressesInit /\ [][AddressesNext]_addressVars

-----------------------------------------------------------------------------
(* Properties. *)

\* What a unit tells is its own: never a vip, whichever it held when the hook ran,
\* nor a temporary address, and so never what another unit tells.  A unit that has
\* run the hook tells an address of the first network that the option lists and
\* that it is in.
AddressesAreOwn ==
    \A u \in Addressed :
        /\ \A a \in {advertised[u].admin, advertised[u].private} \ {NoAddress} :
              a[1] = u /\ Last(a) # "temporary"
        /\ (u \notin unseen /\ ~preferIpv6) =>
              \A i \in DOMAIN adminNetwork :
                  (adminNetwork[i] \in attached[u] /\ \A j \in 1..(i - 1) : adminNetwork[j] \notin attached[u])
                      => advertised[u].admin = Own(u, adminNetwork[i])
=============================================================================
