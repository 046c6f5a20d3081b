----------------------------- MODULE HaResources -----------------------------
(***************************************************************************)
(* What each unit asks of the cluster.  ha_joined turns the options vip,   *)
(* dns-ha and os-*-hostname into resources, their parameters, a group of   *)
(* them and a list of old resources to delete, and sets them on the ha     *)
(* relation, where keys that it does not set stay.  config-changed runs it *)
(* on each unit in its own time; the units have their own interfaces.      *)
(***************************************************************************)
EXTENDS Integers, FiniteSets, Sequences, SequencesExt

CONSTANTS
    HaUnits,    \* the units
    VipAddresses, \* the addresses that may be given as vip
    Wirings      \* how the units may be wired, see wiring

\* Interfaces, as get_iface_for_address finds one for a vip or does not.
Interface == {"eth0", "eth1", "none"}
VipIface  == "eth0"    \* the option vip_iface has a default
Hosts     == {"admin", "int"}

ASSUME HaAssumption ==
    /\ Wirings \subseteq [HaUnits -> [VipAddresses -> Interface]]
    /\ VipAddresses \cap Interface = {}   \* an address is no name of an interface

VARIABLES
    vips,       \* vip: the list
    dnsHa,      \* dns-ha
    hostNames,  \* the os-*-hostname that are set
    wiring,     \* wiring[u][v]: the interface of u in the network of v
    asked,      \* asked[u]: the settings of u on the ha relation
    behind      \* the units that have not run config-changed yet

haVars == <<vips, dnsHa, hostNames, wiring, asked, behind>>

NoSettings == [resources |-> {}, params |-> {}, group |-> {}, delete |-> {}]

HaInit ==
    /\ vips = <<>> /\ dnsHa = FALSE /\ hostNames = {}
    /\ wiring \in Wirings
    /\ asked = [u \in HaUnits |-> NoSettings]
    /\ behind = HaUnits

-----------------------------------------------------------------------------
(* generate_ha_relation_data *)

Haproxy == <<"haproxy">>

\* valid_hacluster_config, which is asked for vips only
HaConfigIsValid == (vips # <<>>) # dnsHa

\* get_vip_settings: the interface, or the option if there is none
VipInterface(u, v) == IF wiring[u][v] = "none" THEN VipIface ELSE wiring[u][v]

\* Mutant: the name of before, "encoding iface in name".
VipKey_OfIface(u, v) == <<"vip", VipInterface(u, v)>>

\* res_<service>_<hash of the address>_vip
VipKey(u, v) == <<"vip", v>>

\* The names of before, by interface, the second on an interface with a suffix.
OldKeys(u) ==
    LET second(i) == \E j \in 1..(i - 1) : VipInterface(u, vips[j]) = VipInterface(u, vips[i])
    IN  {<<"vip", VipInterface(u, vips[i])>> \o (IF second(i) THEN <<"ip">> ELSE <<>>) :
            i \in DOMAIN vips}

\* update_hacluster_vip; the parameters name the interface if it was a fallback.
VipData(u) ==
    LET keys == {VipKey(u, v) : v \in Range(vips)}
    IN  [resources |-> {Haproxy} \cup keys,
         params    |-> {<<Haproxy, "">>}
             \cup {<<VipKey(u, v), IF wiring[u][v] = "none" THEN VipIface ELSE "">> : v \in Range(vips)},
         group     |-> keys,
         delete    |-> OldKeys(u)]

\* update_hacluster_dns_ha; it has nothing to delete and leaves that key alone.
DnsData(u) ==
    LET keys == {<<"hostname", h>> : h \in hostNames}
    IN  [resources |-> {Haproxy} \cup keys,
         params    |-> {<<Haproxy, "">>} \cup {<<k, u>> : k \in keys},
         group     |-> keys,
         delete    |-> asked[u].delete]

\* HAIncorrectConfig, or DNSHAException when no hostname is set.
HaIsRefused == IF dnsHa THEN hostNames = {} ELSE ~HaConfigIsValid

-----------------------------------------------------------------------------
(* Hooks. *)

\* config-changed, or ha-relation-joined.  A hook that raises sets nothing.
HaJoined(u) ==
    /\ u \in behind
    /\ ~HaIsRefused
    /\ asked' = [asked EXCEPT ![u] = IF dnsHa THEN DnsData(u) ELSE VipData(u)]
    /\ behind' = behind \ {u}
    /\ UNCHANGED <<vips, dnsHa, hostNames, wiring>>

ChangeVips(V) ==
    /\ V # vips /\ vips' = V
    /\ behind' = HaUnits
    /\ UNCHANGED <<dnsHa, hostNames, wiring, asked>>

ChangeDnsHa(b, H) ==
    /\ dnsHa' = b /\ hostNames' = H
    /\ behind' = HaUnits
    /\ UNCHANGED <<vips, wiring, asked>>

HaNext ==
    \/ \E u \in HaUnits : HaJoined(u)
    \/ \E V \in {s \in SeqOf(VipAddresses, 2) : IsInjective(s)} : ChangeVips(V)
    \/ \E b \in BOOLEAN, H \in SUBSET Hosts : ChangeDnsHa(b, H)

HaSpec == HaInit /\ [][HaNext]_haVars

-----------------------------------------------------------------------------
(* Properties. *)

\* The cluster can do what it is asked.  The units that have seen the options ask
\* for the same resources in the same group, however their interfaces are wired;
\* what is in the group has a definition and parameters on the same unit; and no
\* unit asks for the deletion of what any unit asks for, under these options or
\* under older ones.
UnitsAskTheSame ==
    /\ \A u, w \in HaUnits \ behind :
          /\ asked[u].resources = asked[w].resources
          /\ asked[u].group = asked[w].group
    /\ \A u \in HaUnits :
          /\ asked[u].group \subseteq asked[u].resources
          /\ \A k \in asked[u].resources : Cardinality({p \in asked[u].params : p[1] = k}) = 1
    /\ \A u, w \in HaUnits : asked[u].delete \cap asked[w].resources = {}
=============================================================================
