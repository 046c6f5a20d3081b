-------------------------- MODULE Endpoints_proofs --------------------------
(***************************************************************************)
(* Proofs about Endpoints, for any sets of options and any bounds: what    *)
(* the unit leaves in keystone, in apache and on disk once its hooks have  *)
(* run, in whatever order they did.                                        *)
(***************************************************************************)
EXTENDS Endpoints, TLAPS

USE EndpointsAssumption DEF EndpointsAssumption

-----------------------------------------------------------------------------
(***************************************************************************)
(* The inductive invariant.                                                *)
(*                                                                         *)
(* The properties speak of a unit that owes no hook.  Each part below says *)
(* which hooks, as long as Juju owes them, excuse a setting that is not of *)
(* today: whatever changes what the setting depends on owes one of them,   *)
(* and each of them sets it anew, whichever runs first.                    *)
(***************************************************************************)

\* Some of these hooks are still to run.
Owes(hooks) == owed \cap hooks # {}

WritingHooks     == {"config", "ha-changed", "certs-changed"}
RegisteringHooks == WritingHooks \cup {"identity-joined"}

\* Hooks are owed for relations that exist, certificates come from one, and no
\* change concerns the url that does not concern the site.
RelationInv ==
    /\ "ha-changed" \in owed => IsClustered
    /\ relation.certs = "none"
          => issued = {} /\ processed = {} /\ "certs-changed" \notin owed
    /\ "urls" \in deaf => "site" \in deaf

\* What keystone has is what the unit would register now.
UrlInv ==
    ~Owes(RegisteringHooks) /\ "urls" \notin deaf
        /\ relation.identity # "none" /\ ~Defers
    => \A v \in Versions(release) : registered[v] = CanonicalUrls

Current == ~Owes(WritingHooks) /\ "site" \notin deaf

\* The site is the one that the unit would write now.
SiteInv == Current => site = IF Https THEN SiteHosts ELSE {}

\* Of what was delivered, certs-changed has made the files it was asked for.
LinkInv == "certs-changed" \notin owed => issued \cap processed \subseteq disk

CertificateInv ==
    Current => \A h \in site :
                   \/ h \in disk
                   \/ relation.certs # "none" /\ h \notin issued \cap processed

EndpointsInv ==
    TypeOK /\ RelationInv /\ UrlInv /\ SiteInv /\ LinkInv /\ CertificateInv

-----------------------------------------------------------------------------
(* It is inductive. *)

LEMMA InitInv == Init => EndpointsInv
<1> SUFFICES ASSUME Init PROVE EndpointsInv OBVIOUS
<1> USE DEF Init, Owes, WritingHooks, RegisteringHooks, Current
<1>1. TypeOK
  <2>1. registered \in [Version -> Urls \cup {NoUrls}] /\ owed \subseteq Hook
    BY DEF Hook
  <2>2. budget \in [sets : Nat, relation : Nat, events : Nat]
    OBVIOUS
  <2> QED BY <2>1, <2>2 DEF TypeOK, Host
<1>2. RelationInv BY DEF RelationInv, IsClustered
<1>3. UrlInv /\ SiteInv /\ LinkInv /\ CertificateInv
  BY DEF UrlInv, SiteInv, LinkInv, CertificateInv
<1> QED BY <1>1, <1>2, <1>3 DEF EndpointsInv

\* Every step keeps every part of EndpointsInv.
LEMMA NextInv == EndpointsInv /\ [Next]_vars => EndpointsInv'
<1> SUFFICES ASSUME EndpointsInv, [Next]_vars PROVE EndpointsInv' OBVIOUS
<1> USE DEF EndpointsInv, TypeOK, RelationInv, UrlInv, SiteInv, LinkInv,
            CertificateInv, Https, ResolveAddress, SiteHosts, CanonicalUrls, Versions, Urls,
            NoUrls, Type, Owes, WritingHooks, RegisteringHooks, Current, IsClustered,
            Defers,
            RelationsKept, UnitKept, Runs, Owe, Spend, Hook, Host, Version
<1>1. CASE ConfigChanged
  <2>1. TypeOK'
    BY <1>1 DEF ConfigChanged, ConfiguresHttps, WritesSite, Registers,
       RequestedHosts
  <2>2. RelationInv'
    BY <1>1 DEF ConfigChanged, ConfiguresHttps, WritesSite, Registers,
       RequestedHosts
  <2>3. UrlInv'
    BY <1>1 DEF ConfigChanged, ConfiguresHttps, WritesSite, Registers,
       RequestedHosts
  <2>4. SiteInv'
    BY <1>1 DEF ConfigChanged, ConfiguresHttps, WritesSite, Registers,
       RequestedHosts
  <2>5. LinkInv'
    BY <1>1 DEF ConfigChanged, ConfiguresHttps, WritesSite, Registers,
       RequestedHosts
  <2>6. CertificateInv'
    BY <1>1 DEF ConfigChanged, ConfiguresHttps, WritesSite, Registers,
       RequestedHosts
  <2> QED BY <2>1, <2>2, <2>3, <2>4, <2>5, <2>6
<1>2. CASE ConfigSkipped
  <2>1. TypeOK' BY <1>2 DEF ConfigSkipped
  <2>2. RelationInv' BY <1>2 DEF ConfigSkipped
  <2>3. UrlInv' BY <1>2 DEF ConfigSkipped
  <2>4. SiteInv' BY <1>2 DEF ConfigSkipped
  <2>5. LinkInv' BY <1>2 DEF ConfigSkipped
  <2>6. CertificateInv' BY <1>2 DEF ConfigSkipped
  <2> QED BY <2>1, <2>2, <2>3, <2>4, <2>5, <2>6
<1>3. CASE IdentityJoined
  <2>1. TypeOK' BY <1>3 DEF IdentityJoined, Registers
  <2>2. RelationInv' BY <1>3 DEF IdentityJoined, Registers
  <2>3. UrlInv' BY <1>3 DEF IdentityJoined, Registers
  <2>4. SiteInv' BY <1>3 DEF IdentityJoined, Registers
  <2>5. LinkInv' BY <1>3 DEF IdentityJoined, Registers
  <2>6. CertificateInv' BY <1>3 DEF IdentityJoined, Registers
  <2> QED BY <2>1, <2>2, <2>3, <2>4, <2>5, <2>6
<1>4. CASE IdentityChanged
  <2>1. TypeOK'
    BY <1>4 DEF IdentityChanged, ConfiguresHttps, WritesSite, Registers
  <2>2. RelationInv'
    BY <1>4 DEF IdentityChanged, ConfiguresHttps, WritesSite, Registers
  <2>3. UrlInv'
    BY <1>4 DEF IdentityChanged, ConfiguresHttps, WritesSite, Registers
  <2>4. SiteInv'
    BY <1>4 DEF IdentityChanged, ConfiguresHttps, WritesSite, Registers
  <2>5. LinkInv'
    BY <1>4 DEF IdentityChanged, ConfiguresHttps, WritesSite, Registers
  <2>6. CertificateInv'
    BY <1>4 DEF IdentityChanged, ConfiguresHttps, WritesSite, Registers
  <2> QED BY <2>1, <2>2, <2>3, <2>4, <2>5, <2>6
<1>5. CASE HaJoined
  <2>1. TypeOK' BY <1>5 DEF HaJoined
  <2>2. RelationInv' BY <1>5 DEF HaJoined
  <2>3. UrlInv' BY <1>5 DEF HaJoined
  <2>4. SiteInv' BY <1>5 DEF HaJoined
  <2>5. LinkInv' BY <1>5 DEF HaJoined
  <2>6. CertificateInv' BY <1>5 DEF HaJoined
  <2> QED BY <2>1, <2>2, <2>3, <2>4, <2>5, <2>6
<1>6. CASE HaChanged
  <2>1. TypeOK' BY <1>6 DEF HaChanged, Registers
  <2>2. RelationInv' BY <1>6 DEF HaChanged, Registers
  <2>3. UrlInv' BY <1>6 DEF HaChanged, Registers
  <2>4. SiteInv' BY <1>6 DEF HaChanged, Registers
  <2>5. LinkInv' BY <1>6 DEF HaChanged, Registers
  <2>6. CertificateInv' BY <1>6 DEF HaChanged, Registers
  <2> QED BY <2>1, <2>2, <2>3, <2>4, <2>5, <2>6
<1>7. CASE CertsJoined
  <2>1. TypeOK' BY <1>7 DEF CertsJoined, RequestedHosts
  <2>2. RelationInv' BY <1>7 DEF CertsJoined, RequestedHosts
  <2>3. UrlInv' BY <1>7 DEF CertsJoined, RequestedHosts
  <2>4. SiteInv' BY <1>7 DEF CertsJoined, RequestedHosts
  <2>5. LinkInv' BY <1>7 DEF CertsJoined, RequestedHosts
  <2>6. CertificateInv' BY <1>7 DEF CertsJoined, RequestedHosts
  <2> QED BY <2>1, <2>2, <2>3, <2>4, <2>5, <2>6
<1>8. CASE CertsChanged
  <2>1. TypeOK' BY <1>8 DEF CertsChanged, Installs, Certificates, RequestedHosts, Registers
  <2>2. RelationInv'
    BY <1>8 DEF CertsChanged, Installs, Certificates, RequestedHosts, Registers
  <2>3. UrlInv' BY <1>8 DEF CertsChanged, Installs, Certificates, RequestedHosts, Registers
  <2>4. SiteInv' BY <1>8 DEF CertsChanged, Installs, Certificates, RequestedHosts, Registers
  <2>5. LinkInv' BY <1>8 DEF CertsChanged, Installs, Certificates, RequestedHosts, Registers
  <2>6. CertificateInv'
    BY <1>8 DEF CertsChanged, Installs, Certificates, RequestedHosts, Registers
  <2> QED BY <2>1, <2>2, <2>3, <2>4, <2>5, <2>6
<1>9. CASE KeystoneAnswers
  <2>1. TypeOK' BY <1>9 DEF KeystoneAnswers
  <2>2. RelationInv' BY <1>9 DEF KeystoneAnswers
  <2>3. UrlInv' BY <1>9 DEF KeystoneAnswers
  <2>4. SiteInv' BY <1>9 DEF KeystoneAnswers
  <2>5. LinkInv' BY <1>9 DEF KeystoneAnswers
  <2>6. CertificateInv' BY <1>9 DEF KeystoneAnswers
  <2> QED BY <2>1, <2>2, <2>3, <2>4, <2>5, <2>6
<1>10. CASE ClusterForms
  <2>1. TypeOK' BY <1>10 DEF ClusterForms
  <2>2. RelationInv' BY <1>10 DEF ClusterForms
  <2>3. UrlInv' BY <1>10 DEF ClusterForms
  <2>4. SiteInv' BY <1>10 DEF ClusterForms
  <2>5. LinkInv' BY <1>10 DEF ClusterForms
  <2>6. CertificateInv' BY <1>10 DEF ClusterForms
  <2> QED BY <2>1, <2>2, <2>3, <2>4, <2>5, <2>6
<1>11. CASE CertificatesIssued
  <2>1. TypeOK' BY <1>11 DEF CertificatesIssued
  <2>2. RelationInv' BY <1>11 DEF CertificatesIssued
  <2>3. UrlInv' BY <1>11 DEF CertificatesIssued
  <2>4. SiteInv' BY <1>11 DEF CertificatesIssued
  <2>5. LinkInv' BY <1>11 DEF CertificatesIssued
  <2>6. CertificateInv' BY <1>11 DEF CertificatesIssued
  <2> QED BY <2>1, <2>2, <2>3, <2>4, <2>5, <2>6
<1>12. CASE SetOption
  <2>1. TypeOK' BY <1>12 DEF SetOption
  <2>2. RelationInv' BY <1>12 DEF SetOption
  <2>3. UrlInv' BY <1>12 DEF SetOption
  <2>4. SiteInv' BY <1>12 DEF SetOption
  <2>5. LinkInv' BY <1>12 DEF SetOption
  <2>6. CertificateInv' BY <1>12 DEF SetOption
  <2> QED BY <2>1, <2>2, <2>3, <2>4, <2>5, <2>6
<1>13. CASE PauseOrResume
  <2>1. TypeOK' BY <1>13 DEF PauseOrResume
  <2>2. RelationInv' BY <1>13 DEF PauseOrResume
  <2>3. UrlInv' BY <1>13 DEF PauseOrResume
  <2>4. SiteInv' BY <1>13 DEF PauseOrResume
  <2>5. LinkInv' BY <1>13 DEF PauseOrResume
  <2>6. CertificateInv' BY <1>13 DEF PauseOrResume
  <2> QED BY <2>1, <2>2, <2>3, <2>4, <2>5, <2>6
<1>14. CASE \E h \in Hook : HookFails(h)
  <2>1. TypeOK' BY <1>14 DEF HookFails, WritesSite, Installs, Certificates, RequestedHosts
  <2>2. RelationInv'
    BY <1>14 DEF HookFails, WritesSite, Installs, Certificates, RequestedHosts
  <2>3. UrlInv' BY <1>14 DEF HookFails, WritesSite, Installs, Certificates, RequestedHosts
  <2>4. SiteInv' BY <1>14 DEF HookFails, WritesSite, Installs, Certificates, RequestedHosts
  <2>5. LinkInv' BY <1>14 DEF HookFails, WritesSite, Installs, Certificates, RequestedHosts
  <2>6. CertificateInv'
    BY <1>14 DEF HookFails, WritesSite, Installs, Certificates, RequestedHosts
  <2> QED BY <2>1, <2>2, <2>3, <2>4, <2>5, <2>6
<1>15. CASE \E r \in {"identity", "ha", "certs"} : RelateTo(r)
  <2>1. TypeOK' BY <1>15 DEF RelateTo
  <2>2. RelationInv' BY <1>15 DEF RelateTo
  <2>3. UrlInv' BY <1>15 DEF RelateTo
  <2>4. SiteInv' BY <1>15 DEF RelateTo
  <2>5. LinkInv' BY <1>15 DEF RelateTo
  <2>6. CertificateInv' BY <1>15 DEF RelateTo
  <2> QED BY <2>1, <2>2, <2>3, <2>4, <2>5, <2>6
<1>16. CASE \E r \in {"ha", "certs"} : RelationRemoved(r)
  <2>1. TypeOK' BY <1>16 DEF RelationRemoved
  <2>2. RelationInv' BY <1>16 DEF RelationRemoved
  <2>3. UrlInv' BY <1>16 DEF RelationRemoved
  <2>4. SiteInv' BY <1>16 DEF RelationRemoved
  <2>5. LinkInv' BY <1>16 DEF RelationRemoved
  <2>6. CertificateInv' BY <1>16 DEF RelationRemoved
  <2> QED BY <2>1, <2>2, <2>3, <2>4, <2>5, <2>6
<1>17. CASE UNCHANGED vars BY <1>17 DEF vars
<1> QED
  BY <1>1, <1>2, <1>3, <1>4, <1>5, <1>6, <1>7, <1>8, <1>9, <1>10, <1>11, <1>12,
     <1>13, <1>14, <1>15, <1>16, <1>17 DEF Next, Hooks, Answers

LEMMA Invariance == Spec => []EndpointsInv
BY InitInv, NextInv, PTL DEF Spec

-----------------------------------------------------------------------------
(* The theorems. *)

\* The variables keep their types.
THEOREM TypeCorrect == Spec => []TypeOK
<1>1. EndpointsInv => TypeOK BY DEF EndpointsInv
<1> QED BY <1>1, Invariance, PTL

\* For any options, and however often they, the relations, the release and the
\* paused flag change: once no hook is owed, keystone has the present url of every
\* version of the release.
THEOREM KeystoneIsUpToDate == Spec => []EndpointsAreCurrent
<1>1. EndpointsInv => EndpointsAreCurrent
  BY DEF EndpointsInv, RelationInv, UrlInv, Owes, EndpointsAreCurrent
<1> QED BY <1>1, Invariance, PTL

\* For the same histories: apache then serves the host that keystone has, with a
\* certificate, unless this was not delivered or not linked for the host.
THEOREM TheSiteIsServed == Spec => []SiteIsServed
<1>1. EndpointsInv => SiteIsServed
  <2> SUFFICES ASSUME EndpointsInv PROVE SiteIsServed OBVIOUS
  <2> USE DEF EndpointsInv, Owes, Current
  <2>1. SiteServesEndpoints
    <3>1. SUFFICES ASSUME owed = {}, deaf = {}, relation.identity # "none", ~Defers,
                          NEW v \in Versions(release), NEW t \in Type
                   PROVE  registered[v].scheme = "https"
                              <=> registered[v].host[t] \in site
      BY DEF SiteServesEndpoints
    <3>2. registered[v] = CanonicalUrls BY <3>1 DEF UrlInv
    <3>3. site = IF Https THEN SiteHosts ELSE {} BY <3>1 DEF SiteInv
    <3>4. registered[v].scheme = IF Https THEN "https" ELSE "http"
      BY <3>2 DEF CanonicalUrls
    <3>5. registered[v].host[t] \in SiteHosts
      BY <3>2 DEF CanonicalUrls, SiteHosts
    <3> QED BY <3>3, <3>4, <3>5
  <2>2. SiteHasCertificate
    BY DEF SiteHasCertificate, CertificateInv
  <2> QED BY <2>1, <2>2 DEF SiteIsServed
<1> QED BY <1>1, Invariance, PTL
=============================================================================
