------------------------------- MODULE Sources -------------------------------
(***************************************************************************)
(* The option openstack-origin, read twice: add_source makes of it what    *)
(* apt is to install from, and get_os_codename_install_source the release  *)
(* that the charm believes apt installs.  The lists of apt stay when the   *)
(* option changes, and the hook may fail at every step of their writing.   *)
(* The unit runs one series of Ubuntu, whose own release is 0.             *)
(***************************************************************************)
EXTENDS Integers, FiniteSets

CONSTANT LastRelease  \* the last release the cloud archive has for the series
ASSUME SourcesAssumption == LastRelease \in Nat

Releases  == 0..LastRelease
Unknown   == -1   \* None, or a word that is no release: the caller exits
Absentee  == -1   \* no such list
Truncated == -2   \* a list that was opened and not written

\* The forms of the option, each with a release, for this series or ("other")
\* for another one, with or without a key.
Forms == {"distro", "proposed",        \* the archive of Ubuntu
          "cloud",                     \* cloud:<series>-<release>
          "cloud/proposed",            \* cloud:<series>-<release>/proposed
          "cloud/staging",             \* cloud:<series>-<release>/staging
          "cloud-updates",             \* cloud:<series>-updates/<release>
          "cloud:pocket",              \* cloud:<release>
          "bare", "bare/proposed",     \* <release>, <release>/proposed
          "deb", "ppa", "http"}        \* whatever add-apt-repository takes
Source ==
    {s \in [form : Forms, release : Releases, series : {"this", "other"}, key : BOOLEAN] :
        s.series = "other" => s.form \in {"cloud", "cloud/staging", "cloud-updates"}}

VARIABLES
    origin,      \* openstack-origin
    cloudList,   \* the release in cloud-archive.list
    proposed,    \* proposed.list is there
    repositories,\* the releases of what add-apt-repository has added
    keys,        \* the key of the option is in trusted.gpg.d
    adding       \* the step of configure_installation_source, or "idle"

sourceVars == <<origin, cloudList, proposed, repositories, keys, adding>>
lists == <<cloudList, proposed, repositories>>

SourcesInit ==
    /\ origin = [form |-> "distro", release |-> 0, series |-> "this", key |-> FALSE]
    /\ cloudList = Absentee /\ proposed = FALSE /\ repositories = {}
    /\ keys = FALSE
    /\ adding = "idle"

-----------------------------------------------------------------------------
(* What the charm believes. *)

\* get_os_codename_install_source, after the key is cut off.  Of "cloud:" it takes
\* what follows the first hyphen up to a slash, an IndexError without a hyphen.
CodenameInstallSource(s) ==
    CASE s.form \in {"distro", "proposed"} -> 0
      [] s.form \in {"bare", "cloud", "cloud/proposed", "cloud/staging",
                     "deb", "ppa"} -> s.release
      [] s.form \in {"cloud-updates", "cloud:pocket", "bare/proposed", "http"} -> Unknown

-----------------------------------------------------------------------------
(* What apt installs. *)

\* CLOUD_ARCHIVE_POCKETS has the releases after that of the series, and for each
\* the pockets <release>, <series>-<release>, .../proposed and -updates/...
InPockets(r) == r \in 1..LastRelease

\* _verify_is_ubuntu_rel
OfThisSeries(s) == s.series = "this"

\* Which of the functions of _mapping takes the option.
HasKey(s) == s.key
TakesPocket(s) ==
    \/ s.form \in {"cloud", "cloud/proposed", "cloud-updates"} /\ OfThisSeries(s)
    \/ s.form = "cloud:pocket"

\* Mutant: a bare release is that of the distribution, as long as it is not proposed.
AddBare_Distro(s) == s.form = "bare/proposed" /\ InPockets(s.release)

\* __add_bare_helper: "this could apply cloud:bionic-ussuri or 'distro'"
AddBare(s) == s.form \in {"bare", "bare/proposed"} /\ InPockets(s.release)

AddsPocket(s)     == (TakesPocket(s) /\ InPockets(s.release)) \/ AddBare(s)
AddsNothing(s)    == s.form = "distro" \/ (s.form = "bare" /\ ~AddBare(s))
AddsProposed(s)   == s.form = "proposed" \/ (s.form = "bare/proposed" /\ ~AddBare(s))
AddsRepository(s) == s.form \in {"deb", "ppa", "http"}
                     \/ (s.form = "cloud/staging" /\ OfThisSeries(s))

\* SourceConfigError: another series, a pocket or a release that is not known.
IsRefused(s) ==
    \/ s.form \in {"cloud", "cloud/proposed", "cloud-updates", "cloud/staging"} /\ ~OfThisSeries(s)
    \/ TakesPocket(s) /\ ~InPockets(s.release)

\* What apt finds newest.
Candidate ==
    LET of == {0, cloudList} \cup repositories
    IN  CHOOSE r \in of : \A x \in of : x <= r

-----------------------------------------------------------------------------
(* configure_installation_source *)

BeginAdding ==
    /\ adding = "idle"
    /\ adding' = IF HasKey(origin) THEN "key" ELSE "source"
    /\ UNCHANGED <<origin, lists, keys>>

\* import_key: of an armored key, or of one that the key server gives.
ImportKey ==
    /\ adding = "key"
    /\ keys' = TRUE
    /\ adding' = "source"
    /\ UNCHANGED <<origin, lists>>

\* add_source, with fail_invalid; the keyring of the cloud archive is installed
\* before its list is opened.
AddSource ==
    /\ adding = "source"
    /\ ~IsRefused(origin)
    /\ IF AddsPocket(origin)
       THEN /\ cloudList' = Truncated /\ adding' = "write"
            /\ UNCHANGED <<proposed, repositories>>
       ELSE /\ adding' = "done"
            /\ proposed' = (proposed \/ AddsProposed(origin))
            /\ repositories' = repositories \cup {r \in {origin.release} : AddsRepository(origin)}
            /\ UNCHANGED cloudList
    /\ UNCHANGED <<origin, keys>>

WritePocket ==
    /\ adding = "write"
    /\ cloudList' = origin.release
    /\ adding' = "done"
    /\ UNCHANGED <<origin, proposed, repositories, keys>>

\* error_out, or a command that failed as often as it is tried.
AddingFails ==
    /\ adding \notin {"idle", "done"}
    /\ adding' = "idle"
    /\ UNCHANGED <<origin, lists, keys>>

\* The operator sets another origin, with a key of its own.
ChangeOrigin(s) ==
    /\ adding \in {"idle", "done"}
    /\ origin' = s
    /\ keys' = FALSE
    /\ adding' = "idle"
    /\ UNCHANGED lists

SourcesNext ==
    \/ BeginAdding \/ ImportKey \/ AddSource \/ WritePocket \/ AddingFails
    \/ \E s \in Source : ChangeOrigin(s)

SourcesSpec == SourcesInit /\ [][SourcesNext]_sourceVars

-----------------------------------------------------------------------------
(* Properties. *)

\* When an origin has been added, its key was imported, and apt finds the release
\* that the charm derives from it: at least that release, and no other if the
\* origin is a pocket and no repository of a later release was ever added.  The
\* distribution itself leaves the pocket of before in place ("surely this means we
\* should be removing cloud archives", _add_bare_openstack).
OriginIsItsRelease ==
    adding = "done" =>
        LET release == CodenameInstallSource(origin)
        IN  /\ HasKey(origin) => keys
            /\ release # Unknown =>
                  /\ Candidate >= release
                  /\ (AddsPocket(origin) /\ \A r \in repositories : r <= release)
                        => Candidate = release
=============================================================================
