------------------------------ MODULE Templating ------------------------------
(***************************************************************************)
(* OSConfigRenderer and get_loader.  A process makes a renderer for the    *)
(* release that is installed, its CONFIGS; the environment, which is made  *)
(* at its first use, searches the directories of templates down from that  *)
(* release.  An upgrade in the process changes the release under CONFIGS:  *)
(* it makes a second renderer, for the new release, and writes the files   *)
(* with that; afterwards a hook writes them again with the CONFIGS it has, *)
(* and the action openstack-upgrade with new ones.  Files are written one  *)
(* by one, each truncated first, and the process may end anywhere.         *)
(***************************************************************************)
EXTENDS Integers, FiniteSets, FiniteSetsExt

CONSTANTS
    NewestRelease,  \* releases are 1 .. NewestRelease; 0 is the common directory
    Shipments       \* what may be shipped: functions from files to templates

TemplateReleases == 1..NewestRelease

\* A template is in the directory of a release, or the common one, under the base
\* name of the file or under its whole path with "_" for "/".
Template == [dir : 0..NewestRelease, name : {"base", "path"}]

ASSUME TemplatingAssumption ==
    /\ NewestRelease \in Nat \ {0}
    /\ \A s \in Shipments : \A f \in DOMAIN s : s[f] \subseteq Template

VARIABLES
    shipped,       \* shipped[f]: the templates of file f that the charm has
    installedRelease,     \* the release of the package
    renderer,      \* the one that writes: its release, environment and work, or NoRenderer
    suspended,     \* CONFIGS while the second renderer of an upgrade writes, or NoRenderer
    rendered,      \* rendered[f]: the template that f was last written from
    finished       \* how the last process ended: "well", "outdated" (well, but with an
                   \* upgrade under its CONFIGS), or "no" if it runs, failed or wrote less

templateVars == <<shipped, installedRelease, renderer, suspended, rendered, finished>>

NoRenderer == [release |-> 0]
NotWritten == [dir |-> -1, name |-> "none"]
TruncatedFile  == [dir |-> -1, name |-> "empty"]
ConfFiles      == DOMAIN shipped

TemplatingInit ==
    /\ shipped \in Shipments
    /\ installedRelease \in TemplateReleases
    /\ renderer = NoRenderer /\ suspended = NoRenderer
    /\ rendered = [f \in ConfFiles |-> NotWritten]
    /\ finished = "no"

-----------------------------------------------------------------------------
(* get_loader and render. *)

\* Mutant: the loop goes on beyond the release.
Searched_All(release) == 0..NewestRelease

\* The directories of a loader for a release.
Searched(release) == 0..release

Found(f, dirs, name) == {t \in shipped[f] : t.dir \in dirs /\ t.name = name}

Newest(templates) == CHOOSE t \in templates : \A other \in templates : other.dir <= t.dir

\* By the base name in any directory first, then by the path.  TemplateNotFound if
\* there is none.
TemplateFor(f, env) ==
    LET base == Found(f, Searched(env), "base")
        path == Found(f, Searched(env), "path")
    IN  IF base # {} THEN Newest(base) ELSE IF path # {} THEN Newest(path) ELSE NotWritten

-----------------------------------------------------------------------------
(* Processes. *)

\* register_configs, for the release of os_release; the environment 0 is not made.
Registered(release) == [release |-> release, env |-> 0, todo |-> ConfFiles, opened |-> {}]

\* set_release, which makes the environment at once.
SetRelease(release) == [Registered(release) EXCEPT !.env = release]

StartRenderer ==
    /\ renderer = NoRenderer
    /\ renderer' = Registered(installedRelease)
    /\ finished' = "no"
    /\ UNCHANGED <<shipped, installedRelease, suspended, rendered>>

Running   == renderer # NoRenderer
Upgrading == suspended # NoRenderer
Env       == IF renderer.env = 0 THEN renderer.release ELSE renderer.env

\* write: it renders, and opens the file, which truncates it; then it writes.  A
\* template that is not found ends the process.
OpenFile(f) ==
    /\ Running /\ renderer.opened = {} /\ f \in renderer.todo
    /\ IF TemplateFor(f, Env) = NotWritten
       THEN renderer' = NoRenderer /\ suspended' = NoRenderer /\ UNCHANGED rendered
       ELSE /\ renderer' = [renderer EXCEPT !.env = Env, !.opened = {f}]
            /\ rendered' = [rendered EXCEPT ![f] = TruncatedFile]
            /\ UNCHANGED suspended
    /\ UNCHANGED <<shipped, installedRelease, finished>>

WriteFile(f) ==
    /\ Running /\ f \in renderer.opened
    /\ rendered' = [rendered EXCEPT ![f] = TemplateFor(f, Env)]
    /\ renderer' = [renderer EXCEPT !.opened = {}, !.todo = @ \ {f}]
    /\ UNCHANGED <<shipped, installedRelease, suspended, finished>>

\* do_openstack_upgrade: the packages, then a renderer of its own, for the new
\* release; CONFIGS may have written before, and stay as they are.
UpgradeInstalls(r) ==
    /\ Running /\ ~Upgrading /\ renderer.opened = {} /\ r > installedRelease
    /\ installedRelease' = r
    /\ suspended' = renderer /\ renderer' = SetRelease(r)
    /\ UNCHANGED <<shipped, rendered, finished>>

\* It returns, and its renderer is gone.  config_changed goes on to the write_all of
\* CONFIGS; the action registers new CONFIGS first.
UpgradeReturns ==
    /\ Running /\ Upgrading /\ renderer.todo = {}
    /\ \/ renderer' = [suspended EXCEPT !.todo = ConfFiles]
       \/ renderer' = Registered(installedRelease)
    /\ suspended' = NoRenderer
    /\ UNCHANGED <<shipped, installedRelease, rendered, finished>>

\* A process that wrote all ends well.
EndsRenderer ==
    /\ Running /\ ~Upgrading /\ renderer.todo = {}
    /\ finished' = IF renderer.release = installedRelease THEN "well" ELSE "outdated"
    /\ renderer' = NoRenderer
    /\ UNCHANGED <<shipped, installedRelease, suspended, rendered>>

\* The process is killed, fails elsewhere, or ends without having written all.
KillRenderer ==
    /\ Running
    /\ renderer' = NoRenderer /\ suspended' = NoRenderer
    /\ UNCHANGED <<shipped, installedRelease, rendered, finished>>

TemplatingNext ==
    \/ StartRenderer \/ UpgradeReturns \/ EndsRenderer \/ KillRenderer
    \/ \E f \in ConfFiles : OpenFile(f) \/ WriteFile(f)
    \/ \E r \in TemplateReleases : UpgradeInstalls(r)

TemplatingSpec == TemplatingInit /\ [][TemplatingNext]_templateVars

-----------------------------------------------------------------------------
(* Properties. *)

\* Files fit the packages.  No file is written from a template of a release newer
\* than what is installed; and when the last process ended well, each file was
\* written whole, and all for one release: from the newest template that the release
\* has under the name the file is found by, whatever happened before, upgrades, and
\* processes that were killed between the packages and the files or amid a file.  The
\* release is the one that is installed, unless the process was a hook that upgraded
\* the packages under its CONFIGS, which write last.
TemplatesFit ==
    /\ \A f \in ConfFiles : rendered[f].dir <= installedRelease
    /\ finished # "no" => \E r \in 1..installedRelease :
          /\ finished = "well" => r = installedRelease
          /\ \A f \in ConfFiles :
                /\ rendered[f] \in shipped[f] /\ rendered[f].dir <= r
                /\ \A t \in shipped[f] :
                      (t.name = rendered[f].name /\ t.dir <= r) => t.dir <= rendered[f].dir
=============================================================================
