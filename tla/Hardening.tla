------------------------------ MODULE Hardening ------------------------------
(***************************************************************************)
(* The option "harden": before the body of install, config-changed,        *)
(* upgrade-charm and update-status the audits of the modules that it names *)
(* run, in a fixed order.  Each looks at an object of the host and, when   *)
(* it does not comply, corrects it.  What a templated file should hold is  *)
(* known by checksums in the store, of the template and of the file, which *)
(* are saved at different moments; a hook may fail at any step between     *)
(* them.  Meanwhile operators and packages change the files, and upgrades  *)
(* of the charm bring other templates and settings.                        *)
(*                                                                         *)
(* One object stands for the objects of one kind of audit.                 *)
(***************************************************************************)
EXTENDS Integers, FiniteSets, Sequences

CONSTANTS
    MaxTemplate,  \* the templates a charm has had: 1..MaxTemplate
    Exposed       \* sets of objects that the environment touches together

Templated == {"sysctl", "sshd", "alias"}
Plain     == {"packages", "limits.d", "bin", "shadow", "suid",
              "apache_dir", "modules", "other", "index"}
Objects   == Templated \cup Plain

ASSUME HardeningAssumption ==
    /\ MaxTemplate \in Nat \ {0}
    /\ Exposed \subseteq SUBSET Objects

\* A file has what a template renders, 1..MaxTemplate.  The settings do not
\* count: a file is not rendered again because they have changed.
Edited == 0    \* what anyone else writes
NoSum  == -1   \* no checksum
Down   == -2   \* a service that did not restart

Modules == {"os", "ssh", "apache"}

VARIABLES
    exposed,   \* the objects that the environment touches in this behaviour
    harden,    \* the option: a set of modules
    template,  \* the template of the charm
    content,   \* content[p]: of a templated file
    good,      \* good[p]: its owner and mode are as they should be
    live,      \* live[p]: what the service, or the kernel, has read of it
    tmplSum,   \* hardening:template:<path>
    fileSum,   \* hardening:<path>
    bad,       \* the plain objects that do not comply
    todo,      \* the audits that the hook has still to run
    step,      \* where it is in the first of them
    \* History:
    escaped,   \* what the checksums cannot tell: <<"cut", p>>, a hook ended
               \* between the check and the writing; <<"lost", p>>, one ended
               \* between the writing and post_write
    quiet      \* full passes since the last disturbance, at most 2

hardeningVars == <<exposed, harden, template, content, good, live, tmplSum,
                   fileSum, bad, todo, step, escaped, quiet>>
host   == <<content, good, live, bad>>
sums   == <<tmplSum, fileSum>>
charm  == <<exposed, harden, template>>

HardeningInit ==
    /\ exposed \in Exposed
    /\ harden = {}
    /\ template = 1
    /\ content = [p \in Templated |-> Edited]
    /\ good = [p \in Templated |-> FALSE]
    /\ live = content
    /\ tmplSum = [p \in Templated |-> 0]
    /\ fileSum = [p \in Templated |-> NoSum]
    /\ bad = exposed \cap Plain
    /\ todo = <<>> /\ step = "idle"
    /\ escaped = {} /\ quiet = 0

-----------------------------------------------------------------------------
(* harden(), with its RUN_CATALOG *)

\* Only the objects that a behaviour exposes are followed in it.
One(p) == IF p \in exposed THEN <<p>> ELSE <<>>

\* What each module audits, and its audits in their order.  MySQL is not
\* installed, and its module has no audits then.
AptAudits      == One("packages")
LimitsAudits   == One("limits.d")
AccessAudits   == One("bin") \o One("shadow")
SuidSgidAudits == One("suid")
SysctlAudits   == One("sysctl")
OsChecks       == AptAudits \o LimitsAudits \o AccessAudits \o SuidSgidAudits \o SysctlAudits
SshChecks      == One("sshd")
ApacheChecks   == One("alias") \o One("apache_dir") \o One("modules") \o One("other") \o One("index")

Audits(modules) ==
    (IF "os" \in modules THEN OsChecks ELSE <<>>)
        \o (IF "ssh" \in modules THEN SshChecks ELSE <<>>)
        \o (IF "apache" \in modules THEN ApacheChecks ELSE <<>>)

Object == Head(todo)
In(s)  == todo # <<>> /\ step = s
Next(t) == todo' = t /\ step' = IF t = <<>> THEN "ended" ELSE "check"

StartPass ==
    /\ step = "idle"
    /\ harden # {}
    /\ Next(Audits(harden))
    /\ UNCHANGED <<charm, host, sums, escaped, quiet>>

\* All modules have run; the body of the hook follows.
EndPass ==
    /\ step = "ended"
    /\ step' = "idle"
    /\ quiet' = IF quiet = 2 THEN 2 ELSE quiet + 1
    /\ UNCHANGED <<charm, host, sums, todo, escaped>>

\* What spoils the pass that runs, or the quiet between two.
Disturbed == IF step = "idle" THEN 0 ELSE -1

-----------------------------------------------------------------------------
(* TemplatedFile *)

\* templates_match, which saves the checksum that it has just compared.
TemplatesMatch == tmplSum[Object] = template

\* Mutant: a file with the right permissions and template is taken as it is.
ContentsMatch_Always(p) == fileSum[p] # NoSum

\* contents_match
ContentsMatch(p) == fileSum[p] # NoSum /\ fileSum[p] = content[p]

\* BaseFileAudit.ensure_compliance with TemplatedFile.is_compliant
CheckFile ==
    /\ In("check")
    /\ Object \in Templated
    /\ tmplSum' = [tmplSum EXCEPT ![Object] = template]
    /\ IF TemplatesMatch /\ ContentsMatch(Object) /\ good[Object]
       THEN Next(Tail(todo))
       ELSE step' = "pre" /\ UNCHANGED todo
    /\ UNCHANGED <<charm, host, fileSum, escaped, quiet>>

\* pre_write, which fetches and installs packages, then render_and_write and
\* ensure_permissions.
Write ==
    /\ In("pre")
    /\ step' = "service"
    /\ content' = [content EXCEPT ![Object] = template]
    /\ good' = [good EXCEPT ![Object] = TRUE]
    /\ escaped' = escaped \ {<<"cut", Object>>}
    /\ UNCHANGED <<charm, live, bad, sums, todo, quiet>>

\* run_service_actions: a service that does not restart is a warning.  The
\* settings of the kernel have no service.
RunServiceActions ==
    /\ In("service")
    /\ step' = "save"
    /\ IF Object = "sysctl"
       THEN UNCHANGED <<live, quiet>>
       ELSE \/ live' = [live EXCEPT ![Object] = content[Object]] /\ UNCHANGED quiet
            \/ live' = [live EXCEPT ![Object] = Down] /\ quiet' = -1
    /\ UNCHANGED <<charm, content, good, bad, sums, todo, escaped>>

\* save_checksum: of the file as it is by now.
SaveChecksum ==
    /\ In("save")
    /\ step' = "post"
    /\ fileSum' = [fileSum EXCEPT ![Object] = content[Object]]
    /\ UNCHANGED <<charm, host, tmplSum, todo, escaped, quiet>>

\* post_write: sysctl -p, pam-auth-update, or the mode of the directory.
PostWrite ==
    /\ In("post")
    /\ live' = IF Object = "sysctl" THEN [live EXCEPT ![Object] = content[Object]] ELSE live
    /\ escaped' = escaped \ {<<"lost", Object>>}
    /\ Next(Tail(todo))
    /\ UNCHANGED <<charm, content, good, bad, sums, quiet>>

-----------------------------------------------------------------------------
(* The other audits *)

Audited(objects) ==
    /\ In("check")
    /\ Object \in objects
    /\ Next(Tail(todo))
    /\ UNCHANGED <<charm, content, live, sums, escaped>>

\* A command that may fail with no more than a line in the log.
Commanded ==
    \/ bad' = bad \ {Object} /\ UNCHANGED quiet
    \/ Object \in bad /\ quiet' = -1 /\ UNCHANGED bad

\* FilePermissionAudit
AuditPermissions ==
    /\ Audited({"shadow"})
    /\ bad' = bad \ {Object}
    /\ UNCHANGED <<good, quiet>>

\* What is corrected along with the directory of apache: all that is below it.
BelowDirectory == {"apache_dir", "other"}

\* DirectoryPermissionAudit: a directory is found at fault by its leaves, and
\* corrected by way of the directories that are none.  The directory limits.d
\* has no directory in it; that of apache has, and the files below it get the
\* mode of directories.
AuditDirectories ==
    /\ Audited({"limits.d", "apache_dir"})
    /\ IF Object \in bad /\ Object = "apache_dir"
       THEN /\ bad' = bad \ BelowDirectory
            /\ good' = [good EXCEPT !["alias"] = FALSE]
       ELSE UNCHANGED <<bad, good>>
    /\ UNCHANGED quiet

\* ReadOnly, NoReadWriteForOther, NoSUIDSGIDAudit: find and chmod.
AuditModes == Audited({"bin", "suid", "other"}) /\ Commanded /\ UNCHANGED good

\* RestrictedPackages, by apt_purge that is not fatal.
AuditPackages == Audited({"packages"}) /\ Commanded /\ UNCHANGED good

\* DisabledModuleAudit: apache2ctl, a2dismod, and the restart.
AuditModules == Audited({"modules"}) /\ Commanded /\ UNCHANGED good

\* DeletedFile
AuditDeleted ==
    /\ Audited({"index"})
    /\ bad' = bad \ {Object}
    /\ UNCHANGED <<good, quiet>>

\* An exception, or the hook is killed.
HardeningFails ==
    /\ step # "idle"
    /\ todo' = <<>> /\ step' = "idle"
    /\ escaped' = escaped \cup (IF step = "pre" THEN {<<"cut", Object>>} ELSE {})
                     \cup (IF step \in {"service", "save", "post"}
                            THEN {<<"lost", Object>>} ELSE {})
    /\ quiet' = 0
    /\ UNCHANGED <<charm, host, sums>>

-----------------------------------------------------------------------------
(* The environment *)

ChangeModules(modules) ==
    /\ step = "idle"
    /\ harden # modules
    /\ harden' = modules
    /\ quiet' = 0
    /\ UNCHANGED <<exposed, template, host, sums, todo, step, escaped>>

UpgradeCharm(t) ==
    /\ step = "idle"
    /\ t # template
    /\ template' = t
    /\ quiet' = 0
    /\ UNCHANGED <<exposed, harden, host, sums, todo, step, escaped>>

\* An operator or a package.
Edit(p) ==
    /\ IF p \in Templated
       THEN /\ content' = [content EXCEPT ![p] = Edited]
            /\ good' \in {good, [good EXCEPT ![p] = FALSE]}
            /\ UNCHANGED bad
       ELSE bad' = bad \cup {p} /\ UNCHANGED <<content, good>>
    /\ quiet' = Disturbed
    /\ UNCHANGED <<charm, live, sums, todo, step, escaped>>

\* The operator restarts a service, or loads the settings.
Restart(p) ==
    /\ p \in Templated
    /\ live' = [live EXCEPT ![p] = content[p]]
    /\ quiet' = Disturbed
    /\ UNCHANGED <<charm, content, good, bad, sums, todo, step, escaped>>

HardeningNext ==
    \/ StartPass \/ EndPass \/ CheckFile \/ Write \/ RunServiceActions
    \/ SaveChecksum \/ PostWrite \/ AuditPermissions \/ AuditDirectories
    \/ AuditModes \/ AuditPackages \/ AuditModules \/ AuditDeleted \/ HardeningFails
    \/ \E modules \in SUBSET Modules : ChangeModules(modules)
    \/ \E t \in 1..MaxTemplate : UpgradeCharm(t)
    \/ \E p \in exposed : Edit(p) \/ Restart(p)

HardeningSpec == HardeningInit /\ [][HardeningNext]_hardeningVars

-----------------------------------------------------------------------------
(* Properties. *)

\* After two undisturbed passes all that is audited complies, and a third writes
\* no file and restarts no service.  Files are of the template of the charm and
\* in use, whatever was edited, whichever hook failed before and at whichever
\* step, and with audits of directories that set the mode of audited files
\* wrong.  Excepted are what has escaped the checksums, a file that was edited
\* between the writing and the saving of its checksum, which is then that of
\* the edited file, and a directory without directories.
SettlesInTwo ==
    quiet = 2 =>
        LET audited == {Audits(harden)[i] : i \in 1..Len(Audits(harden))}
        IN  /\ step \in {"idle", "check", "ended"}
            /\ audited \cap bad \subseteq {"limits.d"}
            /\ \A p \in audited \cap Templated :
                  /\ good[p]
                  /\ fileSum[p] # Edited =>
                        /\ content[p] # Edited
                        /\ <<"cut", p>> \in escaped \/ content[p] = template
                        /\ <<"lost", p>> \in escaped \/ live[p] \in {content[p], Down}
=============================================================================
