-------------------------- MODULE PackageLifecycle --------------------------
(***************************************************************************)
(* The Debian package (package_template): its maintainer scripts, in the   *)
(* order dpkg runs them to install, upgrade and remove it, and the upstart *)
(* jobs of the services.  A script treats the services one at a time; a    *)
(* service may die, and the host may be rebooted, at any moment, also in   *)
(* the middle of an operation of dpkg.                                     *)
(*                                                                         *)
(* External, modelled from how the scripts use it: dpkg (the order of the  *)
(* scripts, the files it unpacks and deletes; DEBIAN has no conffiles),    *)
(* debconf (the answers), upstart and service (a job whose file is not     *)
(* there can be neither started nor stopped).  TEMPLATE is not docker (in  *)
(* that one postinst starts nothing), and the copies made of the site of   *)
(* apache are left out.                                                    *)
(***************************************************************************)
EXTENDS Naturals

CONSTANTS
  AskSets   \* bound: the sets of services an administrator may ask for

Services == {"mds", "cds", "webui", "wan", "cu"}

ASSUME AskSetsAssumption == AskSets \subseteq SUBSET Services

VARIABLES
  dpkg,      \* the package: "none", "broken", "configurable", "installed"
  operation, \* what dpkg does: "none", "install", "upgrade" or "remove"
  script,    \* the part of it that runs
  step,      \* services the running script has still to treat
  enabled,   \* answers in the debconf database: the services asked for
  jobs,      \* services whose /etc/init/chaos-<service>.conf exists
  base,      \* /etc/init/chaos-service.conf exists
  dist,      \* the programs are in INSTDIR
  up         \* running services

vars == <<dpkg, operation, script, step, enabled, jobs, base, dist, up>>
files == <<jobs, base, dist>>

Init ==
  /\ dpkg = "none"
  /\ operation = "none" /\ script = "end" /\ step = {}
  /\ enabled \in AskSets
  /\ jobs = {} /\ base = FALSE /\ dist = FALSE
  /\ up = {}

-----------------------------------------------------------------------------
(* The orders in which the scripts treat the services. *)

MdsFirst == [mds |-> 1, cu |-> 2, cds |-> 3, webui |-> 4, wan |-> 5] \* mutant: of StopOrder
NoCds == [cu |-> 1, webui |-> 2, wan |-> 3, mds |-> 4]               \* mutant: of StopOrder
StopOrder == [cu |-> 1, cds |-> 2, webui |-> 3, wan |-> 4, mds |-> 5]
PreinstOrder == [cu |-> 1, cds |-> 2, webui |-> 3, mds |-> 4]
StartOrder == [mds |-> 1, cds |-> 2, webui |-> 3, wan |-> 4, cu |-> 5]

\* The scripts that treat services, each of its own in this order.
Order == [prerm |-> StopOrder, preinst |-> PreinstOrder, postinst |-> StartOrder]

Treated(part) == IF part \in DOMAIN Order THEN DOMAIN Order[part] ELSE {}

\* preinst and postrm know nothing of the job of wan.
OldJobs == DOMAIN PreinstOrder

-----------------------------------------------------------------------------
(* dpkg: an operation is the parts it runs, one after the other.  The prerm  *)
(* and the postrm of an upgrade are those of the old package.                *)

Parts ==
  [install |-> [preinst |-> "unpack", unpack |-> "postinst", postinst |-> "end"],
   upgrade |-> [prerm |-> "preinst", preinst |-> "unpack", unpack |-> "postrm",
                postrm |-> "postinst", postinst |-> "end"],
   remove  |-> [prerm |-> "delete", delete |-> "postrm", postrm |-> "end"]]

Idle == operation = "none"

\* part runs next, of the operation what.
Runs(what, part) ==
  /\ operation' = what
  /\ script' = part
  /\ step' = Treated(part)

Begin(what, part) ==
  /\ Idle
  /\ dpkg' = "broken"
  /\ Runs(what, part)
  /\ UNCHANGED <<enabled, files, up>>

Install ==
  /\ dpkg \in {"none", "broken"}
  /\ Begin("install", "preinst")

Upgrade ==
  /\ dpkg \in {"configurable", "installed"}
  /\ Begin("upgrade", "prerm")

Uninstall ==
  /\ dpkg \in {"configurable", "installed"}
  /\ Begin("remove", "prerm")

\* dpkg --configure, after a postinst that failed or was cut off.
Configure ==
  /\ Idle /\ dpkg = "configurable"
  /\ Runs("install", "postinst")
  /\ UNCHANGED <<dpkg, enabled, files, up>>

Stopped == operation' = "none" /\ script' = "end" /\ step' = {}

\* What follows the part that ends, and the state dpkg notes after the last.
Proceed(last) ==
  LET next == Parts[operation][script] IN
  IF next = "end"
    THEN Stopped /\ dpkg' = last
    ELSE /\ Runs(operation, next)
         /\ dpkg' = IF next = "postinst" THEN "configurable" ELSE dpkg

Unpack ==
  /\ script = "unpack"
  /\ jobs' = Services /\ base' = TRUE /\ dist' = TRUE
  /\ Proceed("configurable")
  /\ UNCHANGED <<enabled, up>>

Delete ==
  /\ script = "delete"
  /\ jobs' = {} /\ base' = FALSE /\ dist' = FALSE
  /\ Proceed("broken")
  /\ UNCHANGED <<enabled, up>>

-----------------------------------------------------------------------------
(* The maintainer scripts, one step per service. *)

\* s is the next service the running script treats.
NextService(s) == s \in step /\ \A t \in step : Order[script][s] <= Order[script][t]

Treat(part, s) ==
  /\ script = part
  /\ NextService(s)
  /\ step' = step \ {s}
  /\ UNCHANGED <<dpkg, operation, script, enabled, base, dist>>

\* prerm stops a service that is asked for, then deletes its job.
PrermService(s) ==
  /\ Treat("prerm", s)
  /\ up' = up \ (jobs \cap enabled \cap {s})
  /\ jobs' = jobs \ (enabled \cap {s})

KeptRunning(s) == up                                   \* mutant: of StoppedFirst

\* preinst stops a service that has a job and is asked for ...
StoppedFirst(s) == up \ (jobs \cap enabled \cap {s})

\* ... and deletes the job in any case.
PreinstService(s) ==
  /\ Treat("preinst", s)
  /\ up' = StoppedFirst(s)
  /\ jobs' = jobs \ {s}

\* service chaos-<s> start succeeds only so; it may fail all the same.
Startable == IF base THEN jobs \ up ELSE {}

\* chaos-service ends quietly when it lacks the program or its configuration.
Started(s) == {up} \cup (IF dist THEN {up \cup {s}} ELSE {})

PostinstService(s) ==
  /\ Treat("postinst", s)
  /\ IF s \in enabled
       THEN s \in Startable /\ up' \in Started(s)
       ELSE UNCHANGED up
  /\ UNCHANGED jobs

Overlooked(s) ==                                       \* mutant: of StartFails
  /\ Treat("postinst", s)
  /\ s \in enabled
  /\ UNCHANGED <<jobs, up>>

\* The service does not start: exit 1, dpkg leaves the package unconfigured.
StartFails(s) ==
  /\ script = "postinst" /\ NextService(s)
  /\ s \in enabled
  /\ Stopped
  /\ UNCHANGED <<dpkg, enabled, files, up>>

EndOfPrerm ==
  /\ script = "prerm" /\ step = {}
  /\ Proceed("broken")
  /\ UNCHANGED <<enabled, files, up>>

EndOfPreinst ==
  /\ script = "preinst" /\ step = {}
  /\ base' = FALSE
  /\ Proceed("broken")
  /\ UNCHANGED <<enabled, jobs, dist, up>>

EndOfPostinst ==
  /\ script = "postinst" /\ step = {}
  /\ Proceed("installed")
  /\ UNCHANGED <<enabled, files, up>>

\* postrm deletes the programs and the jobs it knows.  The variables it tests
\* before it stops a service are never set in it: it stops none.
Postrm ==
  /\ script = "postrm"
  /\ dist' = FALSE /\ base' = FALSE
  /\ jobs' = jobs \ OldJobs
  /\ Proceed("none")
  /\ UNCHANGED <<enabled, up>>

-----------------------------------------------------------------------------
(* The host. *)

\* The questions are answered before the package is installed.
Answer ==
  /\ Idle
  /\ dpkg = "none"
  /\ enabled' \in AskSets \ {enabled}
  /\ UNCHANGED <<dpkg, operation, script, step, files, up>>

Die(s) ==
  /\ s \in up
  /\ up' = up \ {s}
  /\ UNCHANGED <<dpkg, operation, script, step, enabled, files>>

CutOff ==                                              \* mutant: of Boot
  /\ up' \in SUBSET (IF base /\ dist THEN jobs ELSE {})
  /\ operation' = "none" /\ script' = "end"
  /\ UNCHANGED <<dpkg, step, enabled, files>>

\* A boot into runlevel 3, 4 or 5 starts the jobs there are, asked for or
\* not, those that can start; runlevel 2 starts none.  It cuts off dpkg.
Boot ==
  /\ up' \in SUBSET (IF base /\ dist THEN jobs ELSE {})
  /\ Stopped
  /\ UNCHANGED <<dpkg, enabled, files>>

-----------------------------------------------------------------------------
Dpkg == Install \/ Upgrade \/ Uninstall \/ Configure \/ Unpack \/ Delete

Script ==
  \/ \E s \in Services :
       PrermService(s) \/ PreinstService(s) \/ PostinstService(s) \/ StartFails(s)
  \/ EndOfPrerm \/ EndOfPreinst \/ EndOfPostinst \/ Postrm

Next == Dpkg \/ Script \/ Answer \/ Boot \/ \E s \in Services : Die(s)

Spec == Init /\ [][Next]_vars

-----------------------------------------------------------------------------
(* Properties. *)

\* The variables keep their types: dpkg is at a part of its operation, and only
\* a script that treats services has some left.
TypeOK ==
  /\ dpkg \in {"none", "broken", "configurable", "installed"}
  /\ \/ operation \in DOMAIN Parts /\ script \in DOMAIN Parts[operation]
     \/ operation = "none" /\ script = "end"
  /\ step \subseteq Treated(script)
  /\ enabled \in AskSets
  /\ jobs \subseteq Services /\ up \subseteq Services
  /\ base \in BOOLEAN /\ dist \in BOOLEAN

\* The programs are never deleted under a running service that was asked for,
\* whatever was interrupted before (prerm against postrm's rm -rf $INSTDIR).
DeletesNothingInUse == [][dist /\ ~dist' => up \cap enabled = {}]_vars

\* A removal that dpkg notes as done leaves nothing behind that runs or could be
\* started: no service that was asked for, no job, not chaos-service and not the
\* programs, whatever upgrades failed or were cut off before it.
RemovalComplete ==
  [][dpkg # "none" /\ dpkg' = "none"
       => jobs' = {} /\ ~base' /\ ~dist' /\ up' \cap enabled' = {}]_vars

\* No service that was asked for loses its job while it runs: after that
\* nothing on the host can stop it (the rm -f lines of preinst, prerm, postrm
\* and the files dpkg deletes).
NoOrphan ==
  [][\A s \in enabled : s \in jobs \cap up /\ s \notin jobs' => s \notin up']_vars

\* The scripts stop the metadata server after all the services that use it;
\* preinst, after a cut-off upgrade, does not know of wan (StopOrder).
MdsStopsLast ==
  [][\A s \in enabled :
       step \ step' = {"mds"} /\ script' = script /\ "mds" \in up \ up'
         => s \notin up' \/ (s = "wan" /\ script = "preinst")]_vars

\* What dpkg notes as installed can be started: the jobs of the services asked
\* for, chaos-service and the programs are there, after any upgrades, failed
\* starts and interruptions.  (With no service asked for nothing is started and
\* an upgrade is installed although the old postrm has deleted its files.)
InstalledCanStart ==
  dpkg = "installed" /\ enabled # {} => enabled \subseteq jobs /\ base /\ dist

\* postinst says that it is "installing $PACKAGE_NAME and services": it finds
\* the jobs of the services it starts.  Violated: in an upgrade the postrm of
\* the old package deletes them after the new ones were unpacked.
PostinstHasJobs == script = "postinst" => enabled \subseteq jobs
=============================================================================
