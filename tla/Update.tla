------------------------------- MODULE Update -------------------------------
(* The self-update of the installed program (modules/update): check for a     *)
(* release, snapshot the environment, upgrade the package, sync the browser,  *)
(* verify, and roll back when the verdict is bad.  pip, git, playwright and   *)
(* the GitHub API are external: each call may fail, and a failed install may  *)
(* leave a part behind.  The process may die between two steps.               *)
EXTENDS Integers

CONSTANTS
    MaxVersion,   \* bound: releases 1..MaxVersion
    MaxCommands,  \* bound: update and rollback commands given
    SystemChrome  \* a Chromium is on the PATH beside the cache

ASSUME UpdateAssumption ==
    MaxVersion \in Nat \ {0} /\ MaxCommands \in Nat /\ SystemChrome \in BOOLEAN

VARIABLES
    env,       \* what is installed: [pkg, deps, builds], see UpdateInit
    snapshot,  \* pip-freeze.txt: [kind, pkg, deps]
    checkout,  \* the version of the source checkout in use; NoRelease when there is none
    latest,    \* the newest release published
    fit,       \* workspace, sessions, output directory and variables pass the doctor
    pc,        \* the step the running command takes next
    cmd,       \* the running command, see NoCommand
    report,    \* what the last command reported: [kind, healthy, rollback, goal]
    commands   \* commands given so far

updateVars == <<env, snapshot, checkout, latest, fit, pc, cmd, report, commands>>

Versions == 1..MaxVersion
NoRelease == 0  \* no release: an absent package reports 0.0.0-dev, which no tag names

\* prev: the version found; target: the release checked; ok: every step so far
\* succeeded; sound: every executed step of the rollback did; restores: the
\* command is itself a rollback; fresh, start: history, whether the snapshot is
\* this command's own, and the environment it found.
NoCommand == [force |-> FALSE, prev |-> NoRelease, target |-> NoRelease, ok |-> TRUE,
         sound |-> TRUE, restores |-> FALSE, fresh |-> FALSE,
         start |-> [pkg |-> NoRelease, deps |-> NoRelease]]

Silent == [kind |-> "none", healthy |-> FALSE, rollback |-> "none", goal |-> NoRelease]

UpdateInit ==
    /\ env = [pkg |-> 1, deps |-> 1, builds |-> {1}]
    /\ snapshot = [kind |-> "none", pkg |-> NoRelease, deps |-> NoRelease]
    /\ checkout \in {NoRelease, 1}
    /\ latest = 1
    /\ fit \in BOOLEAN
    /\ pc = "idle"
    /\ cmd = NoCommand
    /\ report = Silent
    /\ commands = 0

ChromiumPresent == SystemChrome \/ env.builds # {}

\* Mutant: the browser is synced before the package.
BrowserFirst == [check |-> "snapshot", snapshot |-> "sync", sync |-> "upgrade",
                 upgrade |-> "verify"]

\* Mutant: the snapshot is taken after the package was upgraded.
SnapshotLate == [check |-> "upgrade", upgrade |-> "snapshot", snapshot |-> "sync",
                 sync |-> "verify"]

\* The steps of an update, in their order.
After == [check |-> "snapshot", snapshot |-> "upgrade", upgrade |-> "sync",
          sync |-> "verify"]

\* The dependency trees that the constraints of release v admit today.
Resolve(v) == v..latest

\* The command ends with a report.
Report(r) == pc' = "idle" /\ report' = r /\ cmd' = NoCommand

-----------------------------------------------------------------------------
(* Calls to the outside.                                                     *)

\* pip install of release v, with its dependencies or without.
Installed(v, trees) == {[env EXCEPT !.pkg = v, !.deps = d] : d \in trees}
Broken(trees) == UNION {Installed(p, trees \cup {env.deps}) : p \in {env.pkg, NoRelease}}

\* A forced sync purges the cached builds, those it can delete; the installer
\* fetches the build the installed dependencies ask for and may drop the others.
Purged(force) == IF force THEN SUBSET env.builds ELSE {env.builds}
Synced(force) == {b \cup {env.deps} : b \in Purged(force) \cup {{}}}

-----------------------------------------------------------------------------
(* An update (perform_update).                                               *)

StartUpdate ==
    /\ pc = "idle" /\ commands < MaxCommands
    /\ pc' = "check"
    /\ \E force \in BOOLEAN :
          cmd' = [NoCommand EXCEPT !.force = force, !.prev = env.pkg,
                              !.start = [pkg |-> env.pkg, deps |-> env.deps]]
    /\ report' = Silent
    /\ commands' = commands + 1
    /\ UNCHANGED <<env, snapshot, checkout, latest, fit>>

\* No release can be read from GitHub: nothing is changed.
RefuseUnverifiable ==
    /\ pc = "check"
    /\ Report([Silent EXCEPT !.kind = "refused"])
    /\ UNCHANGED <<env, snapshot, checkout, latest, fit, commands>>

UpToDate ==
    /\ pc = "check"
    /\ latest <= cmd.prev /\ ~cmd.force /\ ChromiumPresent
    /\ Report([Silent EXCEPT !.kind = "uptodate", !.healthy = TRUE])
    /\ UNCHANGED <<env, snapshot, checkout, latest, fit, commands>>

Check ==
    /\ pc = "check"
    /\ latest > cmd.prev \/ cmd.force \/ ~ChromiumPresent
    /\ cmd' = [cmd EXCEPT !.target = latest]
    /\ pc' = After["check"]
    /\ UNCHANGED <<env, snapshot, checkout, latest, fit, report, commands>>

\* A failed freeze leaves the snapshot of an earlier update, a failed write a
\* torn one; neither stops the update.
CaptureSnapshot ==
    /\ pc = "snapshot"
    /\ \/ snapshot' = [kind |-> "full", pkg |-> env.pkg, deps |-> env.deps]
          /\ cmd' = [cmd EXCEPT !.fresh = TRUE]
       \/ snapshot' = snapshot /\ cmd' = cmd
       \/ snapshot' = [kind |-> "torn", pkg |-> NoRelease, deps |-> NoRelease] /\ cmd' = cmd
    /\ pc' = After["snapshot"]
    /\ UNCHANGED <<env, checkout, latest, fit, report, commands>>

StepEnds(ok) ==
    /\ cmd' = [cmd EXCEPT !.ok = @ /\ ok]
    /\ pc' = After["upgrade"]

\* A checkout is pulled; when that works and reaches the target, it is installed.
UpgradeFromCheckout ==
    /\ pc = "upgrade" /\ checkout # NoRelease
    /\ \E v \in {checkout, latest} :
          /\ v >= cmd.target
          /\ checkout' = v
          /\ \/ env' \in Installed(v, Resolve(v)) /\ StepEnds(TRUE)
             \/ env' \in Broken(Resolve(v)) /\ StepEnds(FALSE)
    /\ UNCHANGED <<snapshot, latest, fit, report, commands>>

\* The release pinned to its commit: without its dependencies when forced, or
\* when it replaces a stale checkout.
UpgradePinned ==
    /\ pc = "upgrade"
    /\ LET trees == IF cmd.force \/ checkout # NoRelease THEN {env.deps} ELSE Resolve(cmd.target)
       IN  \/ env' \in Installed(cmd.target, trees) /\ StepEnds(TRUE)
           \/ env' \in Broken(trees) /\ StepEnds(FALSE)
    /\ UNCHANGED <<snapshot, checkout, latest, fit, report, commands>>

\* The release cannot be pinned to a commit.
UpgradeRefused ==
    /\ pc = "upgrade"
    /\ StepEnds(FALSE)
    /\ UNCHANGED <<env, snapshot, checkout, latest, fit, report, commands>>

\* A failed upgrade does not keep the browser from being synced.
SyncBrowser ==
    /\ pc = "sync"
    /\ \/ \E b \in Synced(cmd.force) : env' = [env EXCEPT !.builds = b]
          /\ cmd' = cmd
       \/ \E b \in Purged(cmd.force) : env' = [env EXCEPT !.builds = b]
          /\ cmd' = [cmd EXCEPT !.ok = FALSE]
    /\ pc' = After["sync"]
    /\ UNCHANGED <<snapshot, checkout, latest, fit, report, commands>>

Postflight == ChromiumPresent
SmokeGate == ChromiumPresent /\ fit

\* The static checks, the doctor's probes, and the version reached.
Healthy == cmd.ok /\ Postflight /\ SmokeGate /\ env.pkg >= cmd.target

Accept ==
    /\ pc = "verify" /\ Healthy
    /\ Report([kind |-> "updated", healthy |-> TRUE, rollback |-> "none", goal |-> cmd.target])
    /\ UNCHANGED <<env, snapshot, checkout, latest, fit, commands>>

Reject ==
    /\ pc = "verify" /\ ~Healthy
    /\ pc' = "restore"
    /\ cmd' = [cmd EXCEPT !.target = cmd.prev]
    /\ UNCHANGED <<env, snapshot, checkout, latest, fit, report, commands>>

-----------------------------------------------------------------------------
(* A rollback (rollback_to), by an update that failed or by command.         *)

StartRollback ==
    /\ pc = "idle" /\ commands < MaxCommands
    /\ pc' = "restore"
    /\ \E v \in 1..latest :
          cmd' = [NoCommand EXCEPT !.prev = v, !.target = v, !.restores = TRUE,
                              !.start = [pkg |-> env.pkg, deps |-> env.deps]]
    /\ report' = Silent
    /\ commands' = commands + 1
    /\ UNCHANGED <<env, snapshot, checkout, latest, fit>>

Verdict(status) ==
    Report([kind |-> IF cmd.restores THEN "rollback" ELSE "updated",
            healthy |-> FALSE, rollback |-> status, goal |-> cmd.target])

\* Not automated for a checkout, and refused for a release that cannot be pinned.
SkipRestore ==
    /\ pc = "restore"
    /\ Verdict("skipped")
    /\ UNCHANGED <<env, snapshot, checkout, latest, fit, commands>>

RestorePackage ==
    /\ pc = "restore" /\ checkout = NoRelease /\ cmd.target # NoRelease
    /\ \/ /\ env' \in Installed(cmd.target, Resolve(cmd.target))
          /\ pc' = "reconcile" /\ UNCHANGED <<cmd, report>>
       \/ /\ env' \in Broken(Resolve(cmd.target))
          /\ Verdict("partial")
    /\ UNCHANGED <<snapshot, checkout, latest, fit, commands>>

\* The snapshot's pins name the package itself too.
Pinned == [env EXCEPT !.pkg = IF snapshot.pkg = NoRelease THEN @ ELSE snapshot.pkg,
                      !.deps = IF snapshot.deps = NoRelease THEN @ ELSE snapshot.deps]

Reconcile ==
    /\ pc = "reconcile"
    /\ \/ snapshot.kind = "none" /\ env' = env /\ cmd' = cmd
       \/ snapshot.kind # "none" /\ env' = Pinned /\ cmd' = cmd
       \/ snapshot.kind # "none" /\ env' \in {env, [Pinned EXCEPT !.pkg = env.pkg]}
          /\ cmd' = [cmd EXCEPT !.sound = FALSE]
    /\ pc' = "resync"
    /\ UNCHANGED <<snapshot, checkout, latest, fit, report, commands>>

RestoreBrowser ==
    /\ pc = "resync"
    /\ \/ \E b \in Synced(TRUE) : env' = [env EXCEPT !.builds = b]
          /\ Verdict(IF cmd.sound THEN "full" ELSE "partial")
       \/ \E b \in Purged(TRUE) : env' = [env EXCEPT !.builds = b]
          /\ Verdict("partial")
    /\ UNCHANGED <<snapshot, checkout, latest, fit, commands>>

-----------------------------------------------------------------------------
(* The world.                                                                *)

Die ==
    /\ pc # "idle"
    /\ pc' = "idle" /\ cmd' = NoCommand
    /\ UNCHANGED <<env, snapshot, checkout, latest, fit, report, commands>>

Publish ==
    /\ latest < MaxVersion
    /\ latest' = latest + 1
    /\ UNCHANGED <<env, snapshot, checkout, fit, pc, cmd, report, commands>>

HostChanges ==
    /\ fit' = ~fit
    /\ UNCHANGED <<env, snapshot, checkout, latest, pc, cmd, report, commands>>

CheckoutGoes ==
    /\ pc = "idle" /\ checkout # NoRelease
    /\ checkout' = NoRelease
    /\ UNCHANGED <<env, snapshot, latest, fit, pc, cmd, report, commands>>

UpdateNext ==
    \/ StartUpdate \/ RefuseUnverifiable \/ UpToDate \/ Check \/ CaptureSnapshot
    \/ UpgradeFromCheckout \/ UpgradePinned \/ UpgradeRefused \/ SyncBrowser
    \/ Accept \/ Reject
    \/ StartRollback \/ SkipRestore \/ RestorePackage \/ Reconcile \/ RestoreBrowser
    \/ Die \/ Publish \/ HostChanges \/ CheckoutGoes

UpdateSpec == UpdateInit /\ [][UpdateNext]_updateVars

-----------------------------------------------------------------------------
(* Properties.                                                               *)

\* An update reported healthy has reached the release it checked for and holds
\* the browser build that the installed dependencies ask for, whatever failed in
\* earlier updates (perform_update).
HealthyUpdate ==
    report.kind = "updated" /\ report.healthy =>
        env.pkg >= report.goal /\ env.deps \in env.builds

\* A full rollback of a failed update whose own snapshot was written leaves the
\* package and the dependency tree the update began with (rollback_to).
RollbackRestores ==
    [][ pc = "resync" /\ report'.kind = "updated" /\ report'.rollback = "full" /\ cmd.fresh =>
          env'.pkg = cmd.start.pkg /\ env'.deps = cmd.start.deps ]_updateVars

=============================================================================
