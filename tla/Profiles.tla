------------------------------ MODULE Profiles ------------------------------
(* One browser profile of the pool (modules/browser lifecycle, the session   *)
(* cloner and the session backups): the browsers that are launched on it or  *)
(* on clones of it, Chromium's singleton lock, the generations of backups    *)
(* kept inside it, and an operator's restore.                                *)
EXTENDS Integers, Sequences, SequencesExt

CONSTANTS
    Runs,             \* what may use the profile: prompt jobs, probes, logins
    Wirings,          \* how a prompt job gets its directory: see Wiring
    MaxGenerations,   \* DEFAULT_MAX_GENERATIONS of take_snapshot
    MaxStarts,        \* bound: the runs started in a behaviour
    MaxDays           \* bound: how often a day passes

\* "direct" is what the containers wire: browser_session on cfg.session_path.
\* "prepared" is a caller that passes the path ProfilePreparer.prepare yields.
Wiring == {"direct", "prepared"}

ASSUME ProfilesAssumption ==
    /\ Wirings \subseteq Wiring
    /\ MaxGenerations \in Nat \ {0}
    /\ MaxStarts \in Nat
    /\ MaxDays \in Nat
    /\ "master" \notin Runs

VARIABLES
    wiring,    \* fixed at the start
    lock,      \* per directory, the browser its SingletonLock names
    run,       \* what each run does: see Idle
    clones,    \* the ephemeral clones on disk, named by the run that made them
    master,    \* the content of the profile: "whole", "part" or "empty"
    gens,      \* the backups, oldest first: [stamp, whole, recent]
    starts,    \* runs started
    days       \* days passed

vars == <<wiring, lock, run, clones, master, gens, starts, days>>

Master == "master"
Dirs == Runs \cup {Master}
None == "none"
Stale == "stale"      \* a lock whose browser is gone

Kinds == {"prompt", "probe", "renew", "login"}
Attempts == 3         \* stop_after_attempt of _launch_context

Idle == [pc |-> "idle", kind |-> "prompt", dir |-> Master, tries |-> 0, stamp |-> 0]

Init ==
    /\ wiring \in Wirings
    /\ lock = [d \in Dirs |-> None]
    /\ run = [r \in Runs |-> Idle]
    /\ clones = {}
    /\ master \in {"whole", "empty"}
    /\ gens = <<>>
    /\ starts = 0
    /\ days = 0

Go(r, pc) == run' = [run EXCEPT ![r].pc = pc]

-----------------------------------------------------------------------------
(* Launching a browser.                                                      *)

\* Only browser_session takes a prepared path; the probe of a session's health
\* and the renewal drop theirs and open the profile itself.
Clones(kind) == wiring = "prepared" /\ kind = "prompt"

StartRun(r) ==
    /\ run[r].pc = "idle"
    /\ starts < MaxStarts
    /\ starts' = starts + 1
    /\ \E k \in Kinds :
         run' = [run EXCEPT ![r] = [Idle EXCEPT !.kind = k,
                                      !.pc = IF Clones(k) THEN "prepare" ELSE "clean"]]
    /\ UNCHANGED <<wiring, lock, clones, master, gens, days>>

\* create_ephemeral_session clears the lock files of the master it will copy.
Prepare(r) ==
    /\ run[r].pc = "prepare"
    /\ lock' = [lock EXCEPT ![Master] = None]
    /\ Go(r, "clone")
    /\ UNCHANGED <<wiring, clones, master, gens, starts, days>>

\* Clones left by a crash more than a day ago are swept with the first clone of
\* a process.
SweepOf(r) == {c \in clones : c # r /\ run[c].pc = "idle" /\ days > 0}

\* Mutant: the clone is a second name of the master.
CloneInPlace(r) ==
    /\ run[r].pc = "clone"
    /\ run' = [run EXCEPT ![r].pc = "clean"]
    /\ UNCHANGED <<wiring, lock, clones, master, gens, starts, days>>

\* The copy leaves lock files behind.
Clone(r) ==
    /\ run[r].pc = "clone"
    /\ \E swept \in {{}, SweepOf(r)} : clones' = (clones \ swept) \cup {r}
    /\ lock' = [lock EXCEPT ![r] = None]
    /\ run' = [run EXCEPT ![r].pc = "clean", ![r].dir = r]
    /\ UNCHANGED <<wiring, master, gens, starts, days>>

\* _launch_context removes the singleton files whoever they belong to.
CleanLocks(r) ==
    /\ run[r].pc = "clean"
    /\ lock' = [lock EXCEPT ![run[r].dir] = None]
    /\ Go(r, "launch")
    /\ UNCHANGED <<wiring, clones, master, gens, starts, days>>

\* Chromium takes a directory whose lock is free.
Launch(r) ==
    /\ run[r].pc = "launch"
    /\ lock[run[r].dir] = None
    /\ lock' = [lock EXCEPT ![run[r].dir] = r]
    /\ Go(r, "open")
    /\ UNCHANGED <<wiring, clones, master, gens, starts, days>>

\* It dies, or finds the lock taken; before the next attempt the files are
\* removed again, and after the last one the error goes to the caller.
LaunchFails(r) ==
    /\ run[r].pc = "launch"
    /\ IF run[r].tries + 1 < Attempts
       THEN /\ lock' = [lock EXCEPT ![run[r].dir] = None]
            /\ run' = [run EXCEPT ![r].tries = @ + 1]
       ELSE Go(r, "leave") /\ UNCHANGED lock
    /\ UNCHANGED <<wiring, clones, master, gens, starts, days>>

\* The context closes, after an answer or an exception; what the browser wrote is
\* on disk.  A login whose profile validates goes on to the snapshot.
Close(r) ==
    /\ run[r].pc = "open"
    /\ lock' = [lock EXCEPT ![run[r].dir] = IF @ = r THEN None ELSE @]
    /\ master' = IF run[r].dir = Master /\ run[r].kind = "login" THEN "whole" ELSE master
    /\ \E next \in {"leave"} \cup (IF run[r].kind = "login" THEN {"snapshot"} ELSE {}) :
         Go(r, next)
    /\ UNCHANGED <<wiring, clones, gens, starts, days>>

\* The temporary directory of a clone goes with its context manager.
Leave(r) ==
    /\ run[r].pc = "leave"
    /\ clones' = clones \ {r}
    /\ run' = [run EXCEPT ![r] = Idle]
    /\ UNCHANGED <<wiring, lock, master, gens, starts, days>>

-----------------------------------------------------------------------------
(* Backups.                                                                  *)

Newest == IF gens = <<>> THEN 0 ELSE Last(gens).stamp

\* take_snapshot opens a generation named by the second; one of the same second
\* is written over.
OpenGeneration(r) ==
    /\ run[r].pc = "snapshot"
    /\ \/ /\ gens' = Append(gens, [stamp |-> Newest + 1, whole |-> FALSE, recent |-> TRUE])
          /\ run' = [run EXCEPT ![r].pc = "copy", ![r].stamp = Newest + 1]
       \/ /\ gens # <<>> /\ Last(gens).recent
          /\ gens' = [gens EXCEPT ![Len(gens)].whole = FALSE]
          /\ run' = [run EXCEPT ![r].pc = "copy", ![r].stamp = Newest]
    /\ UNCHANGED <<wiring, lock, clones, master, starts, days>>

CopyProfile(r) ==
    /\ run[r].pc = "copy"
    /\ gens' = [i \in DOMAIN gens |->
                  IF gens[i].stamp = run[r].stamp THEN [gens[i] EXCEPT !.whole = TRUE] ELSE gens[i]]
    /\ Go(r, "prune")
    /\ UNCHANGED <<wiring, lock, clones, master, starts, days>>

\* A full disk: the login succeeds without its backup, and what was copied stays.
CopyFails(r) ==
    /\ run[r].pc = "copy"
    /\ Go(r, "leave")
    /\ UNCHANGED <<wiring, lock, clones, master, gens, starts, days>>

\* Mutant: the generations kept are the oldest ones.
RetainedOldest(g) ==
    IF Len(g) <= MaxGenerations THEN g ELSE SubSeq(g, 1, MaxGenerations)

\* The newest MaxGenerations stay; one more does when it is the only one above
\* the cap and less than a day old.
Retained(g) ==
    LET over == Len(g) - MaxGenerations
    IN  IF over <= 0 \/ (over = 1 /\ g[1].recent) THEN g
        ELSE SubSeq(g, over + 1, Len(g))

Prune(r) ==
    /\ run[r].pc = "prune"
    /\ gens' = Retained(gens)
    /\ Go(r, "leave")
    /\ UNCHANGED <<wiring, lock, clones, master, starts, days>>

\* An operator restores the newest generation: the profile is emptied in place,
\* its backups excepted, then filled from the copy.
StartRestore(r) ==
    /\ run[r].pc = "idle"
    /\ gens # <<>>
    /\ starts < MaxStarts
    /\ starts' = starts + 1
    /\ run' = [run EXCEPT ![r] = [Idle EXCEPT !.pc = "refill", !.stamp = Newest]]
    /\ master' = "empty"
    /\ UNCHANGED <<wiring, lock, clones, gens, days>>

\* A generation pruned meanwhile leaves the profile empty without an error.
Refill(r) ==
    /\ run[r].pc = "refill"
    /\ LET found == SelectSeq(gens, LAMBDA g : g.stamp = run[r].stamp)
       IN  master' = IF found = <<>> THEN "empty"
                     ELSE IF found[1].whole THEN "whole" ELSE "part"
    /\ Go(r, "leave")
    /\ UNCHANGED <<wiring, lock, clones, gens, starts, days>>

-----------------------------------------------------------------------------
(* The environment.                                                          *)

\* A process is killed: its browser's lock names nobody, its clone stays.
Crash(r) ==
    /\ run[r].pc # "idle"
    /\ run' = [run EXCEPT ![r] = Idle]
    /\ lock' = [d \in Dirs |-> IF lock[d] = r THEN Stale ELSE lock[d]]
    /\ UNCHANGED <<wiring, clones, master, gens, starts, days>>

DayPasses ==
    /\ days < MaxDays
    /\ days' = days + 1
    /\ \A r \in Runs : run[r].pc # "copy"
    /\ gens' = [i \in DOMAIN gens |-> [gens[i] EXCEPT !.recent = FALSE]]
    /\ UNCHANGED <<wiring, lock, run, clones, master, starts>>

Step(r) ==
    \/ Prepare(r) \/ Clone(r) \/ CleanLocks(r) \/ Launch(r) \/ LaunchFails(r) \/ Close(r)
    \/ OpenGeneration(r) \/ CopyProfile(r) \/ CopyFails(r) \/ Prune(r) \/ Refill(r) \/ Leave(r)

Next ==
    \/ \E r \in Runs : StartRun(r) \/ StartRestore(r) \/ Step(r) \/ Crash(r)
    \/ DayPasses

Spec == Init /\ [][Next]_vars

-----------------------------------------------------------------------------
(* Properties.                                                               *)

On(d) == {r \in Runs : run[r].pc = "open" /\ run[r].dir = d}
Alone(d) == \A r, s \in On(d) : r = s

\* A prompt job that was given a prepared directory works on a clone of its own:
\* no other browser runs there, and it never touches the master, whatever
\* logins, probes, sweeps and crashes go on beside it (create_ephemeral_session,
\* sweep_stale_clones, browser_session).
ClonesArePrivate ==
    wiring = "prepared" =>
        /\ \A r \in Runs : Alone(r)
        /\ \A r \in On(Master) : run[r].kind # "prompt"
        /\ \A r \in Runs : run[r].pc = "open" /\ run[r].kind = "prompt" => r \in clones

Backed == \E i \in DOMAIN gens : gens[i].whole

\* A profile that has a complete backup keeps one, through failed copies, kills
\* and prunings, unless a snapshot begun in the same second writes over it, or
\* another login's snapshot has begun before this one's pruning (take_snapshot,
\* _prune_old_snapshots).
WholeBackupKept ==
    [][Backed /\ ~Backed' =>
        \E r \in Runs :
            \/ run[r].pc = "snapshot" /\ run'[r].stamp = Newest
            \/ /\ run[r].pc = "prune"
               /\ ~(Last(gens).stamp = run[r].stamp /\ Last(gens).whole)]_vars

\* Each browser has its profile directory to itself, so that jobs can run in
\* parallel (browser_session).
ProfileHasOneBrowser == \A d \in Dirs : Alone(d)
=============================================================================
