----------------------------- MODULE HostProofs -----------------------------
(* Proofs about what stays on the host between runs: the browser profile with *)
(* its clones and backups (Profiles), for any number of runs, wirings and     *)
(* generations, and the installed program (Update), for any number of         *)
(* releases and commands.                                                     *)
EXTENDS Profiles, Update, TLAPS

-----------------------------------------------------------------------------
(* The profile: types and the invariant.                                     *)

Generations == [stamp : Nat, whole : BOOLEAN, recent : BOOLEAN]
RunStates ==
    [pc : {"idle", "prepare", "clone", "clean", "launch", "open", "leave",
           "snapshot", "copy", "prune", "refill"},
     kind : Kinds, dir : Dirs, tries : Nat, stamp : Nat]

ProfileTyped ==
    /\ wiring \in Wiring
    /\ lock \in [Dirs -> Runs \cup {None, Stale}]
    /\ run \in [Runs -> RunStates]
    /\ clones \subseteq Runs
    /\ master \in {"whole", "part", "empty"}
    /\ gens \in Seq(Generations)
    /\ starts \in Nat /\ days \in Nat

\* A run works on the profile itself or on its own clone; the clone is on disk as
\* long as the run is under way, and a prompt job handed a prepared path has one
\* before its browser is launched.
DirectoryInv ==
    \A r \in Runs :
        /\ run[r].dir \in {Master, r}
        /\ run[r].dir = r => r \in clones /\ run[r].pc # "idle"
        /\ Clones(run[r].kind) /\ run[r].pc \in {"clean", "launch", "open"} => run[r].dir = r

ProfileInv == ProfileTyped /\ DirectoryInv

-----------------------------------------------------------------------------
(* The profile: its steps.                                                   *)

\* A run that does nothing.
LEMMA IdleRun == Idle \in RunStates /\ Idle.dir = Master /\ Idle.pc = "idle"
  BY SMT DEF Idle, RunStates, Kinds, Dirs

\* The invariant holds at the start.
LEMMA ProfileInit == Init => ProfileInv
<1> SUFFICES ASSUME Init PROVE ProfileInv
  OBVIOUS
<1>1. \A r \in Runs : run[r] = Idle
  BY DEF Init
<1>2. ProfileTyped
  BY IdleRun, ProfilesAssumption, SMT DEF Init, ProfileTyped
<1>3. \A r \in Runs : r # Master
  BY ProfilesAssumption DEF Master
<1> QED
  BY <1>1, <1>2, <1>3, IdleRun, SMT DEF ProfileInv, DirectoryInv

\* The backups stay backups.
LEMMA BackupTypes ==
  ASSUME ProfileTyped, [Next]_vars
  PROVE  gens' \in Seq(Generations) /\ Newest \in Nat
<1>1. gens \in Seq(Generations) /\ Len(gens) \in Nat
  BY DEF ProfileTyped
<1>2. gens # <<>> => gens[Len(gens)] \in Generations /\ Last(gens) = gens[Len(gens)]
  BY <1>1, SMT DEF Last
<1>9. Newest \in Nat
  <2>1. gens # <<>> => gens[Len(gens)].stamp \in Nat
    BY <1>2, SMT DEF Generations
  <2> QED
    BY <1>2, <2>1, SMT DEF Newest
<1>3. ASSUME NEW r \in Runs, OpenGeneration(r) PROVE gens' \in Seq(Generations)
  <2>1. [stamp |-> Newest + 1, whole |-> FALSE, recent |-> TRUE] \in Generations
    <3>1. Newest + 1 \in Nat
      BY <1>9, SMT
    <3> QED
      BY <3>1, Zenon DEF Generations
  <2>2. gens # <<>> => [gens EXCEPT ![Len(gens)].whole = FALSE] \in Seq(Generations)
    <3> SUFFICES ASSUME gens # <<>> PROVE [gens EXCEPT ![Len(gens)].whole = FALSE] \in Seq(Generations)
      OBVIOUS
    <3>1. [gens[Len(gens)] EXCEPT !.whole = FALSE] \in Generations
      <4>1. gens[Len(gens)] \in Generations
        BY <1>2
      <4> QED
        BY <4>1, Zenon DEF Generations
    <3> DEFINE g == [gens[Len(gens)] EXCEPT !.whole = FALSE]
    <3>2. [gens EXCEPT ![Len(gens)].whole = FALSE] = [gens EXCEPT ![Len(gens)] = g]
      OBVIOUS
    <3> HIDE DEF g
    <3>3. g \in Generations
      BY <3>1 DEF g
    <3>4. [gens EXCEPT ![Len(gens)] = g] \in Seq(Generations)
      BY <1>1, <3>3, SMT
    <3> QED
      BY <3>2, <3>4
  <2>3. Append(gens, [stamp |-> Newest + 1, whole |-> FALSE, recent |-> TRUE]) \in Seq(Generations)
    BY <1>1, <2>1, SMT
  <2>4. \/ gens' = Append(gens, [stamp |-> Newest + 1, whole |-> FALSE, recent |-> TRUE])
        \/ gens # <<>> /\ gens' = [gens EXCEPT ![Len(gens)].whole = FALSE]
    BY <1>3, Zenon DEF OpenGeneration
  <2> QED
    BY <2>2, <2>3, <2>4, Zenon
<1>4. ASSUME NEW r \in Runs, CopyProfile(r) PROVE gens' \in Seq(Generations)
  <2>1. \A i \in DOMAIN gens : [gens[i] EXCEPT !.whole = TRUE] \in Generations /\ gens[i] \in Generations
    <3>1. \A i \in DOMAIN gens : gens[i] \in Generations
      BY <1>1, SMT
    <3> QED
      BY <3>1, Zenon DEF Generations
  <2>2. gens' \in [1..Len(gens) -> Generations]
    BY <1>1, <1>4, <2>1, SMT DEF CopyProfile
  <2> QED
    BY <1>1, <2>2, SMT
<1>5. ASSUME NEW r \in Runs, Prune(r) PROVE gens' \in Seq(Generations)
  BY <1>1, <1>5, ProfilesAssumption, SMT DEF Prune, Retained
<1>6. ASSUME DayPasses PROVE gens' \in Seq(Generations)
  <2>1. \A i \in DOMAIN gens : [gens[i] EXCEPT !.recent = FALSE] \in Generations
    <3>1. \A i \in DOMAIN gens : gens[i] \in Generations
      BY <1>1, SMT
    <3> QED
      BY <3>1, Zenon DEF Generations
  <2>2. gens' \in [1..Len(gens) -> Generations]
    BY <1>1, <1>6, <2>1, SMT DEF DayPasses
  <2> QED
    BY <1>1, <2>2, SMT
<1>7. ASSUME UNCHANGED gens PROVE gens' \in Seq(Generations)
  BY <1>1, <1>7, Zenon
<1> QED
  BY <1>9, <1>3, <1>4, <1>5, <1>6, <1>7
  DEF Next, vars, Step, StartRun, StartRestore, Crash, Prepare, Clone, CleanLocks, Launch,
      LaunchFails, Close, CopyFails, Refill, Leave

\* One run moves, and no other loses its clone.
LEMMA RunMoves ==
  ASSUME ProfileInv, NEW r \in Runs, NEW n \in RunStates, run' = [run EXCEPT ![r] = n],
         wiring' = wiring, clones' \subseteq Runs,
         n.dir \in {Master, r},
         n.dir = r => r \in clones' /\ n.pc # "idle",
         Clones(n.kind) /\ n.pc \in {"clean", "launch", "open"} => n.dir = r,
         \A s \in clones : s = r \/ s \in clones' \/ run[s].pc = "idle"
  PROVE  run' \in [Runs -> RunStates] /\ DirectoryInv'
<1>1. run \in [Runs -> RunStates] /\ DirectoryInv
  BY DEF ProfileInv, ProfileTyped
<1>2. run' \in [Runs -> RunStates]
  BY <1>1
<1>3. run'[r] = n /\ \A s \in Runs \ {r} : run'[s] = run[s]
  BY <1>1
<1>4. \A k : Clones(k)' = Clones(k)
  BY DEF Clones
<1>5. ASSUME NEW s \in Runs
      PROVE  /\ run'[s].dir \in {Master, s}
             /\ run'[s].dir = s => s \in clones' /\ run'[s].pc # "idle"
             /\ wiring = "prepared" /\ run'[s].kind = "prompt" /\ run'[s].pc \in {"clean", "launch", "open"}
                  => run'[s].dir = s
  <2>1. CASE s = r
    BY <1>3, <2>1 DEF Clones
  <2>2. CASE s # r
    BY <1>1, <1>3, <2>2 DEF DirectoryInv, Clones
  <2> QED
    BY <2>1, <2>2
<1> QED
  BY <1>2, <1>5 DEF DirectoryInv, Clones

\* Where a run goes, the run and its clone stay what they are.
LEMMA GoMoves ==
  ASSUME ProfileInv, NEW r \in Runs, NEW p \in {"clean", "launch", "open", "leave", "snapshot",
                                                "copy", "prune", "clone"},
         Go(r, p), run[r].pc # "idle", UNCHANGED <<wiring, clones>>,
         p \in {"clean", "launch", "open"} => run[r].pc \in {"clean", "launch", "open"}
  PROVE  run' \in [Runs -> RunStates] /\ DirectoryInv'
<1> DEFINE n == [run[r] EXCEPT !.pc = p]
<1>1. run[r] \in RunStates /\ DirectoryInv /\ clones \subseteq Runs
  BY DEF ProfileInv, ProfileTyped
<1>2. n \in RunStates /\ n.pc = p /\ n.dir = run[r].dir /\ n.kind = run[r].kind
  BY <1>1, Zenon DEF RunStates
<1>3. run' = [run EXCEPT ![r] = n]
  BY DEF Go
<1> HIDE DEF n
<1>4. /\ n.dir \in {Master, r}
      /\ n.dir = r => r \in clones /\ n.pc # "idle"
      /\ Clones(n.kind) /\ n.pc \in {"clean", "launch", "open"} => n.dir = r
  BY <1>1, <1>2 DEF DirectoryInv
<1> QED
  BY <1>1, <1>2, <1>3, <1>4, RunMoves

\* Every run that ends or dies is idle again.
LEMMA IdleMoves ==
  ASSUME ProfileInv, NEW r \in Runs, run' = [run EXCEPT ![r] = Idle],
         wiring' = wiring, clones' \in {clones, clones \ {r}}
  PROVE  run' \in [Runs -> RunStates] /\ DirectoryInv'
<1>1. r # Master
  BY ProfilesAssumption DEF Master
<1>2. clones \subseteq Runs
  BY DEF ProfileInv, ProfileTyped
<1> QED
  BY <1>1, <1>2, IdleRun, RunMoves

\* A run begins, as a browser's user or as a restore.
LEMMA BeginStep ==
  ASSUME ProfileInv, NEW r \in Runs, StartRun(r) \/ StartRestore(r), Newest \in Nat
  PROVE  run' \in [Runs -> RunStates] /\ DirectoryInv'
<1>0. r # Master /\ clones \subseteq Runs /\ UNCHANGED <<wiring, clones>>
  BY ProfilesAssumption DEF Master, ProfileInv, ProfileTyped, StartRun, StartRestore
<1>1. ASSUME StartRun(r) PROVE run' \in [Runs -> RunStates] /\ DirectoryInv'
  <2>1. PICK k \in Kinds :
          run' = [run EXCEPT ![r] = [Idle EXCEPT !.kind = k,
                                       !.pc = IF Clones(k) THEN "prepare" ELSE "clean"]]
    BY <1>1 DEF StartRun
  <2> DEFINE p == IF Clones(k) THEN "prepare" ELSE "clean"
             n == [Idle EXCEPT !.kind = k, !.pc = p]
  <2>2. p \in {"prepare", "clean"} /\ (Clones(k) => p = "prepare")
    OBVIOUS
  <2>3. run' = [run EXCEPT ![r] = n]
    BY <2>1
  <2> HIDE DEF p
  <2>4. n \in RunStates /\ n.kind = k /\ n.pc = p /\ n.dir = Master
    BY <2>2, IdleRun, Zenon DEF RunStates
  <2> HIDE DEF n
  <2> QED
    BY <1>0, <2>2, <2>3, <2>4, RunMoves
<1>2. ASSUME StartRestore(r) PROVE run' \in [Runs -> RunStates] /\ DirectoryInv'
  <2> DEFINE n == [Idle EXCEPT !.pc = "refill", !.stamp = Newest]
  <2>1. run' = [run EXCEPT ![r] = n]
    BY <1>2 DEF StartRestore
  <2>2. n \in RunStates /\ n.pc = "refill" /\ n.dir = Master
    BY IdleRun, Zenon DEF RunStates
  <2> HIDE DEF n
  <2> QED
    BY <1>0, <2>1, <2>2, RunMoves
<1> QED
  BY <1>1, <1>2

\* A launch, its clone and its retries.
LEMMA LaunchStep ==
  ASSUME ProfileInv, NEW r \in Runs,
         Prepare(r) \/ Clone(r) \/ CleanLocks(r) \/ Launch(r) \/ LaunchFails(r) \/ Close(r)
  PROVE  run' \in [Runs -> RunStates] /\ DirectoryInv'
<1>0. /\ run[r] \in RunStates /\ DirectoryInv /\ clones \subseteq Runs
      /\ r # Master
  BY ProfilesAssumption DEF ProfileInv, ProfileTyped, Master
<1>1. CASE Prepare(r)
  BY <1>1, GoMoves DEF Prepare
<1>2. CASE Clone(r)
  <2> DEFINE n == [run[r] EXCEPT !.pc = "clean", !.dir = r]
  <2>1. run' = [run EXCEPT ![r] = n] /\ wiring' = wiring
    BY <1>2 DEF Clone
  <2>2. n \in RunStates /\ n.pc = "clean" /\ n.dir = r
    BY <1>0, Zenon DEF RunStates, Dirs
  <2>3. PICK swept \in {{}, SweepOf(r)} : clones' = (clones \ swept) \cup {r}
    BY <1>2 DEF Clone
  <2>4. \A s \in clones : s \in clones' \/ run[s].pc = "idle"
    BY <2>3 DEF SweepOf
  <2>5. clones' \subseteq Runs /\ r \in clones'
    BY <1>0, <2>3
  <2> HIDE DEF n
  <2> QED
    BY <2>1, <2>2, <2>4, <2>5, RunMoves
<1>3. CASE CleanLocks(r) \/ Launch(r)
  BY <1>3, GoMoves DEF CleanLocks, Launch
<1>4. CASE LaunchFails(r)
  <2>1. CASE Go(r, "leave")
    BY <1>4, <2>1, GoMoves DEF LaunchFails
  <2>2. CASE run' = [run EXCEPT ![r].tries = @ + 1]
    <3> DEFINE t == run[r].tries + 1
               n == [run[r] EXCEPT !.tries = t]
    <3>1. t \in Nat
      BY <1>0, SMT DEF RunStates
    <3>2. run' = [run EXCEPT ![r] = n] /\ UNCHANGED <<wiring, clones>>
      BY <1>4, <2>2 DEF LaunchFails
    <3> HIDE DEF t
    <3>3. n \in RunStates /\ n.pc = run[r].pc /\ n.dir = run[r].dir /\ n.kind = run[r].kind
      BY <1>0, <3>1, Zenon DEF RunStates
    <3> HIDE DEF n
    <3>4. /\ n.dir \in {Master, r}
          /\ n.dir = r => r \in clones' /\ n.pc # "idle"
          /\ Clones(n.kind) /\ n.pc \in {"clean", "launch", "open"} => n.dir = r
      BY <1>0, <3>2, <3>3 DEF DirectoryInv
    <3> QED
      BY <1>0, <3>2, <3>3, <3>4, RunMoves
  <2> QED
    BY <1>4, <2>1, <2>2 DEF LaunchFails
<1>5. CASE Close(r)
  <2>1. PICK next \in {"leave", "snapshot"} : Go(r, next)
    BY <1>5 DEF Close
  <2> QED
    BY <1>5, <2>1, GoMoves DEF Close
<1> QED
  BY <1>1, <1>2, <1>3, <1>4, <1>5

\* A snapshot, a restore, and the end.
LEMMA BackupStep ==
  ASSUME ProfileInv, NEW r \in Runs, Newest \in Nat,
         \/ OpenGeneration(r) \/ CopyProfile(r) \/ CopyFails(r) \/ Prune(r) \/ Refill(r)
         \/ Leave(r) \/ Crash(r)
  PROVE  run' \in [Runs -> RunStates] /\ DirectoryInv'
<1>0. run[r] \in RunStates /\ DirectoryInv /\ clones \subseteq Runs /\ r # Master
  BY ProfilesAssumption DEF ProfileInv, ProfileTyped, Master
<1>1. CASE OpenGeneration(r)
  <2>1. PICK t \in Nat : run' = [run EXCEPT ![r].pc = "copy", ![r].stamp = t]
    <3>1. Newest + 1 \in Nat
      BY SMT
    <3> QED
      BY <1>1, <3>1 DEF OpenGeneration
  <2> DEFINE n == [run[r] EXCEPT !.pc = "copy", !.stamp = t]
  <2>2. run' = [run EXCEPT ![r] = n] /\ UNCHANGED <<wiring, clones>>
    <3>1. run \in [Runs -> RunStates]
      BY DEF ProfileInv, ProfileTyped
    <3> QED
      BY <1>1, <2>1, <3>1 DEF OpenGeneration
  <2>3. n \in RunStates /\ n.pc = "copy" /\ n.dir = run[r].dir /\ run[r].pc = "snapshot"
    BY <1>0, <1>1, Zenon DEF RunStates, OpenGeneration
  <2> HIDE DEF n
  <2>4. n.dir \in {Master, r} /\ (n.dir = r => r \in clones')
    BY <1>0, <2>2, <2>3 DEF DirectoryInv
  <2> QED
    BY <1>0, <2>2, <2>3, <2>4, RunMoves
<1>2. CASE CopyProfile(r) \/ CopyFails(r) \/ Prune(r) \/ Refill(r)
  BY <1>2, GoMoves DEF CopyProfile, CopyFails, Prune, Refill
<1>3. CASE Leave(r) \/ Crash(r)
  BY <1>3, IdleMoves DEF Leave, Crash
<1> QED
  BY <1>1, <1>2, <1>3

\* What the steps write beside runs and backups.
LEMMA DiskTypes ==
  ASSUME ProfileInv, [Next]_vars
  PROVE  /\ wiring' \in Wiring /\ lock' \in [Dirs -> Runs \cup {None, Stale}]
         /\ clones' \subseteq Runs /\ master' \in {"whole", "part", "empty"}
         /\ starts' \in Nat /\ days' \in Nat
<1>0. /\ wiring \in Wiring /\ lock \in [Dirs -> Runs \cup {None, Stale}]
      /\ clones \subseteq Runs /\ master \in {"whole", "part", "empty"}
      /\ starts \in Nat /\ days \in Nat
      /\ starts + 1 \in Nat /\ days + 1 \in Nat
  BY SMT DEF ProfileInv, ProfileTyped
<1> DEFINE Locks == [Dirs -> Runs \cup {None, Stale}]
<1>1. ASSUME NEW r \in Runs, StartRun(r) \/ StartRestore(r) \/ Step(r) \/ Crash(r)
      PROVE  /\ wiring' = wiring /\ clones' \subseteq Runs /\ days' = days
             /\ master' \in {"whole", "part", "empty"} /\ starts' \in {starts, starts + 1}
  BY <1>0, <1>1, Zenon
  DEF StartRun, StartRestore, Step, Crash, Prepare, Clone, CleanLocks, Launch, LaunchFails, Close,
      OpenGeneration, CopyProfile, CopyFails, Prune, Refill, Leave
<1>2. ASSUME NEW r \in Runs, StartRun(r) \/ StartRestore(r) \/ Step(r) \/ Crash(r)
      PROVE  lock' \in Locks
  <2>2. \A d : [lock EXCEPT ![d] = r] \in Locks /\ [lock EXCEPT ![d] = None] \in Locks
    BY <1>0
  <2>3. \A d : [lock EXCEPT ![d] = IF @ = r THEN None ELSE @] \in Locks
    BY <1>0
  <2>4. [d \in Dirs |-> IF lock[d] = r THEN Stale ELSE lock[d]] \in Locks
    BY <1>0
  <2> HIDE DEF Locks
  <2> QED
    BY <1>0, <1>2, <2>2, <2>3, <2>4, Zenon
    DEF Locks, StartRun, StartRestore, Step, Crash, Prepare, Clone, CleanLocks, Launch, LaunchFails,
        Close, OpenGeneration, CopyProfile, CopyFails, Prune, Refill, Leave
<1> QED
  BY <1>0, <1>1, <1>2 DEF Next, DayPasses, vars

\* The profile's invariant is kept by every step.
LEMMA ProfileStep == ProfileInv /\ [Next]_vars => ProfileInv'
<1> SUFFICES ASSUME ProfileInv, [Next]_vars PROVE ProfileInv'
  OBVIOUS
<1>1. gens' \in Seq(Generations) /\ Newest \in Nat
  BY BackupTypes DEF ProfileInv
<1>2. run' \in [Runs -> RunStates] /\ DirectoryInv'
  <2>1. ASSUME NEW r \in Runs, StartRun(r) \/ StartRestore(r) \/ Step(r) \/ Crash(r)
        PROVE  run' \in [Runs -> RunStates] /\ DirectoryInv'
    BY <1>1, <2>1, BeginStep, LaunchStep, BackupStep DEF Step
  <2>2. CASE UNCHANGED <<wiring, run, clones>>
    BY <2>2 DEF ProfileInv, ProfileTyped, DirectoryInv, Clones
  <2> QED
    BY <2>1, <2>2 DEF Next, DayPasses, vars
<1> QED
  BY <1>1, <1>2, DiskTypes DEF ProfileInv, ProfileTyped

-----------------------------------------------------------------------------
(* The profile: the theorems.                                                *)

\* Types, and who works in which directory.
THEOREM ProfileInvariant == Spec => []ProfileInv
  BY ProfileInit, ProfileStep, PTL DEF Spec

\* A prompt job handed a prepared path has a clone to itself and never opens the
\* profile, whatever else runs, is swept or dies (create_ephemeral_session,
\* sweep_stale_clones).
THEOREM ClonesApart == Spec => []ClonesArePrivate
<1>1. ProfileInv => ClonesArePrivate
  <2> SUFFICES ASSUME ProfileInv, wiring = "prepared" PROVE ClonesArePrivate
    BY DEF ClonesArePrivate
  <2>1. Master \notin Runs
    BY ProfilesAssumption DEF Master
  <2>2. \A r \in Runs : Alone(r)
    BY <2>1 DEF ProfileInv, DirectoryInv, Alone, On
  <2>3. \A r \in Runs : run[r].pc = "open" /\ run[r].kind = "prompt"
                          => run[r].dir = r /\ r \in clones
    BY DEF ProfileInv, DirectoryInv, Clones
  <2> QED
    BY <2>1, <2>2, <2>3 DEF ClonesArePrivate, On
<1> QED
  BY ProfileInvariant, <1>1, PTL

\* The newest backups are the ones that stay (_prune_old_snapshots).
LEMMA PruningKeepsLast ==
  ASSUME ProfileTyped, gens # <<>>, Last(gens).whole
  PROVE  \E i \in DOMAIN Retained(gens) : Retained(gens)[i].whole
<1>1. gens \in Seq(Generations) /\ Len(gens) \in Nat \ {0} /\ MaxGenerations \in Nat \ {0}
  BY ProfilesAssumption, SMT DEF ProfileTyped
<1>2. Last(gens) = gens[Len(gens)]
  BY DEF Last
<1> DEFINE over == Len(gens) - MaxGenerations
<1>3. CASE Retained(gens) = gens
  BY <1>1, <1>2, <1>3, SMT
<1>4. CASE over > 0 /\ Retained(gens) = SubSeq(gens, over + 1, Len(gens))
  <2>1. /\ Len(Retained(gens)) = MaxGenerations
        /\ Retained(gens)[MaxGenerations] = gens[Len(gens)]
        /\ DOMAIN Retained(gens) = 1..MaxGenerations
    BY <1>1, <1>4, SMT
  <2>2. MaxGenerations \in DOMAIN Retained(gens)
    BY <1>1, <2>1, SMT
  <2> QED
    BY <1>2, <2>1, <2>2
<1>5. Retained(gens) = gens \/ (~(over <= 0) /\ Retained(gens) = SubSeq(gens, over + 1, Len(gens)))
  BY Zenon DEF Retained
<1>6. ~(over <= 0) => over > 0
  BY <1>1, SMT
<1> QED
  BY <1>3, <1>4, <1>5, <1>6, Zenon

\* A complete backup is never lost to a failed copy, a kill or the passing of
\* days, and to a pruning or a second snapshot only when that is not the newest
\* complete one's own (take_snapshot, _prune_old_snapshots).
THEOREM BackupsLast == Spec => WholeBackupKept
<1> DEFINE Excused ==
      \E r \in Runs :
        \/ run[r].pc = "snapshot" /\ run'[r].stamp = Newest
        \/ /\ run[r].pc = "prune"
           /\ ~(Last(gens).stamp = run[r].stamp /\ Last(gens).whole)
<1>1. ASSUME ProfileInv, Next, Backed, ~Backed' PROVE Excused
  <2>0. ProfileTyped /\ gens # <<>> /\ run \in [Runs -> RunStates]
    BY <1>1, SMT DEF Backed, ProfileInv, ProfileTyped
  <2>1. gens' # gens
    BY <1>1 DEF Backed
  <2>2. ASSUME NEW r \in Runs, OpenGeneration(r) PROVE Excused
    <3>1. CASE gens' = Append(gens, [stamp |-> Newest + 1, whole |-> FALSE, recent |-> TRUE])
      <4>1. \A i \in DOMAIN gens : i \in DOMAIN gens' /\ gens'[i] = gens[i]
        BY <2>0, <3>1, SMT DEF ProfileTyped
      <4> QED
        BY <1>1, <4>1 DEF Backed
    <3>2. CASE run' = [run EXCEPT ![r].pc = "copy", ![r].stamp = Newest]
      <4>1. run'[r].stamp = Newest /\ run[r].pc = "snapshot"
        BY <2>0, <2>2, <3>2, Zenon DEF OpenGeneration, RunStates
      <4> QED
        BY <4>1
    <3> QED
      BY <2>2, <3>1, <3>2 DEF OpenGeneration
  <2>3. ASSUME NEW r \in Runs, CopyProfile(r) PROVE FALSE
    <3>1. PICK i \in DOMAIN gens : gens[i].whole
      BY <1>1 DEF Backed
    <3>2. gens[i] \in Generations
      BY <2>0, SMT DEF ProfileTyped
    <3>3. /\ DOMAIN gens' = DOMAIN gens
          /\ gens'[i] = gens[i] \/ gens'[i] = [gens[i] EXCEPT !.whole = TRUE]
      BY <2>3 DEF CopyProfile
    <3>4. gens'[i].whole
      BY <3>1, <3>2, <3>3, Zenon DEF Generations
    <3> QED
      BY <1>1, <3>3, <3>4 DEF Backed
  <2>4. ASSUME NEW r \in Runs, Prune(r) PROVE Excused
    BY <1>1, <2>0, <2>4, PruningKeepsLast DEF Prune, Backed
  <2>5. ASSUME DayPasses PROVE FALSE
    <3>1. PICK i \in DOMAIN gens : gens[i].whole
      BY <1>1 DEF Backed
    <3>2. gens[i] \in Generations
      BY <2>0, SMT DEF ProfileTyped
    <3>3. DOMAIN gens' = DOMAIN gens /\ gens'[i] = [gens[i] EXCEPT !.recent = FALSE]
      BY <2>5 DEF DayPasses
    <3>4. gens'[i].whole = gens[i].whole
      BY <3>2, <3>3, Zenon DEF Generations
    <3> QED
      BY <1>1, <3>1, <3>3, <3>4 DEF Backed
  <2> QED
    BY <1>1, <2>1, <2>2, <2>3, <2>4, <2>5
    DEF Next, Step, StartRun, StartRestore, Crash, Prepare, Clone, CleanLocks, Launch,
        LaunchFails, Close, CopyFails, Refill, Leave
<1>2. ProfileInv /\ [Next]_vars => [Backed /\ ~Backed' => Excused]_vars
  BY <1>1
<1> QED
  BY ProfileInvariant, <1>2, PTL DEF Spec, WholeBackupKept

-----------------------------------------------------------------------------
(* The update: types and the invariant.                                      *)

Environments == [pkg : Nat, deps : Nat \ {0}, builds : SUBSET Nat]
Commands ==
    [force : BOOLEAN, prev : Nat, target : Nat, ok : BOOLEAN, sound : BOOLEAN,
     restores : BOOLEAN, fresh : BOOLEAN, start : [pkg : Nat, deps : Nat]]
Reports ==
    [kind : {"none", "refused", "uptodate", "updated", "rollback"}, healthy : BOOLEAN,
     rollback : {"none", "skipped", "partial", "full"}, goal : Nat]

Updating == {"check", "snapshot", "upgrade", "sync", "verify"}
Restoring == {"restore", "reconcile", "resync"}

UpdateTyped ==
    /\ env \in Environments
    /\ snapshot \in [kind : {"none", "full", "torn"}, pkg : Nat, deps : Nat]
    /\ checkout \in Nat /\ latest \in Nat \ {0} /\ commands \in Nat
    /\ pc \in {"idle"} \cup Updating \cup Restoring
    /\ cmd \in Commands
    /\ report \in Reports

\* A running command has reported nothing yet, and an update looks for a release.
RunningInv ==
    /\ pc # "idle" => report.kind = "none"
    /\ pc \in Updating \ {"check"} => cmd.target # 0

\* A browser synced with success has the build of the installed dependencies, as
\* long as the package is not installed again; a healthy report says no less.
SyncedInv ==
    /\ pc = "verify" /\ cmd.ok = TRUE => env.deps \in env.builds
    /\ HealthyUpdate

\* What the update found: nothing of it changes before the snapshot, and a
\* snapshot of its own names it.
FoundInv ==
    /\ pc # "idle" => cmd.start.deps # 0
    /\ pc # "idle" /\ cmd.restores = FALSE => cmd.prev = cmd.start.pkg
    /\ pc \in {"check", "snapshot"} =>
         /\ cmd.restores = FALSE /\ cmd.fresh = FALSE
         /\ env.pkg = cmd.start.pkg /\ env.deps = cmd.start.deps
    /\ pc # "idle" /\ cmd.fresh = TRUE =>
         /\ cmd.restores = FALSE
         /\ snapshot.kind = "full" /\ snapshot.pkg = cmd.start.pkg /\ snapshot.deps = cmd.start.deps

\* A rollback installs the release it goes back to before the snapshot's pins,
\* and the two agree when the snapshot is the command's own.
RestoredInv ==
    /\ pc \in Restoring => cmd.target = cmd.prev
    /\ pc \in {"reconcile", "resync"} => cmd.target # 0
    /\ pc = "reconcile" => env.pkg = cmd.target
    /\ pc = "resync" /\ cmd.fresh = TRUE /\ cmd.sound = TRUE =>
         env.pkg = cmd.start.pkg /\ env.deps = cmd.start.deps

UpdateInv == UpdateTyped /\ RunningInv /\ SyncedInv /\ FoundInv /\ RestoredInv

-----------------------------------------------------------------------------
(* The update: its steps.                                                    *)

\* The order of an update's steps.
LEMMA StepOrder ==
  /\ After["check"] = "snapshot" /\ After["snapshot"] = "upgrade"
  /\ After["upgrade"] = "sync" /\ After["sync"] = "verify"
  BY DEF After

\* Records without a command and without a report.
LEMMA IdleRecords ==
  /\ NoCommand \in Commands /\ NoCommand.target = 0 /\ NoCommand.fresh = FALSE
  /\ NoCommand.restores = FALSE /\ NoCommand.ok = TRUE
  /\ Silent \in Reports /\ Silent.kind = "none"
<1>1. NoCommand \in Commands
  BY Zenon DEF NoCommand, Commands, NoRelease
<1>2. Silent \in Reports
  BY Zenon DEF Silent, Reports, NoRelease
<1> QED
  BY <1>1, <1>2 DEF NoCommand, Silent, NoRelease

\* The update's invariant holds at the start.
LEMMA UpdateStarts == UpdateInit => UpdateInv
<1> SUFFICES ASSUME UpdateInit PROVE UpdateInv
  OBVIOUS
<1>1. UpdateTyped
  <2>1. env \in Environments
    BY SMT DEF UpdateInit, Environments
  <2>2. snapshot \in [kind : {"none", "full", "torn"}, pkg : Nat, deps : Nat]
    BY SMT DEF UpdateInit, NoRelease
  <2> QED
    BY <2>1, <2>2, IdleRecords, SMT DEF UpdateInit, UpdateTyped, NoRelease
<1> QED
  BY <1>1, IdleRecords, SMT
  DEF UpdateInit, UpdateInv, RunningInv, SyncedInv, FoundInv, RestoredInv, Updating, Restoring,
      HealthyUpdate

\* A command that ends reports once, and leaves no command behind.
LEMMA ReportStep ==
  ASSUME UpdateInv, NEW r \in Reports, Report(r),
         env' \in Environments, UNCHANGED <<snapshot, checkout, latest, commands>>,
         r.kind = "updated" /\ r.healthy = TRUE => env'.pkg >= r.goal /\ env'.deps \in env'.builds
  PROVE  UpdateInv'
<1>1. UpdateTyped'
  BY IdleRecords DEF UpdateInv, UpdateTyped, Report
<1> QED
  BY <1>1, IdleRecords, SMT
  DEF Report, UpdateInv, RunningInv, SyncedInv, FoundInv, RestoredInv, Updating, Restoring,
      HealthyUpdate

\* Nothing of an update happens: the world around it moves, or its process dies.
LEMMA WorldStep ==
  ASSUME UpdateInv, Die \/ Publish \/ HostChanges \/ CheckoutGoes \/ UNCHANGED updateVars
  PROVE  UpdateInv'
<1>1. UpdateTyped'
  <2>1. UNCHANGED <<env, snapshot, commands, report>>
    BY DEF Die, Publish, HostChanges, CheckoutGoes, updateVars
  <2>2. cmd' \in Commands
    BY IdleRecords DEF UpdateInv, UpdateTyped, Die, Publish, HostChanges, CheckoutGoes, updateVars
  <2>3. checkout' \in Nat /\ latest' \in Nat \ {0} /\ pc' \in {"idle"} \cup Updating \cup Restoring
    BY SMT DEF UpdateInv, UpdateTyped, Die, Publish, HostChanges, CheckoutGoes, updateVars, NoRelease
  <2> QED
    BY <2>1, <2>2, <2>3 DEF UpdateInv, UpdateTyped
<1>2. CASE Die
  BY <1>1, <1>2, SMT
  DEF Die, UpdateInv, RunningInv, SyncedInv, FoundInv, RestoredInv, Updating, Restoring,
      HealthyUpdate
<1>3. CASE UNCHANGED <<env, snapshot, pc, cmd, report>>
  BY <1>1, <1>3
  DEF UpdateInv, RunningInv, SyncedInv, FoundInv, RestoredInv, HealthyUpdate
<1> QED
  BY <1>2, <1>3 DEF Publish, HostChanges, CheckoutGoes, updateVars

\* A command begins with what it finds.
LEMMA CommandStep ==
  ASSUME UpdateInv, StartUpdate \/ StartRollback
  PROVE  UpdateInv'
<1>0. UpdateTyped /\ env.pkg \in Nat /\ env.deps \in Nat \ {0}
  BY SMT DEF UpdateInv, UpdateTyped, Environments
<1> DEFINE found == [pkg |-> env.pkg, deps |-> env.deps]
<1>1. found \in [pkg : Nat, deps : Nat] /\ found.pkg = env.pkg /\ found.deps # 0 /\ found.deps = env.deps
  BY <1>0, SMT
<1> HIDE DEF found
<1>2. ASSUME StartUpdate PROVE UpdateInv'
  <2>1. PICK force \in BOOLEAN :
          cmd' = [NoCommand EXCEPT !.force = force, !.prev = env.pkg, !.start = found]
    BY <1>2 DEF StartUpdate, found
  <2>2. cmd' \in Commands
    BY <1>0, <1>1, <2>1, IdleRecords, Zenon DEF Commands
  <2>3. cmd'.start = found /\ cmd'.prev = env.pkg /\ cmd'.fresh = FALSE /\ cmd'.restores = FALSE
    BY <2>1, SMT DEF NoCommand
  <2>4. /\ pc' = "check" /\ report' = Silent /\ commands' = commands + 1
        /\ UNCHANGED <<env, snapshot, checkout, latest, fit>>
    BY <1>2 DEF StartUpdate
  <2>5. UpdateTyped'
    BY <1>0, <2>2, <2>4, IdleRecords, SMT DEF UpdateTyped, Updating
  <2> QED
    BY <1>1, <2>3, <2>4, <2>5, IdleRecords, SMT
    DEF UpdateInv, RunningInv, SyncedInv, FoundInv, RestoredInv, Updating, Restoring,
        HealthyUpdate
<1>3. ASSUME StartRollback PROVE UpdateInv'
  <2>1. PICK v \in 1..latest :
          cmd' = [NoCommand EXCEPT !.prev = v, !.target = v, !.restores = TRUE, !.start = found]
    BY <1>3 DEF StartRollback, found
  <2>2. cmd' \in Commands
    <3>1. v \in Nat
      BY <1>0, SMT DEF UpdateTyped
    <3> QED
      BY <3>1, <1>1, <2>1, IdleRecords, Zenon DEF Commands
  <2>3. cmd'.start = found /\ cmd'.prev = v /\ cmd'.target = v /\ cmd'.fresh = FALSE /\ cmd'.restores = TRUE
    BY <2>1, SMT DEF NoCommand
  <2>4. /\ pc' = "restore" /\ report' = Silent /\ commands' = commands + 1
        /\ UNCHANGED <<env, snapshot, checkout, latest, fit>>
    BY <1>3 DEF StartRollback
  <2>5. UpdateTyped'
    BY <1>0, <2>2, <2>4, IdleRecords, SMT DEF UpdateTyped, Restoring
  <2> QED
    BY <1>1, <2>3, <2>4, <2>5, IdleRecords, SMT
    DEF UpdateInv, RunningInv, SyncedInv, FoundInv, RestoredInv, Updating, Restoring,
        HealthyUpdate
<1> QED
  BY <1>2, <1>3

\* The check, the snapshot and the browser's sync.
LEMMA PrepareStep ==
  ASSUME UpdateInv, Check \/ CaptureSnapshot \/ Reject
  PROVE  UpdateInv'
<1>0. UpdateTyped
  BY DEF UpdateInv
<1>1. ASSUME Check PROVE UpdateInv'
  <2>1. cmd' \in Commands
    <3>1. latest \in Nat
      BY <1>0 DEF UpdateTyped
    <3> QED
      BY <1>0, <1>1, <3>1, Zenon DEF UpdateTyped, Commands, Check
  <2>2. cmd'.start = cmd.start /\ cmd'.prev = cmd.prev /\ cmd'.fresh = cmd.fresh
        /\ cmd'.restores = cmd.restores /\ cmd'.target = latest
    BY <1>0, <1>1, SMT DEF Check, UpdateTyped, Commands
  <2>3. UpdateTyped'
    BY <1>0, <1>1, <2>1, StepOrder, SMT DEF Check, UpdateTyped, Updating
  <2> QED
    BY <1>0, <1>1, <2>2, <2>3, StepOrder, SMT
    DEF Check, UpdateTyped, UpdateInv, RunningInv, SyncedInv, FoundInv, RestoredInv, Updating,
        Restoring, HealthyUpdate
<1>2. ASSUME CaptureSnapshot PROVE UpdateInv'
  <2>1. cmd' \in Commands
    BY <1>0, <1>2, Zenon DEF UpdateTyped, Commands, CaptureSnapshot
  <2>2. env.pkg \in Nat /\ env.deps \in Nat
    BY <1>0, SMT DEF UpdateTyped, Environments
  <2>3. snapshot' \in [kind : {"none", "full", "torn"}, pkg : Nat, deps : Nat]
    BY <1>0, <1>2, <2>2, SMT DEF CaptureSnapshot, UpdateTyped, NoRelease
  <2>4. UpdateTyped'
    BY <1>0, <1>2, <2>1, <2>3, StepOrder, SMT DEF CaptureSnapshot, UpdateTyped, Updating
  <2>5. CASE cmd' = cmd
    BY <1>2, <2>4, <2>5, StepOrder, SMT
    DEF CaptureSnapshot, UpdateInv, RunningInv, SyncedInv, FoundInv, RestoredInv, Updating,
        Restoring, HealthyUpdate
  <2>6. CASE /\ snapshot' = [kind |-> "full", pkg |-> env.pkg, deps |-> env.deps]
             /\ cmd' = [cmd EXCEPT !.fresh = TRUE]
    <3>1. cmd'.start = cmd.start /\ cmd'.prev = cmd.prev
          /\ cmd'.restores = cmd.restores /\ cmd'.target = cmd.target
      BY <1>0, <2>6, SMT DEF UpdateTyped, Commands
    <3> QED
      BY <1>2, <2>4, <2>6, <3>1, StepOrder, SMT
      DEF CaptureSnapshot, UpdateInv, RunningInv, SyncedInv, FoundInv, RestoredInv, Updating,
          Restoring, HealthyUpdate
  <2> QED
    BY <1>2, <2>5, <2>6 DEF CaptureSnapshot
<1>3. ASSUME Reject PROVE UpdateInv'
  <2>1. cmd' \in Commands
    <3>1. cmd.prev \in Nat
      BY <1>0, SMT DEF UpdateTyped, Commands
    <3> QED
      BY <1>0, <1>3, <3>1, Zenon DEF UpdateTyped, Commands, Reject
  <2>2. cmd'.start = cmd.start /\ cmd'.prev = cmd.prev /\ cmd'.fresh = cmd.fresh
        /\ cmd'.restores = cmd.restores /\ cmd'.target = cmd.prev
    BY <1>0, <1>3, SMT DEF Reject, UpdateTyped, Commands
  <2>3. UpdateTyped'
    BY <1>0, <1>3, <2>1, SMT DEF Reject, UpdateTyped, Restoring
  <2> QED
    BY <1>3, <2>2, <2>3, SMT
    DEF Reject, UpdateInv, RunningInv, SyncedInv, FoundInv, RestoredInv, Updating,
        Restoring, HealthyUpdate
<1> QED
  BY <1>1, <1>2, <1>3

\* A package and a dependency tree make an environment.
LEMMA TwoFields ==
  ASSUME env \in Environments, NEW p \in Nat, NEW d \in Nat \ {0}
  PROVE  LET e == [env EXCEPT !.pkg = p, !.deps = d]
         IN  e \in Environments /\ e.pkg = p /\ e.deps = d
  BY Zenon DEF Environments

\* A purge and a sync leave builds.
LEMMA BuildsTyped ==
  ASSUME env \in Environments, NEW force
  PROVE  \A b \in Synced(force) \cup Purged(force) : b \in SUBSET Nat
<1>1. env.builds \in SUBSET Nat /\ env.deps \in Nat
  BY SMT DEF Environments
<1>2. \A b \in Purged(force) : b \in SUBSET Nat
  BY <1>1, Zenon DEF Purged
<1>3. ASSUME NEW b \in Synced(force) PROVE b \in SUBSET Nat
  <2>1. PICK c \in Purged(force) \cup {{}} : b = c \cup {env.deps}
    BY <1>3, Zenon DEF Synced
  <2> QED
    BY <1>1, <1>2, <2>1
<1> QED
  BY <1>2, <1>3

\* pip leaves an environment, whether it succeeds or fails.
LEMMA PipInstalls ==
  ASSUME env \in Environments, NEW v \in Nat, NEW trees \in SUBSET (Nat \ {0})
  PROVE  /\ \A e \in Installed(v, trees) : e \in Environments /\ e.pkg = v
         /\ \A e \in Broken(trees) : e \in Environments
<1>0. env.pkg \in Nat /\ env.deps \in Nat \ {0} /\ NoRelease \in Nat
  BY SMT DEF Environments, NoRelease
<1>1. ASSUME NEW e \in Installed(v, trees) PROVE e \in Environments /\ e.pkg = v
  <2>1. PICK d \in trees : e = [env EXCEPT !.pkg = v, !.deps = d]
    BY <1>1, Zenon DEF Installed
  <2>2. d \in Nat \ {0}
    OBVIOUS
  <2> QED
    BY <2>1, <2>2, TwoFields
<1>2. ASSUME NEW e \in Broken(trees) PROVE e \in Environments
  <2>1. PICK p \in {env.pkg, NoRelease} : e \in Installed(p, trees \cup {env.deps})
    BY <1>2, Zenon DEF Broken
  <2>2. PICK d \in trees \cup {env.deps} : e = [env EXCEPT !.pkg = p, !.deps = d]
    BY <2>1, Zenon DEF Installed
  <2>3. p \in Nat /\ d \in Nat \ {0}
    BY <1>0
  <2> QED
    BY <2>2, <2>3, TwoFields
<1> QED
  BY <1>1, <1>2

\* The package is installed, whole or in part, and the browser is synced.
LEMMA InstallStep ==
  ASSUME UpdateInv, UpgradeFromCheckout \/ UpgradePinned \/ UpgradeRefused \/ SyncBrowser
  PROVE  UpdateInv'
<1>0. UpdateTyped
  BY DEF UpdateInv
<1>1. ASSUME UpgradeFromCheckout \/ UpgradePinned \/ UpgradeRefused
      PROVE  UpdateInv'
  <2>1. /\ pc = "upgrade" /\ pc' = "sync"
        /\ UNCHANGED <<snapshot, latest, report, commands>>
    BY <1>1, StepOrder DEF UpgradeFromCheckout, UpgradePinned, UpgradeRefused, StepEnds
  <2>2. PICK ok \in BOOLEAN : cmd' = [cmd EXCEPT !.ok = @ /\ ok]
    BY <1>1 DEF UpgradeFromCheckout, UpgradePinned, UpgradeRefused, StepEnds
  <2>3. cmd' \in Commands
    BY <1>0, <2>2, Zenon DEF UpdateTyped, Commands
  <2>4. cmd'.start = cmd.start /\ cmd'.prev = cmd.prev /\ cmd'.fresh = cmd.fresh
        /\ cmd'.restores = cmd.restores /\ cmd'.target = cmd.target
    BY <1>0, <2>2, SMT DEF UpdateTyped, Commands
  <2>5. env' \in Environments /\ checkout' \in Nat
    <3>1. CASE UpgradeFromCheckout
      <4>1. PICK v \in {checkout, latest} :
              /\ v >= cmd.target /\ checkout' = v
              /\ env' \in Installed(v, Resolve(v)) \cup Broken(Resolve(v))
        BY <3>1 DEF UpgradeFromCheckout
      <4>2. v \in Nat \ {0} /\ cmd.target \in Nat \ {0}
        BY <1>0, <3>1, SMT
        DEF UpgradeFromCheckout, UpdateTyped, UpdateInv, RunningInv, Updating, NoRelease, Commands
      <4>3. Resolve(v) \subseteq Nat \ {0}
        BY <1>0, <4>2, SMT DEF Resolve, UpdateTyped
      <4> QED
        BY <1>0, <4>1, <4>2, <4>3, PipInstalls, SMT DEF UpdateTyped
    <3>2. CASE UpgradePinned
      <4>1. PICK trees \in {{env.deps}, Resolve(cmd.target)} :
              env' \in Installed(cmd.target, trees) \cup Broken(trees)
        BY <3>2 DEF UpgradePinned
      <4>2. cmd.target \in Nat \ {0}
        BY <1>0, <2>1, SMT DEF UpdateTyped, UpdateInv, RunningInv, Updating, Commands
      <4>3. trees \subseteq Nat \ {0}
        BY <1>0, <4>1, <4>2, SMT DEF Resolve, UpdateTyped, Environments
      <4> QED
        BY <1>0, <3>2, <4>1, <4>2, <4>3, PipInstalls, SMT DEF UpgradePinned, UpdateTyped
    <3>3. CASE UpgradeRefused
      BY <1>0, <3>3 DEF UpgradeRefused, UpdateTyped
    <3> QED
      BY <1>1, <3>1, <3>2, <3>3
  <2>6. UpdateTyped'
    BY <1>0, <2>1, <2>3, <2>5, SMT DEF UpdateTyped, Updating
  <2> QED
    BY <2>1, <2>4, <2>6, SMT
    DEF UpdateInv, RunningInv, SyncedInv, FoundInv, RestoredInv, Updating, Restoring,
        HealthyUpdate
<1>2. ASSUME SyncBrowser PROVE UpdateInv'
  <2>1. /\ pc = "sync" /\ pc' = "verify"
        /\ UNCHANGED <<snapshot, checkout, latest, report, commands>>
    BY <1>2, StepOrder DEF SyncBrowser
  <2>2. PICK b : /\ env' = [env EXCEPT !.builds = b]
                 /\ \/ b \in Synced(cmd.force) /\ cmd' = cmd
                    \/ b \in Purged(cmd.force) /\ cmd' = [cmd EXCEPT !.ok = FALSE]
    BY <1>2 DEF SyncBrowser
  <2>3. b \in SUBSET Nat
    BY <1>0, <2>2, BuildsTyped DEF UpdateTyped
  <2>4. env' \in Environments /\ env'.pkg = env.pkg /\ env'.deps = env.deps /\ env'.builds = b
    BY <1>0, <2>2, <2>3, SMT DEF UpdateTyped, Environments
  <2>5. cmd' \in Commands
    BY <1>0, <2>2, Zenon DEF UpdateTyped, Commands
  <2>6. /\ cmd'.start = cmd.start /\ cmd'.prev = cmd.prev /\ cmd'.fresh = cmd.fresh
        /\ cmd'.restores = cmd.restores /\ cmd'.target = cmd.target
        /\ cmd'.ok = TRUE => env.deps \in b
    <3>1. CASE b \in Synced(cmd.force) /\ cmd' = cmd
      BY <3>1 DEF Synced
    <3>2. CASE cmd' = [cmd EXCEPT !.ok = FALSE]
      BY <1>0, <3>2, SMT DEF UpdateTyped, Commands
    <3> QED
      BY <2>2, <3>1, <3>2
  <2>7. UpdateTyped'
    BY <1>0, <2>1, <2>4, <2>5, SMT DEF UpdateTyped, Updating
  <2> QED
    BY <2>1, <2>4, <2>6, <2>7, SMT
    DEF UpdateInv, RunningInv, SyncedInv, FoundInv, RestoredInv, Updating, Restoring,
        HealthyUpdate
<1> QED
  BY <1>1, <1>2

\* A rollback goes back to a release, to the snapshot's pins and to a browser.
LEMMA RestoreStep ==
  ASSUME UpdateInv, (RestorePackage /\ pc' # "idle") \/ Reconcile
  PROVE  UpdateInv'
<1>0. UpdateTyped
  BY DEF UpdateInv
<1>1. ASSUME RestorePackage, pc' # "idle" PROVE UpdateInv'
  <2>1. /\ pc = "restore" /\ pc' = "reconcile" /\ cmd.target # 0
        /\ env' \in Installed(cmd.target, Resolve(cmd.target))
        /\ UNCHANGED <<snapshot, checkout, latest, cmd, report, commands>>
    BY <1>1 DEF RestorePackage, Verdict, Report, NoRelease
  <2>2. cmd.target \in Nat /\ Resolve(cmd.target) \in SUBSET (Nat \ {0})
    BY <1>0, <2>1, SMT DEF UpdateTyped, Commands, Resolve
  <2>3. env' \in Environments /\ env'.pkg = cmd.target
    BY <1>0, <2>1, <2>2, PipInstalls DEF UpdateTyped
  <2>4. UpdateTyped'
    BY <1>0, <2>1, <2>3, SMT DEF UpdateTyped, Restoring
  <2> QED
    BY <2>1, <2>3, <2>4, SMT
    DEF UpdateInv, RunningInv, SyncedInv, FoundInv, RestoredInv, Updating, Restoring,
        HealthyUpdate
<1>2. ASSUME Reconcile PROVE UpdateInv'
  <2>1. /\ pc = "reconcile" /\ pc' = "resync"
        /\ UNCHANGED <<snapshot, checkout, latest, report, commands>>
    BY <1>2 DEF Reconcile
  <2>2. cmd' = cmd \/ cmd' = [cmd EXCEPT !.sound = FALSE]
    BY <1>2 DEF Reconcile
  <2>3. cmd' \in Commands
    BY <1>0, <2>2, Zenon DEF UpdateTyped, Commands
  <2>4. /\ cmd'.start = cmd.start /\ cmd'.prev = cmd.prev /\ cmd'.fresh = cmd.fresh
        /\ cmd'.restores = cmd.restores /\ cmd'.target = cmd.target
    BY <1>0, <2>2, SMT DEF UpdateTyped, Commands
  <2>5. /\ Pinned \in Environments
        /\ Pinned.pkg = IF snapshot.pkg = 0 THEN env.pkg ELSE snapshot.pkg
        /\ Pinned.deps = IF snapshot.deps = 0 THEN env.deps ELSE snapshot.deps
    <3>1. /\ env.pkg \in Nat /\ env.deps \in Nat \ {0}
          /\ snapshot.pkg \in Nat /\ snapshot.deps \in Nat
      BY <1>0, SMT DEF UpdateTyped, Environments
    <3> DEFINE p == IF snapshot.pkg = 0 THEN env.pkg ELSE snapshot.pkg
               d == IF snapshot.deps = 0 THEN env.deps ELSE snapshot.deps
    <3>2. p \in Nat /\ d \in Nat \ {0}
      BY <3>1, SMT
    <3>3. Pinned = [env EXCEPT !.pkg = p, !.deps = d]
      BY <1>0, Zenon DEF Pinned, NoRelease, UpdateTyped, Environments
    <3> HIDE DEF p, d
    <3>4. Pinned \in Environments /\ Pinned.pkg = p /\ Pinned.deps = d
      BY <1>0, <3>2, <3>3, TwoFields DEF UpdateTyped
    <3> QED
      BY <3>4 DEF p, d
  <2>6. env' \in Environments
    <3>1. env.pkg \in Nat
      BY <1>0, SMT DEF UpdateTyped, Environments
    <3>2. [Pinned EXCEPT !.pkg = env.pkg] \in Environments
      BY <2>5, <3>1, SMT DEF Environments
    <3> QED
      BY <1>0, <1>2, <2>5, <3>2 DEF Reconcile, UpdateTyped
  <2>7. UpdateTyped'
    BY <1>0, <2>1, <2>3, <2>6, SMT DEF UpdateTyped, Restoring
  <2>8. cmd'.fresh = TRUE /\ cmd'.sound = TRUE
          => env'.pkg = cmd.start.pkg /\ env'.deps = cmd.start.deps
    <3> SUFFICES ASSUME cmd'.fresh = TRUE, cmd'.sound = TRUE
                 PROVE  env'.pkg = cmd.start.pkg /\ env'.deps = cmd.start.deps
      OBVIOUS
    <3>1. /\ snapshot.kind = "full"
          /\ snapshot.pkg = cmd.start.pkg /\ snapshot.deps = cmd.start.deps
          /\ cmd.start.deps # 0 /\ env.pkg = cmd.start.pkg
      BY <2>1, <2>4, SMT DEF UpdateInv, FoundInv, RestoredInv, Restoring
    <3>2. cmd' # [cmd EXCEPT !.sound = FALSE]
      BY <1>0, SMT DEF UpdateTyped, Commands
    <3>3. env' = Pinned
      BY <1>2, <3>1, <3>2 DEF Reconcile
    <3> QED
      BY <2>5, <3>1, <3>3, SMT
  <2> QED
    BY <2>1, <2>4, <2>7, <2>8, SMT
    DEF UpdateInv, RunningInv, SyncedInv, FoundInv, RestoredInv, Updating, Restoring,
        HealthyUpdate
<1> QED
  BY <1>1, <1>2

\* Every report is a report.
LEMMA VerdictTyped ==
  ASSUME UpdateInv, NEW status \in {"none", "skipped", "partial", "full"}
  PROVE  LET r == [kind |-> IF cmd.restores THEN "rollback" ELSE "updated",
                   healthy |-> FALSE, rollback |-> status, goal |-> cmd.target]
         IN  r \in Reports /\ r.healthy = FALSE
<1>1. cmd.target \in Nat
  BY SMT DEF UpdateInv, UpdateTyped, Commands
<1> DEFINE k == IF cmd.restores THEN "rollback" ELSE "updated"
<1>2. k \in {"none", "refused", "uptodate", "updated", "rollback"}
  OBVIOUS
<1> HIDE DEF k
<1>3. LET r == [kind |-> k, healthy |-> FALSE, rollback |-> status, goal |-> cmd.target]
      IN  r \in Reports /\ r.healthy = FALSE
  BY <1>1, <1>2, Zenon DEF Reports
<1> QED
  BY <1>3 DEF k

\* The commands that end report what they have reached.
LEMMA EndStep ==
  ASSUME UpdateInv, RefuseUnverifiable \/ UpToDate \/ Accept
  PROVE  UpdateInv'
<1>0. UpdateTyped
  BY DEF UpdateInv
<1>1. ASSUME RefuseUnverifiable PROVE UpdateInv'
  <2>1. [Silent EXCEPT !.kind = "refused"] \in Reports
    BY IdleRecords, Zenon DEF Reports
  <2>2. [Silent EXCEPT !.kind = "refused"].kind = "refused"
    BY Zenon DEF Silent
  <2> QED
    BY <1>0, <1>1, <2>1, <2>2, ReportStep DEF RefuseUnverifiable, UpdateTyped
<1>2. ASSUME UpToDate PROVE UpdateInv'
  <2>1. [Silent EXCEPT !.kind = "uptodate", !.healthy = TRUE] \in Reports
    BY IdleRecords, Zenon DEF Reports
  <2>2. [Silent EXCEPT !.kind = "uptodate", !.healthy = TRUE].kind = "uptodate"
    BY Zenon DEF Silent
  <2> QED
    BY <1>0, <1>2, <2>1, <2>2, ReportStep DEF UpToDate, UpdateTyped
<1>3. ASSUME Accept PROVE UpdateInv'
  <2> DEFINE r == [kind |-> "updated", healthy |-> TRUE, rollback |-> "none", goal |-> cmd.target]
  <2>1. cmd.target \in Nat
    BY <1>0, SMT DEF UpdateTyped, Commands
  <2>2. r \in Reports /\ r.goal = cmd.target
    BY <2>1, Zenon DEF Reports
  <2>3. env.pkg >= cmd.target /\ env.deps \in env.builds
    BY <1>3, <1>0, SMT DEF Accept, Healthy, UpdateInv, SyncedInv, UpdateTyped, Commands
  <2> QED
    BY <1>0, <1>3, <2>2, <2>3, ReportStep DEF Accept, UpdateTyped
<1> QED
  BY <1>1, <1>2, <1>3

\* A rollback that ends reports no health.
LEMMA RollbackEndStep ==
  ASSUME UpdateInv,
         SkipRestore \/ (RestorePackage /\ pc' = "idle") \/ RestoreBrowser
  PROVE  UpdateInv'
<1> DEFINE R(status) == [kind |-> IF cmd.restores THEN "rollback" ELSE "updated",
                         healthy |-> FALSE, rollback |-> status, goal |-> cmd.target]
<1>1. PICK status \in {"skipped", "partial", "full"} : Report(R(status))
  BY DEF SkipRestore, RestorePackage, RestoreBrowser, Verdict
<1>2. R(status) \in Reports /\ R(status).healthy = FALSE
  BY VerdictTyped
<1>3. UpdateTyped /\ UNCHANGED <<snapshot, checkout, latest, commands>>
  BY DEF UpdateInv, SkipRestore, RestorePackage, RestoreBrowser
<1>4. env' \in Environments
  <2>1. CASE SkipRestore
    BY <1>3, <2>1 DEF SkipRestore, UpdateTyped
  <2>2. CASE RestorePackage
    <3>1. cmd.target \in Nat \ {0}
      BY <1>3, <2>2, SMT DEF RestorePackage, UpdateTyped, Commands, NoRelease
    <3>2. Resolve(cmd.target) \in SUBSET (Nat \ {0})
      BY <1>3, <3>1, SMT DEF UpdateTyped, Resolve
    <3> QED
      BY <1>3, <2>2, <3>1, <3>2, PipInstalls DEF RestorePackage, UpdateTyped
  <2>3. CASE RestoreBrowser
    <3>1. PICK b \in Synced(TRUE) \cup Purged(TRUE) : env' = [env EXCEPT !.builds = b]
      BY <2>3 DEF RestoreBrowser
    <3>2. b \in SUBSET Nat
      BY <1>3, BuildsTyped DEF UpdateTyped
    <3> QED
      BY <1>3, <3>1, <3>2, SMT DEF UpdateTyped, Environments
  <2> QED
    BY <2>1, <2>2, <2>3
<1> QED
  BY <1>1, <1>2, <1>3, <1>4, ReportStep

\* The update's invariant is kept by every step.
LEMMA UpdateStep == UpdateInv /\ [UpdateNext]_updateVars => UpdateInv'
<1> SUFFICES ASSUME UpdateInv, [UpdateNext]_updateVars PROVE UpdateInv'
  OBVIOUS
<1>1. CASE Die \/ Publish \/ HostChanges \/ CheckoutGoes \/ UNCHANGED updateVars
  BY <1>1, WorldStep
<1>2. CASE StartUpdate \/ StartRollback
  BY <1>2, CommandStep
<1>3. CASE Check \/ CaptureSnapshot \/ Reject
  BY <1>3, PrepareStep
<1>4. CASE UpgradeFromCheckout \/ UpgradePinned \/ UpgradeRefused \/ SyncBrowser
  BY <1>4, InstallStep
<1>5. CASE RefuseUnverifiable \/ UpToDate \/ Accept
  BY <1>5, EndStep
<1>6. CASE (RestorePackage /\ pc' # "idle") \/ Reconcile
  BY <1>6, RestoreStep
<1>7. CASE SkipRestore \/ (RestorePackage /\ pc' = "idle") \/ RestoreBrowser
  BY <1>7, RollbackEndStep
<1>8. CASE SkipRestore \/ RestorePackage \/ Reconcile \/ RestoreBrowser
  BY <1>6, <1>7, <1>8, Zenon
<1> QED
  BY <1>1, <1>2, <1>3, <1>4, <1>5, <1>8 DEF UpdateNext

\* The package and the browser agree with what the update looked for, and the
\* snapshot with what it found.
THEOREM UpdateInvariant == UpdateSpec => []UpdateInv
  BY UpdateStarts, UpdateStep, PTL DEF UpdateSpec

\* An update reported healthy has reached its release with the browser build of
\* the installed dependencies, however earlier updates failed or died
\* (perform_update).
THEOREM HealthIsReal == UpdateSpec => []HealthyUpdate
<1>1. UpdateInv => HealthyUpdate
  BY DEF UpdateInv, SyncedInv
<1> QED
  BY UpdateInvariant, <1>1, PTL

\* A full rollback of an update whose own snapshot was written restores the
\* package and the dependency tree the update found, whatever was published or
\* changed on the host meanwhile (rollback_to).
THEOREM RollbackIsExact == UpdateSpec => RollbackRestores
<1>1. ASSUME UpdateInv, [UpdateNext]_updateVars, pc = "resync", report'.kind = "updated",
             report'.rollback = "full", cmd.fresh
      PROVE  env'.pkg = cmd.start.pkg /\ env'.deps = cmd.start.deps
  <2>0. UpdateTyped /\ report.kind = "none"
    BY <1>1 DEF UpdateInv, RunningInv
  <2>1. RestoreBrowser
    BY <1>1, <2>0, SMT DEF UpdateNext, updateVars, StartUpdate, RefuseUnverifiable, UpToDate, Check,
       CaptureSnapshot, UpgradeFromCheckout, UpgradePinned, UpgradeRefused,
       SyncBrowser, Accept, Reject, StartRollback, SkipRestore,
       RestorePackage, Reconcile, Die, Publish, HostChanges, CheckoutGoes
  <2>2. PICK b : env' = [env EXCEPT !.builds = b]
    BY <2>1 DEF RestoreBrowser
  <2>3. env'.pkg = env.pkg /\ env'.deps = env.deps
    BY <2>0, <2>2, SMT DEF UpdateTyped, Environments
  <2>4. cmd.sound
    <3>1. ASSUME NEW status \in {"partial", "full"}, Verdict(status) PROVE status = "full"
      BY <1>1, <3>1, Zenon DEF Verdict, Report
    <3> QED
      BY <2>1, <3>1 DEF RestoreBrowser
  <2>5. cmd.fresh = TRUE /\ cmd.sound = TRUE
    BY <1>1, <2>0, <2>4, SMT DEF UpdateTyped, Commands
  <2> QED
    BY <1>1, <2>3, <2>5 DEF UpdateInv, RestoredInv
<1>2. UpdateInv /\ [UpdateNext]_updateVars =>
        [pc = "resync" /\ report'.kind = "updated" /\ report'.rollback = "full" /\ cmd.fresh =>
           env'.pkg = cmd.start.pkg /\ env'.deps = cmd.start.deps]_updateVars
  BY <1>1
<1> QED
  BY UpdateInvariant, <1>2, PTL DEF UpdateSpec, RollbackRestores

=============================================================================
