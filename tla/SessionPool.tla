---------------------------- MODULE SessionPool ----------------------------
(* The session pool (modules/session): pool.json, the profile directories it *)
(* names, and the processes that run session verbs on both.  Every change of *)
(* pool.json is a load, a change and an os.replace under the flock of        *)
(* pool.json.lock; reads, probes of a profile (minutes of browser) and the   *)
(* removal of a directory happen outside it.                                 *)
EXTENDS Integers, Sequences, FiniteSetsExt, SequencesExt

CONSTANTS
    Procs,      \* processes with a SessionManager (the MCP server, a CLI command)
    Admins,     \* the processes that also log in, import, remove and delete
    Own,        \* profile paths under SESSIONS_DIR
    Brave,      \* paths of Brave master profiles, outside SESSIONS_DIR
    NameOf,     \* the name a profile is registered under: [Own \cup Brave -> names]
    Damaged,    \* the content of a damaged pool.json
    MaxVerbs,   \* bound: the verbs started in a behaviour
    MaxDamage   \* bound: how often pool.json is damaged from outside

Paths == Own \cup Brave
Active == "ACTIVE"
Limited == "LIMITED"
AuthRequired == "AUTH_REQUIRED"
Statuses == {Active, Limited, AuthRequired}

NoProc == "none"

\* The profiles under SESSIONS_DIR are finitely many, and a damaged file is one
\* that does not parse as a pool.
ASSUME PoolAssumption ==
    /\ Admins \subseteq Procs /\ NoProc \notin Procs
    /\ IsFiniteSet(Own) /\ Own \cap Brave = {}
    /\ Damaged \notin Seq([id : Nat \ {0}, path : Paths, status : Statuses])
    /\ MaxVerbs \in Nat
    /\ MaxDamage \in Nat

VARIABLES
    pool,    \* pool.json: the sequence of entries [id, path, status], or Damaged
    dirs,    \* the own profiles whose directory holds Chromium content
    saved,   \* the own profiles with a backup generation (kept inside the profile)
    lock,    \* the holder of pool.json.lock, or NoProc
    proc,    \* the verb each process runs: see Idle
    verbs,   \* the number of verbs started
    damage   \* the number of times the file was damaged

vars == <<pool, dirs, saved, lock, proc, verbs, damage>>

NoOp == [kind |-> "none"]

\* pc: where the verb stands; op: what it changes under the lock; then: where it
\* goes on after that; arg: the profile it is about; view: the pool it read; buf:
\* the pool it loaded under the lock; todo: the sessions still to be probed (or
\* the verdicts still to be marked); out: what the last verb answered.
Idle == [pc |-> "idle", verb |-> "none", op |-> NoOp, then |-> "idle",
         arg |-> "none", view |-> <<>>, buf |-> <<>>, todo |-> <<>>, out |-> "none"]

Init ==
    /\ pool = <<>>
    /\ dirs \in SUBSET Own
    /\ saved = {}
    /\ lock = NoProc
    /\ proc = [p \in Procs |-> Idle]
    /\ verbs = 0
    /\ damage = 0

-----------------------------------------------------------------------------
(* The pool as a value (SessionPool, SessionManager's helpers).              *)

Known(s) == {e.path : e \in ToSet(s)}

\* Mutant: ids follow the length of the pool.
NextIdByLength(s) == Len(s) + 1

\* One past the greatest id there is; the id of a removed session comes back.
NextId(s) == 1 + Max({0} \cup {e.id : e \in ToSet(s)})
Entry(s, path) == [id |-> NextId(s), path |-> path, status |-> AuthRequired]
AddSession(s, path) ==
    IF path \in Known(s) THEN s ELSE Append(s, Entry(s, path))

\* Every profile directory that the pool does not name is added, in name order,
\* each under the next id.
RegisterDiscovered(s, present) ==
    LET new == SetToSeq(present \ Known(s))
    IN  s \o [i \in DOMAIN new |-> [Entry(s, new[i]) EXCEPT !.id = @ + (i - 1)]]

DropAt(s, hits) == IF hits = {} THEN s ELSE RemoveAt(s, Min(hits))
DropId(s, id) == DropAt(s, {i \in DOMAIN s : s[i].id = id})

\* Mutant: every session of the name goes.
DropNames(s, name) == SelectSeq(s, LAMBDA e : NameOf[e.path] # name)

DropName(s, name) == DropAt(s, {i \in DOMAIN s : NameOf[s[i].path] = name})

Mark(s, id, status) ==
    [i \in DOMAIN s |-> IF s[i].id = id THEN [s[i] EXCEPT !.status = status] ELSE s[i]]

\* What a locked verb does with the pool it loaded.
Apply(op, s) ==
    CASE op.kind \in {"add", "clone"} -> AddSession(s, op.path)
      [] op.kind = "remove"     -> DropId(s, op.id)
      [] op.kind = "removeName" -> DropName(s, op.name)
      [] op.kind = "mark"       -> Mark(s, op.id, op.status)
      [] OTHER                  -> s

-----------------------------------------------------------------------------
(* Reading and changing pool.json.                                           *)

Go(p, pc) == proc' = [proc EXCEPT ![p].pc = pc]

\* The verb answers; only a deletion's answer is looked at again.
Finish(p, out) ==
    proc' = [proc EXCEPT ![p] = IF out = "deleted"
                                THEN [Idle EXCEPT !.out = out, !.arg = proc[p].arg]
                                ELSE Idle]

\* The verb goes on to change the pool under the lock.
Ask(p, op, then) ==
    proc' = [proc EXCEPT ![p].pc = "lock", ![p].op = op, ![p].then = then]

Begin(p, verb, path, pc) ==
    /\ proc[p].pc = "idle"
    /\ verbs < MaxVerbs
    /\ verbs' = verbs + 1
    /\ proc' = [proc EXCEPT ![p] = [Idle EXCEPT !.pc = pc, !.verb = verb, !.arg = path]]

\* load_pool without the lock; a profile it does not know sends the verb to the
\* lock first, a damaged file to the quarantine.
Read(p) ==
    /\ proc[p].pc = "read"
    /\ IF pool = Damaged
       THEN Go(p, "quarantine")
       ELSE IF dirs \subseteq Known(pool)
            THEN proc' = [proc EXCEPT ![p].pc = "have", ![p].view = pool]
            ELSE Ask(p, [kind |-> "discover"], "have")
    /\ UNCHANGED <<pool, dirs, saved, lock, verbs, damage>>

\* The reader moves aside whatever file stands there by now.
Quarantine(p) ==
    /\ proc[p].pc = "quarantine"
    /\ pool' = <<>>
    /\ IF dirs = {}
       THEN proc' = [proc EXCEPT ![p].pc = "have", ![p].view = <<>>]
       ELSE Ask(p, [kind |-> "discover"], "have")
    /\ UNCHANGED <<dirs, saved, lock, verbs, damage>>

\* Under the lock: load (quarantining a damaged file) and look for new profiles.
Load(p) ==
    /\ proc[p].pc = "lock"
    /\ lock = NoProc
    /\ LET s == IF pool = Damaged THEN <<>> ELSE pool
       IN  /\ pool' = s
           /\ proc' = [proc EXCEPT ![p].pc = IF dirs \subseteq Known(s) THEN "held" ELSE "new",
                                   ![p].buf = RegisterDiscovered(s, dirs)]
    /\ lock' = p
    /\ UNCHANGED <<dirs, saved, verbs, damage>>

\* The profiles discovered are saved before the verb's own change is made.
SaveDiscovered(p) ==
    /\ proc[p].pc = "new"
    /\ pool' = proc[p].buf
    /\ Go(p, "held")
    /\ UNCHANGED <<dirs, saved, lock, verbs, damage>>

\* The change, the save and the release of the lock.  A discovery was saved when
\* it was loaded, and a session that is not there is not removed.
Save(p) ==
    /\ proc[p].pc = "held"
    /\ LET op == proc[p].op
           s == Apply(op, proc[p].buf)
       IN  /\ pool' = IF op.kind \in {"add", "mark", "used"} \/ s # proc[p].buf
                      THEN s ELSE pool
           /\ dirs' = IF op.kind = "clone" /\ s # proc[p].buf
                      THEN dirs \cup {op.path} ELSE dirs
           /\ proc' = [proc EXCEPT ![p].pc = proc[p].then, ![p].op = NoOp, ![p].buf = <<>>,
                                   ![p].view = IF op.kind = "discover" THEN s ELSE @]
    /\ lock' = NoProc
    /\ UNCHANGED <<saved, verbs, damage>>

-----------------------------------------------------------------------------
(* Probing a profile (the two checkers, validation and renewal).             *)

\* What a probe's headless browser comes back with.
Outcomes == {"ok", "limit_banner", "expired", "no_composer", "raises", "timeout"}

LimitVerdict(o) == IF o \in {"ok", "expired"} THEN Active ELSE Limited
LoginVerdict(o) == IF o \in {"ok", "limit_banner"} THEN Active ELSE AuthRequired

\* A session that is not logged in is not asked about its quota.
Combined(login, limit) == IF login = AuthRequired THEN login ELSE limit

\* A stale cookie can be renewed while the refresh token lives, by a warm-up of
\* the master profile.
Renews(auth, refresh, warmed) == auth \/ (refresh /\ warmed)

\* A profile counts as logged in when the probe says so, at once or after a
\* renewal.
Validated(first, renewed, second) == first \/ (renewed /\ second)

RotationVerdicts == {LimitVerdict(o) : o \in Outcomes}
HealthVerdicts == {Combined(LoginVerdict(o), LimitVerdict(l)) : o, l \in Outcomes}
LoginResults == {Validated(first, Renews(auth, refresh, warmed), second) :
                    first, auth, refresh, warmed, second \in BOOLEAN}

-----------------------------------------------------------------------------
(* The session verbs.                                                        *)

\* login: the headed browser fills the profile, whatever becomes of the login.
StartLogin(p) ==
    \E a \in Own :
        /\ Begin(p, "login", a, "browser")
        /\ dirs' = dirs \cup {a}
        /\ UNCHANGED <<pool, saved, lock, damage>>

\* The window is gone: a valid profile is snapshotted and registered.
EndLogin(p) ==
    /\ proc[p].pc = "browser"
    /\ \E valid \in LoginResults, copied \in BOOLEAN :
         IF valid
         THEN /\ Ask(p, [kind |-> "add", path |-> proc[p].arg], "done")
              /\ saved' = IF copied THEN saved \cup ({proc[p].arg} \cap dirs) ELSE saved
         ELSE Finish(p, "failed") /\ UNCHANGED saved
    /\ UNCHANGED <<pool, dirs, lock, verbs, damage>>

\* brave_import registers the Brave master itself; import_brave_profile clones it
\* into SESSIONS_DIR first, under the lock.
StartImport(p) ==
    \E b \in Brave :
        /\ Begin(p, "import", b, "import")
        /\ UNCHANGED <<pool, dirs, saved, lock, damage>>

Import(p) ==
    /\ proc[p].pc = "import"
    /\ \/ Ask(p, [kind |-> "add", path |-> proc[p].arg], "done")
       \/ \E a \in Own : Ask(p, [kind |-> "clone", path |-> a], "done")
    /\ UNCHANGED <<pool, dirs, saved, lock, verbs, damage>>

\* Verbs that begin by reading the pool: listing, removal and deletion by name,
\* rotation (with or without a prompt to run), the health check.
StartReading(p) ==
    \E v \in {"list", "rotate", "execute", "health"} \cup
             (IF p \in Admins THEN {"remove", "delete"} ELSE {}), x \in Paths :
        /\ v \notin {"remove", "delete"} => x = CHOOSE y \in Paths : TRUE
        /\ Begin(p, v, x, "read")
        /\ UNCHANGED <<pool, dirs, saved, lock, damage>>

List(p) ==
    /\ proc[p].pc = "have" /\ proc[p].verb = "list"
    /\ Finish(p, "done")
    /\ UNCHANGED <<pool, dirs, saved, lock, verbs, damage>>

\* Where the pool read has the name, or the path, of the profile asked for.
Named(p) == {i \in DOMAIN proc[p].view : NameOf[proc[p].view[i].path] = NameOf[proc[p].arg]}
At(p) == {i \in DOMAIN proc[p].view : proc[p].view[i].path = proc[p].arg}

\* Of several sessions the verbs take the first.
First(p, hits) == proc[p].view[Min(hits)]

\* remove_session: the entry found by name is dropped by its id; the directory
\* stays.
RemoveNamed(p) ==
    /\ proc[p].pc = "have" /\ proc[p].verb = "remove"
    /\ IF Named(p) = {}
       THEN Finish(p, "failed")
       ELSE Ask(p, [kind |-> "remove", id |-> First(p, Named(p)).id], "done")
    /\ UNCHANGED <<pool, dirs, saved, lock, verbs, damage>>

\* delete names a path outright, or the first session of a name.
ResolveName(p) ==
    /\ proc[p].pc = "have" /\ proc[p].verb = "delete"
    /\ IF Named(p) = {}
       THEN Finish(p, "failed")
       ELSE proc' = [proc EXCEPT ![p].arg = First(p, Named(p)).path, ![p].pc = "rmtree"]
    /\ UNCHANGED <<pool, dirs, saved, lock, verbs, damage>>

StartDeletePath(p) ==
    \E a \in Own :
        /\ Begin(p, "drop", a, "rmtree")
        /\ UNCHANGED <<pool, dirs, saved, lock, damage>>

\* Never outside SESSIONS_DIR, and never without a backup unless it is forced.
RefuseDelete(p) ==
    /\ proc[p].pc = "rmtree"
    /\ proc[p].arg \in Brave \/ proc[p].arg \notin saved
    /\ Finish(p, "failed")
    /\ UNCHANGED <<pool, dirs, saved, lock, verbs, damage>>

\* The removal stops half way: the content may be gone, or not.
HalfDelete(p) ==
    /\ proc[p].pc = "rmtree"
    /\ proc[p].arg \in dirs
    /\ \E left \in SUBSET {proc[p].arg} : dirs' = (dirs \ {proc[p].arg}) \cup left
    /\ saved' = saved \cap dirs'
    /\ Finish(p, "failed")
    /\ UNCHANGED <<pool, lock, verbs, damage>>

\* The profile goes, its backups with it; then its entry, found by the name asked
\* for or by one more reading of the pool.
DeleteProfile(p) ==
    /\ proc[p].pc = "rmtree"
    /\ proc[p].arg \in Own
    /\ dirs' = dirs \ {proc[p].arg}
    /\ saved' = saved \ {proc[p].arg}
    /\ IF proc[p].verb = "delete"
       THEN Ask(p, [kind |-> "removeName", name |-> NameOf[proc[p].arg]], "deleted")
       ELSE Go(p, "read")
    /\ UNCHANGED <<pool, lock, verbs, damage>>

DropByPath(p) ==
    /\ proc[p].pc = "have" /\ proc[p].verb = "drop"
    /\ IF At(p) = {}
       THEN Go(p, "deleted")
       ELSE Ask(p, [kind |-> "remove", id |-> First(p, At(p)).id], "deleted")
    /\ UNCHANGED <<pool, dirs, saved, lock, verbs, damage>>

Answer(p) ==
    /\ proc[p].pc \in {"done", "deleted"}
    /\ Finish(p, proc[p].pc)
    /\ UNCHANGED <<pool, dirs, saved, lock, verbs, damage>>

\* rotate: the sessions in pool order, without those the caller has tried.
Candidates(p) ==
    /\ proc[p].pc = "have" /\ proc[p].verb \in {"rotate", "execute"}
    /\ \E skip \in {{}} \cup {{e.path} : e \in ToSet(proc[p].view)} :
         /\ proc[p].verb = "execute" => skip = {}
         /\ proc' = [proc EXCEPT ![p].pc = "probe", ![p].view = <<>>,
                        ![p].todo = SelectSeq(proc[p].view, LAMBDA e : e.path \notin skip)]
    /\ UNCHANGED <<pool, dirs, saved, lock, verbs, damage>>

\* One candidate is probed; the verdict will be marked under its id, and the
\* first healthy one ends the pass.
Probe(p) ==
    /\ proc[p].pc = "probe"
    /\ proc[p].todo # <<>>
    /\ \E verdict \in RotationVerdicts :
         LET c == Head(proc[p].todo)
         IN  proc' = [proc EXCEPT ![p].pc = "lock", ![p].todo = Tail(@),
                        ![p].op = [kind |-> "mark", id |-> c.id, status |-> verdict],
                        ![p].then = IF verdict = Active THEN "found" ELSE "probe",
                        ![p].arg = IF verdict = Active THEN c.path ELSE @]
    /\ UNCHANGED <<pool, dirs, saved, lock, verbs, damage>>

\* Mutant: an empty pool is not answered.
NoEligibleUnlessEmpty(p) ==
    /\ proc[p].pc = "probe"
    /\ proc[p].todo = <<>>
    /\ pool # <<>>
    /\ Finish(p, "none")
    /\ UNCHANGED <<pool, dirs, saved, lock, verbs, damage>>

\* The pool is empty, or every candidate was excluded or found unhealthy.
NoEligible(p) ==
    /\ proc[p].pc = "probe"
    /\ proc[p].todo = <<>>
    /\ Finish(p, "none")
    /\ UNCHANGED <<pool, dirs, saved, lock, verbs, damage>>

\* execute_with_rotation runs its prompt on the session and counts the use.
Found(p) ==
    /\ proc[p].pc = "found"
    /\ IF proc[p].verb = "rotate"
       THEN Go(p, "done")
       ELSE Ask(p, [kind |-> "used"], "done")
    /\ UNCHANGED <<pool, dirs, saved, lock, verbs, damage>>

\* check_health: both checkers on every session at once, then the verdicts are
\* marked one after the other.
CheckAll(p) ==
    /\ proc[p].pc = "have" /\ proc[p].verb = "health"
    /\ \E v \in [DOMAIN proc[p].view -> HealthVerdicts] :
         proc' = [proc EXCEPT ![p].pc = "marking", ![p].view = <<>>,
                    ![p].todo = [i \in DOMAIN v |-> [proc[p].view[i] EXCEPT !.status = v[i]]]]
    /\ UNCHANGED <<pool, dirs, saved, lock, verbs, damage>>

MarkNext(p) ==
    /\ proc[p].pc = "marking"
    /\ IF proc[p].todo = <<>>
       THEN Go(p, "done")
       ELSE LET c == Head(proc[p].todo)
            IN  proc' = [proc EXCEPT ![p].pc = "lock", ![p].then = "marking", ![p].todo = Tail(@),
                           ![p].op = [kind |-> "mark", id |-> c.id, status |-> c.status]]
    /\ UNCHANGED <<pool, dirs, saved, lock, verbs, damage>>

-----------------------------------------------------------------------------
(* The environment.                                                          *)

\* A process dies; the kernel gives its lock back.
Crash(p) ==
    /\ proc[p].pc # "idle"
    /\ proc' = [proc EXCEPT ![p] = Idle]
    /\ lock' = IF lock = p THEN NoProc ELSE lock
    /\ UNCHANGED <<pool, dirs, saved, verbs, damage>>

\* The legacy profile is moved in, or a profile directory is copied in by hand.
ProfileAppears ==
    \E a \in Own \ dirs :
        /\ dirs' = dirs \cup {a}
        /\ verbs < MaxVerbs /\ verbs' = verbs + 1
        /\ UNCHANGED <<pool, saved, lock, proc, damage>>

DamageFile ==
    /\ damage < MaxDamage
    /\ damage' = damage + 1
    /\ pool' = Damaged
    /\ UNCHANGED <<dirs, saved, lock, proc, verbs>>

Verb(p) ==
    \/ Read(p) \/ Quarantine(p) \/ Load(p) \/ SaveDiscovered(p) \/ Save(p)
    \/ EndLogin(p) \/ Import(p) \/ List(p) \/ RemoveNamed(p)
    \/ ResolveName(p) \/ RefuseDelete(p) \/ HalfDelete(p) \/ DeleteProfile(p) \/ DropByPath(p)
    \/ Candidates(p) \/ Probe(p) \/ NoEligible(p) \/ Found(p) \/ CheckAll(p) \/ MarkNext(p)
    \/ Answer(p)

Start(p) ==
    \/ StartReading(p)
    \/ p \in Admins /\ (StartLogin(p) \/ StartImport(p) \/ StartDeletePath(p))

Next ==
    \/ \E p \in Procs : Start(p) \/ Verb(p) \/ Crash(p)
    \/ ProfileAppears \/ DamageFile

Spec == Init /\ [][Next]_vars

\* A process that runs a verb keeps running it, and flock is granted in the end.
FairSpec == Spec /\ \A p \in Procs : WF_vars(Verb(p)) /\ SF_vars(Load(p))

-----------------------------------------------------------------------------
(* Properties.                                                               *)

Table == IF pool = Damaged THEN {} ELSE ToSet(pool)

\* The variables have their types, and the lock is held exactly by the process
\* whose verb is between its load and its save (_pool_lock).
TypeOK ==
    /\ \A e \in Table : e.id \in Nat \ {0} /\ e.path \in Paths /\ e.status \in Statuses
    /\ pool # Damaged => Cardinality(Table) = Len(pool)
    /\ dirs \subseteq Own /\ saved \subseteq dirs
    /\ \A p \in Procs : proc[p].pc \in {"new", "held"} <=> lock = p

Registry == INSTANCE SessionRegistry WITH table <- Table

\* Whatever the processes interleave, pool.json behaves as a table keyed by id and
\* by path that one verb changes at a time: no writer undoes another's update
\* (load_pool, _pool_lock and every locked verb).
ImplementsRegistry == Registry!RegistrySpec

\* While one process at a time manages sessions, a deletion drops the entry of
\* the profile it removed and no other, however rotations discover and mark
\* meanwhile (_delete, remove_session_by_name, remove_session).
DeleteDropsOnlyItsTarget ==
    [][\A p \in Procs :
        proc[p].pc = "held" /\ proc[p].then = "deleted" /\ damage' = 0 =>
            \A e \in Table : e \in Table' \/ e.path = proc[p].arg]_vars

\* Every verb ends: the lock is never waited for in vain, and no rotation or
\* health check goes round for ever (rotate, _run_pool_checks).
VerbsEnd == \A p \in Procs : proc[p].pc # "idle" ~> proc[p].pc = "idle"

=============================================================================
