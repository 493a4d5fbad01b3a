# qwen-web-arwaky: a TLA+ model of the program

The program drives the Qwen web chat through browsers on behalf of CLI, TUI and
MCP clients. Prompts run in the foreground, in the background (jobs), in parallel
under role templates (swarms), and against a pool of logged-in browser profiles
(sessions). Several processes (the MCP server, CLI calls, the TUI) share one state
directory; inside a process, worker threads, heartbeat threads, pollers and cancel
calls share memory. These modules describe the program from its surfaces to the
page it drives, check it with TLC on small instances, and prove the main safety
properties of its concurrent core with TLAPS for all instances.

Paths below are relative to `src/modules/`.

## 1. The system

| component (code) | state | operations | interacts through | module |
|---|---|---|---|---|
| job orchestrator (`jobs/src/agent_job_orchestrator.py`) | admission semaphore, `_inflight` deque, executor queue, breaker, limiter | submit file / attachment job, run, save start and outcome, release, shutdown | records on disk; the prompt adapters, on worker threads | JobQueue |
| job storage, heartbeat (`jobs/src/capabilities_job_storage.py`, `agent_job_orchestrator.py`) | one JSON file per job; a "reconciled" flag per process; a thread per running job | save, read, list, zombie sweep, restamp, retention | every process of the host reads and writes the same files | JobRecords |
| file writers (`shared/src/common/utility_io_writer.py`, `shared/src/swarm/utility_swarm_runner_base.py`, `session_manager.save_pool`) | target, temporary file, lock file | lock, write temporary, rename, clean up | the kernel's file system, several processes | AtomicWrite |
| swarm runner, registry, cancel (`swarm/src/`) | shared snapshot, cancel events, executor, `manifest.json` | open, start legs, leg loop with retries, cancel, release | legs, pollers and the cancel verb through the registry's lock | Swarm |
| circuit breaker, rate limiter (`shared/src/common/taxonomy_core_entity.py`) | sliding windows of failures and starts | record, prune, try_acquire | jobs and swarm legs | JobQueue, Swarm (abstractly) |
| lifecycle gate and emitter (same file) | the events a prompt run has accepted | validate, roll back for a retry, emit | adapters, dispatcher, send, monitor and saver of one run | LifecycleGate, PromptRun |
| prompt adapters, dispatcher, cancel registry (`prompt/src/`) | one run: browser context, gate, output file; runs by id and by cancel event | pre-flight, open page, upload, attempts, save, release; register, cancel | job workers, swarm legs, TUI slots; the cancel verb from another thread | PromptRun, Intake |
| prompt runtime, browser navigation (`prompt_runtime/src/`, `browser/src/`) | the page | new chat, model, upload, inject, send, acknowledge, stream | an external web page | SendTurn |
| session pool and rotation (`session/src/capabilities_session_manager.py`, `..._rotator.py`, `agent_session_orchestrator.py`) | `pool.json`, profile directories | load (discovery, quarantine), add, import, remove, mark, delete, rotate, health check, renewal | flock between processes; the browser probe runs outside it | SessionPool |
| session profiles, browser lifecycle (`session/src/capabilities_session_profile_preparer.py`, `shared/src/session/utility_session_cloner.py`, `shared/src/common/utility_core_session_backup.py`, `browser/src/capabilities_browser_lifecycle.py`) | a Chromium profile, its clones, its singleton lock, its backups | clone, sweep, launch, close, snapshot, prune, restore | processes that use one profile | Profiles |
| update (`update/src/`) | the Python environment, `pip-freeze.txt`, the browser cache | check, snapshot, upgrade, sync, verify, roll back | pip, git, Playwright, GitHub | Update |
| TUI (`tui/src/`) | worker slots, dialogs, swarm, sessions and settings screens | run, cancel, confirm, quit, start and watch a swarm, refresh, delete, edit a setting | threads of the TUI; the pool; the cancel registry; the override file | TuiSlots, Tui |
| folder compiler (`jobs/src/capabilities_folder_*.py`, `shared/src/common/utility_folder_compiler.py`) | cached indexes of notes; bundles | scan, resolve imports, walk, write the bundle | the project's files, which are edited meanwhile | FolderBundle, Intake |
| configuration (`config/src/`, `shared/src/config/`) | none but the workspace's directories | sandbox, timeouts, worker counts, diagnoses, path checks, init | environment variables, the host, the workspace | Settings, Intake |
| output saver (`prompt_runtime/src/capabilities_output_saver.py`) | answer, sidecar | reserve a name, write, release, verify | other runs, init, the operator's directories | Intake |
| CLI and MCP surfaces (`root_*_main_entry.py`, `cli/src/`, `mcp/src/`) | none; the server's caches | check the input, call the component, answer | all of the above | Surfaces, Intake |
| observability, status text, developer scripts | | | | not modelled |

What is hard here: worker threads and callers interleave on counters kept in two
places; records and manifests are written outside the lock that protects the
memory they copy; sweeps in another process judge liveness by pid and by a clock;
cancels race the very updates they try to stop; a verdict of a probe is stored
minutes after the table it came from was read; a page acknowledges late, or loses
what it took; dialogs and workers act on rows and slots that have changed since;
the same question (is the sandbox usable, may this path be written, how many
workers) is answered in several places; every write may fail and every process may
die between two steps. PROJECT.json lists these hazards with the line each one
bites at and the property that watches it.

What makes the components correct:

* jobs: no slot is lost or returned twice; a job runs once; an outcome is on disk
  before the slot is reusable; admitted jobs end.
* records: a live job is never declared dead; a dead one is, by the first poll
  after a restart; an outcome is final.
* writers: a reader sees a whole version; a call that returns has published its
  own text; nobody blocks on a dead writer.
* swarm: the run's status and its legs' agree; cancelled stays cancelled; finished
  work is kept; nothing starts after a cancel; every run settles.
* prompt runs: events in the order of the pipeline across retries; a verdict that
  agrees with the file and with the retries spent; a cancel that reaches its run
  and no other; every run ends and is released.
* conversation: a complete answer is the whole answer to a turn of this run; an
  acknowledgement is a committed turn; a document is parsed before its prompt.
* sessions: concurrent verbs lose none of each other's updates; a deletion drops
  what it was asked to drop; a job that prepared a clone has it to itself; a
  profile that has a complete backup keeps one.
* update: a healthy verdict means the release is installed with a browser that
  fits it; a full rollback restores what the update began with.
* TUI: a confirmed dialog acts on what it named; what was started comes back; a
  setting means the same after a restart.
* intake: a bundle holds what the folder's bounded imports reach inside the
  boundary; a reply agrees with what happened; no saved answer and no file of the
  operator is lost.

## 2. Plan

Done, in the order of importance the plan had: JobQueue with its abstract
specification BoundedBacklog and JobQueueProofs; JobRecords; AtomicWrite; Swarm and
SwarmProofs; LifecycleGate, PromptRun and PromptRunProofs; SessionPool with its
abstract specification SessionRegistry; Profiles; SendTurn; Update; TuiSlots and
Tui; FolderBundle, Settings and Surfaces, composed in Intake.

Then the proofs: of JobQueue, Swarm and PromptRun first, next AtomicWrite, JobRecords,
PromptRun's verdicts and SendTurn, then the refinement SessionPool =>
SessionRegistry with SessionPool's deletions, Profiles, Update and Tui, and last
Intake's `NothingLost` and `ReplyIsHonest`.

What is left: the breaker's and the limiter's windows over a bounded clock, against
reference definitions (number of failures / starts in the window).

## 3. Modules and how they correspond to the code

Every action carries a comment where the code's order matters, and
PROJECT.json's `map` names the lines of every definition. Operators marked
"Mutant" in a module are wrong variants of the definition below them, used to show
that the properties can fail; nothing else refers to them.

**BoundedBacklog** says what callers of the orchestrator may rely on: at most
`Capacity` jobs admitted, at most `MaxWorkers` running, each job begun at most once,
none after shutdown.

**JobQueue** is one process. A job's `stage` is the next statement of the thread
that serves it: the caller in `_submit_file` / `_submit_attachment` (`reserved` ..
`entered`), the executor's queue, the worker in `_run_file_job` /
`_run_attachment_job` (`dispatching` .. `releasing`, `popped`). `permits` is the
semaphore, `inflight` the deque's length, `failures` the breaker's window; each is
changed by the statement that changes it in the code, so that all interleavings of
those statements occur. `disk = "faulty"` lets each `save_job` raise. Three stages are dead
ends of the code and named as such: `leaked` (the submit record could not be
written: no release follows), `orphaned` (dispatch after shutdown raised), `cancelled`
(futures drained by shutdown). The limiter is an arbitrary finite wait.

**JobRecords** is a host: processes with pids, the record files, the owner's worker
and heartbeat threads, the sweep of `ensure_reconciled`. Time is a `Tick` that may
pass only when nothing due is undone (`MayTick`), which states how punctual threads are; a record
carries the age of its stamp. A process death turns its unsettled jobs into `lost`.
The constant `Hosts` names the conditions a behaviour is under: how long a
job waits for a worker, whether pids are recycled, whether writes by heartbeat and
sweep fail, whether writes may hang.

**AtomicWrite** is the write-temporary-and-rename pattern at the level of names and inodes,
for the three ways the code uses it: with no lock and one name per target (job
records, status files, sidecars), with a flock and one name (manifest), with a flock and a
name by pid (pool).

**Swarm** is one run: `SwarmRunner.start`, one thread per leg (`_run_agent_isolated`),
`SwarmCancelRunner.cancel`. `mem` is the registry's snapshot, changed under its lock in one step;
`copy[t]` is the snapshot thread `t` took there and has still to write to the manifest. The leg's label `pc[r]` is the place in the attempt
loop; `attempt`, `event`, `tripped` are the loop's number, the leg's cancel event and the
breaker. A failing manifest write raises in the thread that made it.

**LifecycleGate** has no state: the two event sequences, the gate's verdict on an
event after those accepted (`Accepts`), and what a retry keeps of them (`RolledBack`).

**PromptRun** is a set of prompt runs in one process, each on its own thread, and calls of
`cancel_by_event` on others. `pc[r]` is the next step of a run's thread from `register` to `release`; a
run is of one of the kinds direct, file and attachment, which differ in the registry (direct runs are not in
it) and in the sequence (attachments have two more events). `completed[r]` is the gate's list,
`attempt` and `stalls` the locals of `dispatch_and_wait_for_response`, `err` the exception in flight;
`Release` drops these locals, as the return does. The web page is arbitrary: each wait for it ends in any of its outcomes. A canceller
is five lock sections in a row (`ResolveEvent` .. `CloseContext`), because the registry takes its lock for
one look-up at a time. `Poll` and the event it leads to are one step: nothing another thread
does between them is read by that poll. `plan`, chosen once, is the situation (which run of which kind with which event,
the attempts, the stall budget, whether the disk may fail). A run of this module is what
JobQueue abstracts to `executing` and Swarm to the time between `Launch` and `Succeed` or `RunRaises`.

**SendTurn** is what PromptRun leaves arbitrary: one run and a page that moves on its own. The
run navigates, starts a chat, reads the model's label, uploads a document, injects,
sends with its fallbacks (click, click again behind a toast, Enter), waits for an
acknowledgement and polls. The page renders and parses a card, hides a toast, empties
its composer, commits a turn or loses it, thinks, streams a piece and ends when it
likes. A deadline of the code is a step that may come at any time. An answer is a
number of pieces of a turn, so that a text is known by its turn and length; `sentBare`
is a history variable.

**SessionRegistry** is the promise of the pool: a table keyed by id and by path that one verb
changes at a time. **SessionPool** is `pool.json`, the profile directories and the processes that
run session verbs. A verb is `Start*`, then for each locked section `Load` (which discovers and
quarantines) and a save, with its probes, its deletion of a directory and its later marks by id
outside the lock. The status of a probe is arbitrary. A process may die anywhere; the kernel
frees its flock.

**Profiles** is one profile: who launches a browser on it or on a clone, Chromium's
`SingletonLock`, the sweep of stale clones, the generations of backups kept inside it, and an
operator's restore. `wiring` is fixed at the start: `direct` is what the containers wire
(`browser_session` on `cfg.session_path`), `prepared` is a caller that passes the path
`ProfilePreparer.prepare` yields. A day passing makes clones and backups old enough for the
sweep and the pruning.

**Update** is the installed program (`env`: package, dependencies, browser builds), the
snapshot, the checkout, the releases on GitHub and one command at a time. Each external
call may fail or do half of its work; a process may die between two steps, and a release may
appear meanwhile. `fit` stands for those checks of the verification that the update does not change.

**TuiSlots** is the workers store: handlers run one at a time on the interface's thread, so each
is one action; a run's thread reads the slot's generation and its cancel event some time after it was
started (`FirstRead`, `SecondRead`) and finalises the slot through the interface (`Finalize`).
**Tui** adds the swarm, sessions and settings screens and the check of the session at start, with their own
workers. A behaviour uses one `screen`, since the screens share only the stack of dialogs.

**FolderBundle** has no variables: the scan, the candidates of a specifier for each
language, the resolution, one step of the walk (`FollowSpec`, `FollowFile`, `NextHop`) and, as a
reference, the closure the walk should compute (`Closure`, which is not a translation but a definition over
sets). **Settings** has the switch, timeouts and worker counts as each of the places that work them
out does (a run, the config verbs, the doctor), a run's configuration and its validation, the
diagnoses and the path checks. **Surfaces** has the checks each verb of the command line and the
server makes of its input, in order, and the reply for each way the component may end.

**Intake** composes the three: requests that go through a surface's checks, the
materialisation of a role's template, the compilation of a folder file by file, the pre-flight, the
browser (one step), the save in its four steps and the verification; the steps of `init`;
verbs that are answered in one step; edits of the project, directories made by the operator,
the clock that names bundles, and deaths. `agenda`, chosen once, says what may come in a
behaviour. A location on disk is a directory, a name and a suffix; `local` is
the link `.qwen-web-arwaky/output` and `Phys` follows it.

JobQueue and JobRecords describe the same jobs from two sides: JobQueue abstracts the
record to its state and JobRecords the queue to a wait (`host.wait`). JobQueue's
`SaveSubmitted`, `SaveStarted` and `SaveTerminal` are JobRecords' `Submit`, `Begin` and `SaveTerminal`;
their writes, those of SessionPool and Intake's sidecars are calls of AtomicWrite, whose
`NeverTorn` for locked or own-name writers says how far "one step" is right.
Intake's `RunEnds` is a run of PromptRun, whose `Inject` to `MonitorRaises` are SendTurn.

## 4. Runs

| run | instance | states | shows |
|---|---|---|---|
| JobQueue | 2 file jobs, 1 attachment job, 2 slots, 2 workers, breaker at 1 failure, sound and faulty disk, shutdown at any time | 64 thousand | slots conserved, depth never above the truth, queue exact, outcome before release, dispatched jobs end, and the queue implements BoundedBacklog |
| JobRecords | 2 jobs, 2 processes, lease 2; orderly, pid-recycling and faulty hosts | 321 thousand | live jobs never reconciled, outcomes final, lost jobs settled by the first poll |
| AtomicWrite | 3 writers, all 8 combinations of lock, own name, faults; crashes | 19 thousand | no torn file, no foreign text, nobody blocked by a dead writer |
| Swarm | 2 legs, 2 threads, 2 attempts; sound and faulty disk; repeated cancels | 783 thousand | status agrees with legs, cancel final, results kept, nothing launched after cancel, every run settles |
| PromptRun | one run of each kind, 3 attempts, stall budget 0 or 1, disk faults, a cancel at any time; two file runs one after the other on one cancel event, or at once on two | 304 thousand | event order across retries, verdicts that agree with file, events and retries, exact registry, cancels that reach their run only, every run ends |
| SessionPool | a server that rotates and an operator's process with every verb, one own profile and one Brave master of the same name, 3 verbs, one damaged file, crashes | 350 thousand | the pool implements SessionRegistry, a deletion drops only its target, every verb ends |
| Profiles | 2 runs at a time and 5 in a behaviour, both wirings, 2 generations, one day, kills | 2.95 million | a prepared job's clone is its own, a complete backup is kept |
| Profiles_shared | the same, wired as the containers do | (violation) | two jobs open one profile at once |
| SendTurn | answers of 3 pieces, 3 unchanged polls, 3 attempts, 3 uploads, 2 lost turns | 699 thousand | a complete answer is whole and this run's, the first acknowledgement is real, no turn without its document |
| Update | 3 releases, 3 commands, failures of every external call, deaths | 360 thousand | a healthy update has what it reports, a full rollback restores |
| Tui | every screen; 2 slots and 2 runs, 2 swarms, 2 changes of the pool or of a setting, one dialog at a time | 879 thousand | a dialog acts on what it asked, what was started comes back, a setting survives a restart |
| Intake | 2 requests in each of 18 agendas (below) | 1.05 million | a bundle is its closure, replies are honest, nothing is lost |

**Profiles_shared** is a statement of the repository that the code does not keep:
`browser_session` says of itself (capabilities_browser_lifecycle.py:108-111) "For prompt jobs, runs in
an isolated ephemeral copy of the session directory so multiple jobs can execute concurrently in
parallel", but no wired caller passes a clone, and every launch removes the singleton lock first, so a second job's browser opens on the
profile of the first.

### Bounds

Two jobs, legs, processes, runs or requests are what it takes for one to take the other's
token, slot, temporary file, entry, clone or destination. The third job in JobQueue is there for capacity to
run out and for a queue of length two, and the third writer in AtomicWrite for a writer to meet the leftovers of
a dead one while another is at work. Two attempts reach both the first and the last branch of the
swarm's retry loop. A lease of two ticks is the least with a heartbeat period (half of it) of one tick;
ages stop one past the lease, where the comparison has its last effect. Two processes are an
owner and a sweeper; with pid reuse the second may take the first's pid. The breaker trips at one failure,
so it opens and closes often. Three attempts are the code's `MAX_ATTEMPTS`, and with a stall budget of 0
(the default) and 1 every mix of stalls and ceilings occurs; two runs and one canceller are what a cancel
needs to find the wrong run, and those two runs get one attempt, since retries do not touch the registry.

In SessionPool one own profile can be found, removed, found again and given another's id, which is
what the verbs disagree about; the Brave master has its display name because lookups are by
name; a third verb comes between the two halves of a deletion. In Profiles five
starts are a snapshot above the cap beside a job and a restore. SendTurn's `StabilityChecks`,
attempts and uploads are the code's own numbers; three pieces make a pause longer and shorter than
the polls possible. Update's third command is a rollback after an update after a failed
update. Tui's second run takes over a slot while the first one's worker still reads; one dialog at a
time is a bound (the screen can stack them, each would be answered in turn).

Intake's agendas each bring two requests together where they can meet: command-line runs to the
default destination beside an init of either surface, for each state of `.qwen-web-arwaky/output` and of the
legacy directory, with one disk fault and one death; the same folder attached by two surfaces,
with an edit (a note goes, a huge note comes, the prompt goes), a tick and a death; runs to one
destination, to two destinations with one sidecar, to a destination that becomes a directory, and
of one role; two runs into a directory. The verbs, the diagnoses, the bad inputs and the
folder with a file of every language come one request at a time (`alone`): each of these is answered
without reading what another request writes. The imports are followed two hops in a project where three
would reach further, with a cycle, a link out of the boundary, a secret, an excluded directory and an alias
inherited from an outer `tsconfig.json`.

What TLC cannot cover, larger instances, the proofs do for the safety and action properties of all
modules, `BundleIsClosure` excepted, and for the refinements of BoundedBacklog and SessionRegistry.

`CHECK_DEADLOCK FALSE` is set in all runs: jobs, calls, verbs and runs end, and the models do not
start new ones after the last.

### Fairness

Weak fairness per thread, and only for threads that exist: a submitted job's caller and
worker (`stage[j] # "new"`), a started swarm's starter, legs, cancel and pending writes, a
writer's statements, a sweep that a poll has begun or will begin. It is what the operating system gives to
runnable threads, and the waits inside are bounded in the code (limiter, `wait` with
timeouts, browser timeouts). Nobody has to submit, cancel, crash, shut down or start a
swarm. A prompt run's thread is fair from its registration on (`Proceed`): every wait of it, in the
page, for an acknowledgement, for the answer or before a retry, has a timeout in the code; `MonitorRaises` is
the ceiling of the response. Cancellers are not fair. In JobRecords only sweeps are fair: workers and time may stop for ever.
In SessionPool a verb that runs goes on, and its `Load` is strongly fair: flock is granted to a process that
waits while others take and free it, since their number is finite and the kernel queues them. In Tui the threads
of runs, swarms and the session check go on, since pipelines, swarms and the check have ceilings of
their own; the user is not fair. Profiles, SendTurn, Update and Intake have safety properties only and no fairness.

## 5. Proofs

Eight modules hold the proofs that TLAPS checks, with no assumption beyond those the models
declare:

| module | about | obligations | assumption |
|---|---|---|---|
| `JobQueueProofs` | JobQueue | 739 | `JobQueueAssumption`: finite disjoint sets of jobs, positive capacity, workers, threshold |
| `SwarmProofs` | Swarm | 561 | `SwarmAssumption`: finite non-empty roles not named like the two other threads, positive threads and attempts |
| `PromptRunProofs` | PromptRun, LifecycleGate | 1940 | `PromptRunAssumption`: what a plan is: any kinds, any sharing of cancel events, at least one attempt, any stall budget |
| `FileProofs` | AtomicWrite, Intake | 4072 | `AtomicWriteAssumption`: what a use is; no writer is named like a shared file. `IntakeAssumption`: paths are made of words, no request is named like a word, and what an agenda may ask |
| `JobRecordsProofs` | JobRecords | 935 | `JobRecordsAssumption`: a lease of two ticks or more; what a host is; "nobody" is no process and "none" no pid |
| `SendTurnProofs` | SendTurn | 429 | `SendTurnAssumption`: positive lengths and numbers of attempts |
| `HostProofs` | Profiles, Update | 1063 | `ProfilesAssumption`: what a wiring is; the master is no run. None for Update |
| `OperatorProofs` | SessionPool, Tui | 2814 | `PoolAssumption`: admins are processes; own directories are finite in number and are not Brave's; a damaged file is not a pool. `TuiSlotsAssumption`: a bound on the runs |

The components in `FileProofs`, `HostProofs` and `OperatorProofs` share nothing but the module, which extends both of
them side by side; their definitions are named apart for that (`IntakeSpec`, `UpdateSpec`, `TuiSpec`), and no theorem
about one uses a fact about the other.

**JobQueue.** `TypeInvariant`: types; the pop guarded by the emptiness check keeps `inflight` a
natural number. `SlotsConserved`: inductive with the type invariant; the argument is that each `Go(j, from, to)` adds or
removes exactly `j` from `Holding`, and that Shutdown maps `queued` to another holding stage.
`QueueExact`: inductive by itself; positions are distinct, so Take removes the only occurrence.
`Settled`: inductive with the fact that a worker past `SaveTerminal` has written. `DepthBounded`: each
token was pushed by an entered file job, and every exit of one pops if anything is there.
`BacklogRefined`: the state functions of the INSTANCE substitution move by at most one job per
step (`MappedMove`, `BegunMove`), so every step is Admit, Begin, Leave, Close or a stutter; it needs an
invariant that relates `over` to the record (`MappingInvariant`).

**Swarm.** `SwarmTypes`: types; attempts stay within bounds since Retry is guarded. The safety properties come from
`SwarmInv`, four named parts:

* `BeforeStart`: until `start` marks the run running nothing else has happened, so that write
  cannot undo a cancel or a leg's report;
* `LegsSettle`: on a sound disk a leg's thread is over if its outcome stands (or it was settled by the cancel), and its outcome stands once it is over; the last conjunct, about legs still `waiting` when the cancel
  releases the executor, is what makes dropping them safe;
* `EventsFirst`: either all events are set, or nobody can have marked the run cancelled;
* `RunMatchesLegs` itself, which is not inductive without `LegsSettle` (a settled run must have no leg that
  could still report).

Legs have eleven actions; `LegStep` sorts them into those that update the snapshot and those that do
not, and the invariance proof needs only the two kinds. `CancelledStays`, `OutcomeKept` and `NoLaunchOnceCancelled` are action properties proved
from the same invariant.

**PromptRun.** A run's thread has 34 actions; `RunStep` goes through them once and says what each does
to the run: it stays where it was as far as the registry is concerned, moves on, gets a browser, is
attached, cleared or released (`Moves`), and leaves all other runs alone (`Frame`). The registry
and cancel proofs use only those kinds.

* `PromptTypes`: types need `CountInv`, that inside an attempt fewer stalls than attempts have been
  used, for the stall counter to stay within the attempts.
* `RegistryFindsRuns`: `RegistryExact` is inductive with `IndexOwn`, that an index entry belongs to a run
  that was given this event.
* `CancelsReach`: inductive with `Resolved(c)`, what a canceller has established between its lock
  sections, and `ClosedByCancel(r)`, that a run at work whose context is closed has its event set.
* `EventsInOrder`: the two sequences are concrete, so lemmas (`Positions`, `FirstNext`,
  `FirstRolledBack`, `TerminalRefused`) say what the gate accepts after the first n events and what a
  rollback leaves; `GateInv` ties n to the label where the thread stands and says that an expiry
  comes last and only with an exception in flight. `GateOrder` alone is not inductive: it does
  not say which event the thread is about to emit.

* `VerdictsHonest`: `ConcludedInv` says at each label what file, verdict, error and counters may be, and that
  a run that fails has used up what it was granted. It stands on `GateInv`, since "complete" promises all
  events and a cut run promises that the terminal one was not accepted.

**AtomicWrite.** `AtomicInv`: the flock is exclusive, and, where writers lock or have names of their own, no two
names point to one inode (`NamesApart`), the inode a writer will create is new (`Fresh`) and the one it has
open is behind its name and holds nothing of anybody else (`OwnFile`). `NeverTorn` alone is not inductive: a
write through a shared inode would tear the target later. `ReturnPublishes` is an action
property from the same invariant.

**Intake.** `ReqInv` says what a request holds in each phase (`ReqOK`): from the pre-flight on a destination, from the first
write on a target, both made of words or with a name of the request's own. `DiskInv` says whose names are on the disk: a
name made for a request appears only once that request writes, a directory kept aside only once its init has cleared.
`NothingLost` follows step by step: a name reserved in a directory is new (`Ensured`), a text replaces only what
lies at its own target, links followed (`SameBase`), a release takes away empty names only, and
what init moves aside meets nothing on its way (`Moved`: `Aside` is injective since the backup is its own).

`ReplyIsHonest` has two halves. What is said of a run or of an init must stay true, so it is an invariant, and five more stand
behind it, all of them checked by TLC before they were proved:

* `HeldInv` ties what a request was asked and has got to its phase: who runs has a run's ask and no outcome yet, who saves has
  an outcome worth saving, who succeeded has a target.
* `TemplateInv`: a blank template has a request in the middle of writing it, or dead there, so a run that read it
  blank has company in that role. Nobody fills his own after he has read it (`OnlyFills`).
* `BundleInv`: a bundle is named for the folder of a run that compiled it last, and a run's attachment is its own
  folder's; so whoever's bundle was uploaded had attached the same folder.
* `SaveInv`: from the write to the end, the text and the sidecar are at their destination, or in a backup, *or the destination is
  contested*. Contested destinations stay contested (a target, once chosen, is for good: `TargetStays`), and that makes it inductive. What
  can happen to a place on the disk is said once (`Fates`): it stays, a run writes there, or an init moves it
  aside. `StoredAt` remembers what lies where the verification will look, which is the destination given and not the
  file written, and the two differ when it has become a directory.
* `InitInv`: between the removal and the link the destination is absent, a link or a directory. An init takes a destination from one that has
  reported success only while it is at work itself.

What a verb answers is an action property: it is true when it is said, of the files as they are then. `VerbAnswers`, `DoctorAnswers`,
`ConfigAnswers` and `PathAnswers` are lemmas about the operators of Surfaces and Settings alone, for any file system,
input and environment; `VerbStep` applies them to the steps. The path checks walk up to the nearest directory that exists
(`NearestIsLongest`, by the length of the paths), and the capacity is the least of several numbers (`LeastOne`, by well-foundedness).

The paths and names are taken from a constant `Words` rather than from STRING, of which the provers know nothing; a
request's own name (its time stamp and counter in the code) is the request itself, which is no word.

**JobRecords.** `RecordsInv`: pids belong to processes while they are not reused, a record names its owner's pid,
a job under way has a living owner. `FirstPollSeesNoLostJob` needs `SweepSound`: what the sweep found
lost is terminal or still on its list, and it finishes with an empty list only. `LiveNeverReconciled` is about
clocks: `LiveJob(j)` bounds the age of a record by the time the job has waited, or by a heartbeat period once it runs
(the heartbeat that has read and not yet written is the exception, and then the age is still under the lease),
so no age reaches the lease while the worker lives. `TerminalIsFinal` follows, since whoever writes has a live job or a lost one that has no outcome.

**SendTurn.** `SendInv`: cards parse after they render and the composer is filled and sent only with one
(`DocumentInv`); an answer belongs to a turn (`TurnInv`); with neither thinking card nor stop button on the screen the page
shows nothing or a whole answer (`AnswerInv`), the condition under which `wait_for_response` counts a text as stable.

**Profiles.** `DirectoryInv`: a run works on the master or on its own clone, and a prompt job with a prepared path has its
clone before its browser starts; the clone is on disk while the run is under way, so no sweep can take it.
`WholeBackupKept` is an action property: newest generations sort last, so a
pruning drops the one it has just written only after a later one has begun.

**Update.** `UpdateInv`: until the snapshot the environment is the one the update found (`FoundInv`), a snapshot marked
fresh names it, and a rollback's target and pins agree when it is the command's own
(`RestoredInv`). `SyncedInv` carries the browser build from `sync` to the report.

**SessionPool.** `PoolInv`: the file is damaged or a pool; a process between its load and its save holds the lock and has
in hand what the file holds. A pool has distinct ids and paths *and a bound on its ids*: TLC's
pools are finite anyway, but for the prover the greatest id, on which fresh ids rest (`NextIdIsFresh`), exists only because ids are bounded,
by well-foundedness (`LeastNatural`, `GreatestNatural`). `RegisterDiscovered` numbers what it adds in a closed form (consecutive
ids after the greatest), which is what the loop of the code does and what the prover can reason about.
`PoolImplementsRegistry` then maps `Save`, the repairs and the damage to one step each of SessionRegistry over
`Table`, and every other step to a stutter; that a reader
quarantines a damaged file while another process is between load and save is why `Table` may be empty there.
`PoolTypes` needs `HeldInv`, that the lock names exactly the process between its load and its save.

`DeletionsHit` assumes one manager, as the property says, and any number of rotations and health checks.
What a deletion has read is old when it gets the lock; `DropInv` says that while it waits the pool `Continues` it: each entry is
still at its place with its id and path, others follow, and statuses may differ. Discoveries, marks and
saves of the other processes keep that (`Continues` is transitive), a second manager would not. So the first entry of a name, or
the entry of an id, is the same in the file as in the view (`Targeted`), and the save drops the entry of the path removed. Until a file is damaged: then the pool
starts again and old ids are given to others, which the property sets apart.

**Tui.** `TuiInv`: a slot has its run's event while it has a worker, which makes a cancel of the event a cancel of
the run; a cancel dialog is about a slot; the override file and the environment hold one value but for the quotes.
`AnsweredAsAsked` and `RestartKeepsSettings` are action properties from it. `SlotsTyped`: a generation plus one for
a busy slot never exceeds the runs started (`SlotsCount`), since a cancellation raises it only where it takes a run away.

The type invariants of JobQueue, Swarm, PromptRun, AtomicWrite, JobRecords, SendTurn, Profiles, Update, SessionPool and
TuiSlots are proved and no run repeats them.

Only model-checked:

* all liveness (`DispatchedJobEnds`, `LostJobSettles`, `EveryCallEnds`, `RunSettles`, `EveryRunEnds`, `VerbsEnd`,
  `EverythingComesBack`), which needs ENABLED and fairness;
* `BundleIsClosure` of FolderBundle: the import closure is a fixed point, and that the walk reaches it is an induction on the
  hops and on the files of the frontier.

## 6. What is not modelled

* Text: how a prompt, an answer, a table or a report is formatted, and the regular expressions that read
  imports (a file's specifiers are given). Which selectors find a page's elements: SendTurn has what the run reads
  in any combination the page can be in.
* The number of failures and starts in the breaker's and limiter's windows: the jobs see a counter
  that may drop at any time, a leg an open or closed breaker and an arbitrary wait.
* Retention of old job records; the discovery of batch prompts; the choice of a session for a prompt of the
  command line, which is a rotation of SessionPool; the reading of Brave's preference files.
* Interference between swarm runs, which share the limiter and the breaker only; a run's breaker may be closed
  by another run's success (`BreakerCloses`), and failures of others are not counted.
* Disks that reorder or lose completed writes (the code does not fsync); clocks that jump.
* Logging, metrics and the developer scripts: no behaviour of the program depends on them.

## 7. Where code and documents, or two parts of the code, disagree

Seen while modelling. Each is part of the models as the code has it; a property that
would contradict one sets the case apart by name.

*Jobs and records.* `queue_depth` is documented as running plus queued (orchestrator:126), but attachment jobs
never enter the deque and their release pops a file job's token, as a rejection does. A job that waits longer than one lease is
reconciled by another process although it was stamped at submit for that purpose (229-230). Unlocked writers of one
record share a temporary name and can tear it (io_writer:78, storage:246-248). A submit record that cannot be written keeps its slot until restart
(stage `leaked`); a submission refused after shutdown leaves its record (`orphaned`). A heartbeat whose write raises ends;
`heartbeat.join` has a timeout, so a beat that hangs can rewrite an outcome (excluded by `Orderly`).

*Swarm and prompt runs.* Manifest copies are written after the lock is released and the older may stay (registry:97,
against 37-39). A cancel of a settled run rewrites its status (swarm_runner_base:98, against cancel:36-38). A completed leg whose
manifest write raises is run again. A cut says its partial answer could not be written when only the event after the write was
refused (dispatcher:324). A cancel in the delay before a retry sends the prompt once more before it is seen (145, against 82-84).

*Conversation.* After a late acknowledgement Enter, or a click behind a toast, can send a prompt twice; a repeated upload can
attach a document twice. On a retry an old answer that still streams passes for the acknowledgement, and an answer identical to
the last one is never new. The verdict of `_wait_for_send_enabled` is not used.

*Sessions.* Ids of removed sessions are given again (manager:113-125) while rotation marks by id after minutes (rotator:109-115), so a
profile nobody validated can become ACTIVE. A deletion drops the entry first and the directory later, between which a rotation can
find it again (orchestrator:559-567, against 531-532). Two logins' snapshots may prune each other's; all generations may be partial.

*Update.* A rollback to an explicit version ends on the snapshot's version and is reported full. A failed package upgrade still syncs the
browser; a death between the two leaves "already up to date" for the next check. `--force` installs without dependencies.
The command exits 0 after failed rollback steps. A release candidate ranks above its release. Without a session the verification fails.

*TUI.* A run's worker that reads the generation late frees the slot of the next run (workers_store ~409 promises otherwise). A cancel before the adapter
registers reaches nothing. A confirmed quit leaves runs older than thirty seconds uncancelled. Two quick starts start two swarms. The name in a
delete dialog is resolved in cached rows, and by name later. An older refresh overwrites a newer one. A masked value typed back is stored as it
is shown.

*Folder bundles.* Without `QWEN_WORKSPACE_ROOT` the boundary is the folder's parent, not the working directory that the tool's docstring names. `origins`
keeps the first importer only. An excluded directory's name above the project excludes every import. Sets decide the order of alias
roots. The server keeps an index of notes until it restarts. Two compilations of one folder in a second share a file name, and the later one
is uploaded for both.

*Workspace and destinations.* Init aborts before it makes links when a directory was moved aside before and a legacy one is there again. It unlinks a
plain file in a link's place, and moves `output` under a running run, which then fails or writes beside it. Destinations `a.md` and `a.txt` share a sidecar
(io_writer:118 promises they do not). Role templates are materialised to a path all processes share, so a run may read a blank one and fail. The
default names of the command line's destinations are fixed, so a run overwrites the last one's answer.

*Configuration.* The doctor asks the host before `QWEN_WEB_ENABLE_SANDBOX`, a run after it (health_probe:117-119 promises the runtime's order). Reports trim a
switch, a run does not. Zero workers are an override for the doctor only. A request timeout between one and nine seconds passes the doctor and every run is
refused. The swarm's cap is clamped to a constant and not to the executor's cap. A file in the way of a destination stops the slot plan
and not the path resolver. The validator looks at the parent of a destination only, so a locked directory passes it and is refused by
the resolver.

*Surfaces.* The server's tools are created by check-then-create, so two first calls may wire two containers, one of which shutdown never reaches.
`timeout_sec` has no effect for synchronous file runs. `setup_session` puts a failed login's error into a success payload; `delete_session` reports an absent
profile as deleted. A missing login ends a prompt command with 1 and not 3, and texts that begin with "ERROR:" are not taken for failures.
An asynchronous submit leaves its destination unchecked on the server, and is checked on the command line.
