------------------------------ MODULE Settings ------------------------------
(* What a run takes from the environment, and what the reports say it takes: *)
(* the sandbox switch, the timeouts and the worker counts, each of which     *)
(* several places work out for themselves (config_app_factory for a run,     *)
(* ConfigEnvironment and ConfigCapacityAdvisor for the config verbs, the     *)
(* health probe and the doctor command for a diagnosis), and the checks of   *)
(* the paths of a run.                                                       *)
(* A switch is "unset", "true", "padded" (true with blanks around it) or     *)
(* "false"; a number is its text's form and its value: "digits" is what      *)
(* str.isdigit accepts, "signed" what only int() does, "junk" neither.       *)
EXTENDS Integers, Sequences, FiniteSets, SequencesExt

CONSTANTS
    DefaultRequestTimeout,  \* DEFAULT_REQUEST_TIMEOUT_SEC
    DefaultClickTimeout,    \* DEFAULT_SEND_CLICK_TIMEOUT_MS
    DefaultMaxWorkers,      \* DEFAULT_MAX_WORKERS
    MemoryPerWorker         \* MIN_MEMORY_PER_WORKER_BYTES

ASSUME SettingsAssumption ==
    /\ {DefaultRequestTimeout, DefaultClickTimeout} \subseteq Nat \ {0}
    /\ {DefaultMaxWorkers, MemoryPerWorker} \subseteq Nat \ {0}

(* ---- an environment ----------------------------------------------------- *)

Switches == {"unset", "true", "padded", "false"}
Numbers == {n \in [form : {"unset", "digits", "signed", "junk"}, value : Int] : n.form = "digits" => n.value >= 0}
Hosts == [linux : BOOLEAN, statusReadable : BOOLEAN, seccomp : Int, noUserNamespaces : BOOLEAN]
Environments == [disable : Switches, enable : Switches, host : Hosts, timeout : Numbers, click : Numbers,
                 workers : Numbers, swarm : Numbers, memory : [available : Int, spare : Int]]

(* ---- the OS sandbox ---------------------------------------------------- *)

(* The host cannot hold Chromium's sandbox. "seccomp" is the mode that       *)
(* /proc/self/status reports, 0 when the line is missing.                    *)
SandboxUnavailable(host) ==
    /\ host.linux
    /\ host.statusReadable
    /\ host.seccomp = 0 \/ host.noUserNamespaces

(* The same question as the reports ask it.                                  *)
ReportsUnavailable(host) ==
    host.linux /\ host.statusReadable /\ (host.seccomp = 0 \/ host.noUserNamespaces)

(* A run reads its switches as they stand, the reports trim them first.      *)
RunFlag(switch) == switch = "true"
Flag(switch) == switch \in {"true", "padded"}

(* build_app_config's verdict; "asked" is its disable_sandbox argument.      *)
RunsUnsandboxed(env, asked) ==
    \/ RunFlag(env.disable)
    \/ ~RunFlag(env.enable) /\ (asked \/ SandboxUnavailable(env.host))

SandboxReport(env) ==
    CASE Flag(env.disable) -> "disabled_by_env"
      [] ~Flag(env.disable) /\ Flag(env.enable) -> "forced"
      [] ~Flag(env.disable) /\ ~Flag(env.enable) /\ ReportsUnavailable(env.host) -> "disabled_by_host"
      [] OTHER -> "sandboxed"

(* The doctor asks the host before the enabling switch.                      *)
DoctorSandboxMode(env) ==
    CASE Flag(env.disable) -> "disabled"
      [] ~Flag(env.disable) /\ ReportsUnavailable(env.host) -> "disabled"
      [] OTHER -> "sandboxed"

(* ---- numbers ----------------------------------------------------------- *)

IntText(number) == number.form \in {"digits", "signed"}
IsDigit(number) == number.form = "digits"

(* A run's ceilings: any text int() takes, when it is positive.              *)
ResolveRequestTimeout(env, override) ==
    IF IntText(env.timeout) /\ env.timeout.value > 0 THEN env.timeout.value ELSE override
ResolveSendClickTimeout(env) ==
    IF IntText(env.click) /\ env.click.value > 0 THEN env.click.value ELSE DefaultClickTimeout

(* The ceiling of the config verbs: only plain digits.                       *)
RequestTimeoutSec(env) ==
    IF IsDigit(env.timeout) /\ env.timeout.value > 0 THEN env.timeout.value ELSE DefaultRequestTimeout

MinOf(a, b) == IF a < b THEN a ELSE b
MaxOf(a, b) == IF a > b THEN a ELSE b

(* What the memory supports: the available memory, else the share of the     *)
(* total that is not reserved ("spare"), else one worker.                    *)
RecommendedMaxWorkers(memory) ==
    LET budget == IF memory.available > 0 THEN memory.available ELSE memory.spare
    IN IF budget <= 0 THEN 1 ELSE MinOf(DefaultMaxWorkers, MaxOf(1, budget \div MemoryPerWorker))

Override(number) == IsDigit(number) /\ number.value > 0

MaxWorkers(env) ==
    IF Override(env.workers) THEN env.workers.value ELSE RecommendedMaxWorkers(env.memory)

(* The cap on a swarm's browsers is clamped to the constant, not to          *)
(* MaxWorkers.                                                               *)
SwarmConcurrency(env) ==
    IF Override(env.swarm) THEN MinOf(env.swarm.value, DefaultMaxWorkers)
    ELSE RecommendedMaxWorkers(env.memory)

CapacityReport(env) ==
    [effective |-> IF Override(env.workers) THEN env.workers.value ELSE RecommendedMaxWorkers(env.memory),
     over |-> Override(env.workers) /\ env.workers.value > RecommendedMaxWorkers(env.memory)]

(* The doctor takes any digits, zero too, for an override.                   *)
DoctorCapacity(env) ==
    LET derived == RecommendedMaxWorkers(env.memory) IN
    [effective |-> IF IsDigit(env.workers) THEN env.workers.value ELSE derived,
     over |-> IsDigit(env.workers) /\ env.workers.value > derived]

(* The problems the environment contract reports.                            *)
ValidateEnv(env) ==
    {n \in {"workers", "swarm", "timeout"} : env[n].form \notin {"unset", "digits"}}

(* ---- a run's configuration --------------------------------------------- *)

(* AppConfig refuses a request timeout below ten seconds.                    *)
MinRequestTimeout == 10

BuildAppConfig(env, asked, override) ==
    [timeout |-> ResolveRequestTimeout(env, override),
     click |-> ResolveSendClickTimeout(env),
     unsandboxed |-> RunsUnsandboxed(env, asked)]
ConfigValid(cfg) == cfg.timeout >= MinRequestTimeout

(* The "for_mode" verb: the report's verdict and ceiling are passed on.      *)
ForMode(env) ==
    BuildAppConfig(env, SandboxReport(env) \in {"disabled_by_env", "disabled_by_host"},
                   RequestTimeoutSec(env))

(* ConfigValidator's minimums.                                               *)
MinimumIssues(cfg) == IF cfg.timeout < MinRequestTimeout THEN {"request_timeout"} ELSE {}

(* ---- a diagnosis -------------------------------------------------------- *)

(* What the probes find out about the machine and the workspace.             *)
FactsFound == [python : BOOLEAN, chromium : BOOLEAN, deepChromium : BOOLEAN, workspace : BOOLEAN, healthy : Nat,
               validates : BOOLEAN, outputWritable : BOOLEAN, unknownNames : BOOLEAN, production : BOOLEAN,
               tracked : BOOLEAN]

(* The health probe's checks; "passed" alone decides the exit code and the   *)
(* update pipeline's gate. Without an aggregate there is no session check.   *)
HealthProbe(env, facts) ==
    [python |-> facts.python,
     chromium |-> facts.chromium,
     workspace |-> facts.workspace,
     session |-> facts.healthy > 0,
     output |-> facts.outputWritable,
     capacity |-> TRUE,
     sandbox |-> TRUE,
     contract |-> ValidateEnv(env) = {},
     observability |-> TRUE]

(* The doctor command: a deep probe may find a browser the fast one misses,  *)
(* a smoke test adds the answer of the session's validation.                 *)
DoctorChecks(env, facts, deep, smoke) ==
    [HealthProbe(env, facts) EXCEPT
       !.chromium = @ \/ (deep /\ facts.deepChromium),
       !.session = @ /\ (smoke => facts.validates)]

AllPassed(checks) == \A c \in DOMAIN checks : checks[c]
DoctorWarns(env, facts) ==
    \/ DoctorCapacity(env).over
    \/ DoctorSandboxMode(env) = "disabled"
    \/ facts.unknownNames
    \/ facts.production /\ ~facts.tracked

(* ---- the paths of a run ------------------------------------------------- *)

(* A file system is its directories, its files and the directories that      *)
(* accept a write; a path is a sequence of names.                            *)
Exists(fs, path) == path \in fs.dirs \cup fs.files
ParentOf(path) == IF path = <<>> THEN <<>> ELSE Front(path)
Ancestors(path) == {SubSeq(path, 1, n) : n \in 0..Len(path)}
Nearest(paths) == CHOOSE p \in paths : \A q \in paths : Len(q) <= Len(p)
ProbeDir(fs, path) == IF path \in fs.dirs THEN path ELSE ParentOf(path)

(* The slot plan's check: the nearest thing that exists must be a directory  *)
(* that accepts a write.                                                     *)
OutputDirWriteError(fs, path) ==
    Nearest({p \in Ancestors(ProbeDir(fs, path)) : Exists(fs, p)}) \notin fs.writable

(* The path resolver's check: the nearest directory.                         *)
PathWritable(fs, path) ==
    Nearest({p \in Ancestors(ProbeDir(fs, path)) : p \in fs.dirs}) \in fs.writable

(* The validator's check of one path of a configuration.                     *)
PathIssue(fs, field, path) ==
    LET parent == IF field = "session_path" /\ path \in fs.dirs THEN path ELSE ParentOf(path) IN
    CASE field = "input_path" /\ ~Exists(fs, path) -> "error"
      [] ~(field = "input_path" /\ ~Exists(fs, path)) /\ ~Exists(fs, parent) -> "error"
      [] ~(field = "input_path" /\ ~Exists(fs, path)) /\ Exists(fs, parent)
           /\ parent \notin fs.writable -> "warning"
      [] OTHER -> "none"

(* The text fields of a slot: a prompt that exists is required, a missing    *)
(* attachment is dropped, a destination that cannot be written is refused.   *)
NoPath == <<"no path">>
SlotPlan(fs, slot) ==
    [ok |-> /\ slot.prompt # NoPath
            /\ slot.role \/ Exists(fs, slot.prompt)
            /\ \/ slot.output = NoPath \/ slot.output \in fs.files
               \/ ~OutputDirWriteError(fs, slot.output),
     prompt |-> slot.prompt,
     attachment |-> IF slot.attachment # NoPath /\ Exists(fs, slot.attachment)
                    THEN slot.attachment ELSE NoPath]
=============================================================================
