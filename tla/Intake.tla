------------------------------- MODULE Intake -------------------------------
(* A request from its surface to the reply: the input is checked, a role's   *)
(* template or a folder is turned into a file, the destination is resolved,  *)
(* the run is handed to the browser, the answer is saved and verified, and   *)
(* the surface answers. Beside the runs: "init", which replaces the links    *)
(* the default destinations go through, edits of the project, and the        *)
(* operator's own directories. The run in the browser is one step here       *)
(* (PromptRun and SendTurn have its detail), as is one atomic replacement of *)
(* a file (AtomicWrite).                                                     *)
EXTENDS FolderBundle, Surfaces

CONSTANTS
    Requests,  \* the requests of a behaviour
    Agendas,   \* what may happen in a behaviour, see IntakeInit
    Huge,      \* the files that make a bundle larger than an attachment may be
    Words,     \* the names and suffixes that paths are made of
    Root,      \* the workspace root
    EnvRoot    \* QWEN_WORKSPACE_ROOT, <<"none">> when it is not set

VARIABLES
    agenda,    \* the asks, edits, faults and deaths that may still come, the
               \* environment of the runs, the directories that refuse a write
    tree,      \* the files of the project
    index,     \* <<process, folder>> -> the notes index it has cached
    req,       \* request -> where it stands
    disk,      \* location -> who wrote there, and what: "text", "empty" or "dir"
    meta,      \* sidecar -> the request it describes
    local,     \* .qwen-web-arwaky/output: "absent", "link", "dir" or "file"
    legacy,    \* .qwen-web and what became of it: [now, kept]
    template,  \* the materialised role template: "whole" or "blank"
    bundles,   \* <<folder, second>> -> who compiled it, and what it holds
    second     \* the clock a bundle's name is taken from

intakeVars == <<agenda, tree, index, req, disk, meta, local, legacy, template, bundles, second>>
project == <<tree, index, bundles, second, template>>
files == <<disk, meta, local, legacy>>

RunVerbs == {"direct", "file", "attach"}
XdgOut == <<"xdg">>
LocalOut == Root \o <<"local">>
NoOut == [dir |-> NoPath, name |-> NoPath, ext |-> ""]
PathOf(loc) == loc.dir \o <<loc.name[1]>>

(* What the requests and the project name: paths made of words, which are no *)
(* names of requests, since the names a request makes are its own.           *)
PathNames == Seq(Words) \ {<<>>}
Places == [dir : Seq(Words), name : Words \X Words, ext : Words]
RunAsks == [surface : {"cli", "mcp", "tui"}, verb : RunVerbs, role : BOOLEAN, blank : BOOLEAN,
            prompt : PathNames, attach : PathNames, out : Places \cup {NoOut}]
VerbAsks == VerbFields({"cli"}, CliVerbs \cup {"paths"}, Seq(Words)) \cup VerbFields({"mcp"}, McpVerbs, Seq(Words))
EnvAsks == [surface : {"cli"}, verb : {"doctor"}, env : Environments, facts : FactsFound, deep : BOOLEAN, smoke : BOOLEAN]
           \cup [surface : {"tui"}, verb : {"config"}, env : Environments]
InitAsks == [surface : {"cli", "mcp", "tui"}, verb : {"init"}]
AllAsks == RunAsks \cup InitAsks \cup VerbAsks \cup EnvAsks
AgendaFields == {"asks", "tree", "disk", "local", "legacy", "edits", "dirs", "locked", "seconds",
                 "faults", "deaths", "alone", "env"}

ASSUME IntakeAssumption ==
    /\ {"xdg", "local", "direct", "output", "no path", ".md"} \subseteq Words
    /\ Requests \cap Words = {}
    /\ Root \in Seq(Words)
    /\ \A a \in Agendas :
         /\ a = [f \in AgendaFields |-> a[f]]
         /\ a.asks \subseteq AllAsks
         /\ (DOMAIN a.disk) \cup a.dirs \subseteq Places

(* A location as the file system sees it: the local directory may be a link. *)
Phys(loc) == IF loc.dir = LocalOut /\ local = "link" THEN [loc EXCEPT !.dir = XdgOut] ELSE loc
IsDirAt(loc) == Phys(loc) \in DOMAIN disk /\ disk[Phys(loc)].kind = "dir"

(* The sidecar of a destination mirrors its path, the suffix replaced.       *)
Sidecar(loc) == [dir |-> Phys(loc).dir, name |-> loc.name]

(* The project and the destinations as the path checks see them.             *)
FS == LET homes == {Dir(f) : f \in tree} \cup {l.dir : l \in DOMAIN disk}
          dirs == UNION {Ancestors(d) : d \in homes \cup {XdgOut}}
                  \cup {PathOf(l) : l \in {m \in DOMAIN disk : disk[m].kind = "dir"}}
      IN [dirs |-> dirs, files |-> {f.at : f \in tree}, writable |-> dirs \ agenda.locked]

(* The server keeps its caches from one request to the next.                 *)
Process(a, r) == IF a.surface = "mcp" THEN "mcp" ELSE r
NoIndex == {NotFound}
IndexOf(p, folder) == IF <<p, folder>> \in DOMAIN index THEN index[p, folder] ELSE NoIndex

Idle == [pc |-> "idle", ask |-> [surface |-> "none", verb |-> "none"], out |-> NoOut, target |-> NoOut,
         prompt |-> "whole", walk |-> StartWalk({}), attach |-> NoPath, sent |-> [by |-> "none"],
         outcome |-> "none", hit |-> FALSE, dirty |-> FALSE, diag |-> <<>>, reply |-> Refuse("none")]

(* A directory after a file was put in it, in the place of one of that name. *)
Put(f, k, v) == [x \in DOMAIN f \cup {k} |-> IF x = k THEN v ELSE f[x]]

(* ---- steps shared by the actions ---------------------------------------- *)

At(r, pc) == req[r].pc = pc
Ask(r) == req[r].ask
Goto(r, pc) == req' = [req EXCEPT ![r].pc = pc]
Reply(r, reply) == req' = [req EXCEPT ![r].pc = "done", ![r].reply = reply]

(* The failure text of a run, as its surface answers it. The TUI detects a   *)
(* failure the way the command line does.                                    *)
RunReply(surface, text) == IF surface = "mcp" THEN McpRunReply(text) ELSE CliRunReply(text)
Fail(r, text) == Reply(r, RunReply(Ask(r).surface, text))

(* A write that the disk refuses.                                            *)
DiskFault(r, reply) ==
    /\ agenda.faults > 0
    /\ agenda' = [agenda EXCEPT !.faults = @ - 1]
    /\ req' = [req EXCEPT ![r].pc = "done", ![r].hit = TRUE, ![r].reply = reply]

(* ---- arrival and checks -------------------------------------------------- *)

FirstStep(a) == CASE a.verb = "init" -> "harden"
                  [] a.verb \in RunVerbs /\ a.role -> "template"
                  [] a.verb \in RunVerbs /\ ~a.role -> "validate"
                  [] OTHER -> "verb"

Arrive(r) ==
    /\ At(r, "idle")
    /\ agenda.alone => \A q \in Requests : At(q, "idle")
    /\ \E a \in agenda.asks : req' = [req EXCEPT ![r].pc = FirstStep(a), ![r].ask = a]
    /\ UNCHANGED <<agenda, project, files>>

(* A role's template is written over a file every process shares: truncated, *)
(* then filled.                                                              *)
TruncateTemplate(r) ==
    /\ At(r, "template") /\ Goto(r, "fill") /\ template' = "blank"
    /\ UNCHANGED <<agenda, tree, index, bundles, second, files>>

FillTemplate(r) ==
    /\ At(r, "fill") /\ Goto(r, "validate") /\ template' = "whole"
    /\ UNCHANGED <<agenda, tree, index, bundles, second, files>>

OwnName(r, dir, stem) == [dir |-> dir, name |-> <<stem, r>>, ext |-> ".md"]
StemOf(r) == CASE Ask(r).verb = "direct" -> "direct"
               [] Ask(r).verb = "attach" -> Last(Ask(r).attach)
               [] Ask(r).verb = "file" -> Last(Ask(r).prompt)

(* No destination: a name of its own under the output root. A directory: a   *)
(* name of its own in it. Anything else: exactly as named, its links         *)
(* followed now.                                                             *)
ResolvePipelineOutputPath(r, out) ==
    CASE out = NoOut -> OwnName(r, XdgOut, StemOf(r))
      [] out # NoOut /\ IsDirAt(out) -> OwnName(r, PathOf(Phys(out)), StemOf(r))
      [] OTHER -> Phys(out)

(* The command line names a default destination itself: below the local link *)
(* when there is one.                                                        *)
CliDestination(a) ==
    IF a.out # NoOut THEN a.out
    ELSE [dir |-> IF local \in {"link", "file"} THEN LocalOut ELSE XdgOut,
          name |-> <<IF a.verb = "direct" THEN "direct" ELSE Last(a.prompt), "output">>, ext |-> ".md"]

CliValidate(r) ==
    LET a == Ask(r)
        bad == \/ a.verb = "direct" /\ a.blank
               \/ a.verb # "direct" /\ ~a.role /\ ~Exists(FS, a.prompt)
               \/ a.attach # NoPath /\ ~Exists(FS, a.attach)
    IN /\ At(r, "validate") /\ a.surface = "cli"
       /\ \/ bad /\ Reply(r, Refuse("exception"))
          \/ ~bad /\ req' = [req EXCEPT ![r].pc = "start", ![r].out = CliDestination(a)]
       /\ UNCHANGED <<agenda, project, files>>

McpValidate(r) ==
    LET a == Ask(r)
        error == IF a.verb = "direct" THEN IF a.blank THEN "VALIDATION_ERROR" ELSE "none"
                 ELSE FirstError(<<PromptError(FS, Root, a), AttachmentError(FS, Root, a)>>)
    IN /\ At(r, "validate") /\ a.surface = "mcp"
       /\ \/ error # "none" /\ Reply(r, Refuse(error))
          \/ error = "none" /\ req' = [req EXCEPT ![r].pc = "start", ![r].out = a.out]
       /\ UNCHANGED <<agenda, project, files>>

(* The TUI's plan of a slot: an attachment that is gone is dropped, and the  *)
(* destination is resolved here already.                                     *)
TuiPlan(r) ==
    LET a == Ask(r)
        plan == SlotPlan(FS, [prompt |-> a.prompt, role |-> a.role, attachment |-> a.attach,
                              output |-> IF a.out = NoOut THEN NoPath ELSE PathOf(a.out)])
        kept == [a EXCEPT !.attach = plan.attachment,
                          !.verb = IF plan.attachment = NoPath THEN "file" ELSE "attach"]
        ok == plan.ok /\ ConfigValid(BuildAppConfig(agenda.env, FALSE, DefaultRequestTimeout))
    IN /\ At(r, "validate") /\ a.surface = "tui"
       /\ \/ ~ok /\ Reply(r, Refuse("plan"))
          \/ ok /\ req' = [req EXCEPT ![r].pc = "start", ![r].ask = kept,
                                           ![r].out = ResolvePipelineOutputPath(r, a.out)]
       /\ UNCHANGED <<agenda, project, files>>

(* ---- the attachment ------------------------------------------------------ *)

PromptThere(r) == Ask(r).verb = "direct" \/ Ask(r).role \/ Ask(r).prompt \in FS.files
IsFolder(path) == path \in FS.dirs

(* A folder is compiled, after its scan; a file is attached as it is.        *)
AdapterStart(r) ==
    LET path == Ask(r).attach
        base == CollectFiles(tree, path, CodeExts)
        bad == ~PromptThere(r) \/ ~Exists(FS, path) \/ (IsFolder(path) /\ base = {})
    IN /\ At(r, "start")
       /\ \/ path = NoPath /\ Goto(r, "preflight")
          \/ path # NoPath /\ bad /\ Fail(r, "failed")
          \/ /\ path # NoPath /\ ~bad /\ IsFolder(path)
             /\ req' = [req EXCEPT ![r].pc = "follow", ![r].walk = StartWalk(base)]
          \/ /\ path # NoPath /\ ~bad /\ ~IsFolder(path)
             /\ req' = [req EXCEPT ![r].pc = "preflight", ![r].attach = path]
       /\ UNCHANGED <<agenda, project, files>>

HasWiki(f) == f.ext = ".md" /\ \E s \in Range(ParseImports(tree, f)) : s.form = "wiki"

(* One file of the frontier is read and its imports resolved; the first      *)
(* wikilink builds the index of the folder's notes.                          *)
FollowOne(r) ==
    LET walk == req[r].walk
        folder == Ask(r).attach
        p == Process(Ask(r), r)
        notes == IF HasWiki(Head(walk.frontier)) /\ IndexOf(p, folder) = NoIndex
                 THEN MdIndex(tree, folder) ELSE IndexOf(p, folder)
    IN /\ At(r, "follow") /\ ~WalkOver(walk) /\ ~HopOver(walk)
       /\ req' = [req EXCEPT ![r].walk = FollowFile(tree, notes, folder, BoundaryRoot(EnvRoot, folder), walk)]
       /\ index' = IF notes = NoIndex THEN index ELSE Put(index, <<p, folder>>, notes)
       /\ UNCHANGED <<agenda, tree, bundles, second, template, files>>

EndHop(r) ==
    /\ At(r, "follow") /\ ~WalkOver(req[r].walk) /\ HopOver(req[r].walk)
    /\ req' = [req EXCEPT ![r].walk = NextHop(@)]
    /\ UNCHANGED <<agenda, project, files>>

(* The bundle is named for the folder and the second.                        *)
WriteBundle(r) ==
    LET name == <<Ask(r).attach, second>>
        big == Range(req[r].walk.files) \cap Huge # {}
    IN /\ At(r, "follow") /\ WalkOver(req[r].walk)
       /\ \/ big /\ Fail(r, "failed") /\ UNCHANGED <<agenda, bundles>>
          \/ DiskFault(r, RunReply(Ask(r).surface, "failed")) /\ UNCHANGED bundles
          \/ /\ ~big
             /\ req' = [req EXCEPT ![r].pc = "bundled", ![r].attach = name]
             /\ bundles' = Put(bundles, name, [by |-> r, files |-> CompileFiles(tree, req[r].walk)])
             /\ UNCHANGED agenda
       /\ UNCHANGED <<tree, index, second, template, files>>

(* ---- the run ------------------------------------------------------------- *)

(* Destination, prompt text and configuration, before any browser. A direct  *)
(* prompt comes with a temporary file of its own.                            *)
Preflight(r) ==
    LET bad == ~PromptThere(r) \/ ~ConfigValid(BuildAppConfig(agenda.env, FALSE, DefaultRequestTimeout))
    IN /\ req[r].pc \in {"preflight", "bundled"}
       /\ \/ bad /\ Fail(r, "failed")
          \/ ~bad /\ req' = [req EXCEPT ![r].pc = "running",
                                        ![r].prompt = IF Ask(r).role THEN template ELSE "whole",
                                        ![r].out = ResolvePipelineOutputPath(r, @)]
       /\ UNCHANGED <<agenda, project, files>>

(* The browser's part: the bundle is read when it is uploaded, a prompt read *)
(* blank is refused, and what is left is an answer ("noise" when nothing but *)
(* interface text), a stream cut with or without text, a missing login or    *)
(* another error.                                                            *)
RunEnds(r, outcome) ==
    LET ends == [req EXCEPT ![r].outcome = outcome,
                            ![r].sent = IF req[r].attach = Ask(r).attach
                                        THEN [by |-> "none"] ELSE bundles[req[r].attach]]
        saves == outcome \in {"answer", "noise", "cut"}
    IN /\ At(r, "running")
       /\ outcome = "refused" <=> req[r].prompt = "blank"
       /\ req' = IF saves THEN [ends EXCEPT ![r].pc = "save"]
                 ELSE [ends EXCEPT ![r].pc = "done",
                                   ![r].reply = RunReply(Ask(r).surface,
                                                         IF outcome = "auth" THEN "auth" ELSE "failed")]
       /\ UNCHANGED <<agenda, project, files>>

(* ---- the save ------------------------------------------------------------ *)

(* A destination that has become a directory gets a file of its own in it,   *)
(* its name reserved by an empty file; the directory of any other is made.   *)
EnsureDir(r) ==
    LET out == req[r].out
        inside == [OwnName(r, PathOf(out), "output") EXCEPT !.ext = ".md"]
        blocked == out.dir = LocalOut /\ local = "file"
    IN /\ At(r, "save")
       /\ \/ DiskFault(r, RunReply(Ask(r).surface, "failed")) /\ UNCHANGED <<disk, local>>
          \/ blocked /\ Fail(r, "failed") /\ UNCHANGED <<agenda, disk, local>>
          \/ /\ ~blocked /\ IsDirAt(out)
             /\ req' = [req EXCEPT ![r].pc = "write", ![r].target = inside]
             /\ disk' = Put(disk, inside, [by |-> r, kind |-> "empty"])
             /\ UNCHANGED <<agenda, local>>
          \/ /\ ~blocked /\ ~IsDirAt(out)
             /\ req' = [req EXCEPT ![r].pc = "write", ![r].target = out]
             /\ local' = IF out.dir = LocalOut /\ local = "absent" THEN "dir" ELSE local
             /\ UNCHANGED <<agenda, disk>>
       /\ UNCHANGED <<project, meta, legacy>>

(* A failed write releases a name that holds nothing.                        *)
ReleaseReservedName(place) ==
    IF place \in DOMAIN disk /\ disk[place].kind = "empty"
    THEN [l \in DOMAIN disk \ {place} |-> disk[l]] ELSE disk

WriteText(r) ==
    LET place == Phys(req[r].target)
        gone == req[r].target.dir = LocalOut /\ local \in {"absent", "file"}
        kind == IF req[r].outcome = "noise" THEN "empty" ELSE "text"
    IN /\ At(r, "write")
       /\ \/ DiskFault(r, RunReply(Ask(r).surface, "failed")) /\ disk' = ReleaseReservedName(place)
          \/ (gone \/ IsDirAt(req[r].target)) /\ Fail(r, "failed") /\ UNCHANGED <<agenda, disk>>
          \/ /\ ~gone /\ ~IsDirAt(req[r].target)
             /\ Goto(r, "sidecar")
             /\ disk' = Put(disk, place, [by |-> r, kind |-> kind])
             /\ UNCHANGED agenda
       /\ UNCHANGED <<project, meta, local, legacy>>

WriteSidecar(r) ==
    /\ At(r, "sidecar")
    /\ \/ DiskFault(r, RunReply(Ask(r).surface, "failed")) /\ UNCHANGED meta
       \/ /\ Goto(r, "verify")
          /\ meta' = Put(meta, Sidecar(req[r].target), r)
          /\ UNCHANGED agenda
    /\ UNCHANGED <<project, disk, local, legacy>>

\* Mutant: an empty file at the destination passes for the answer.
ReadableIfThere(loc) == Phys(loc) \in DOMAIN disk

(* The destination the run was given is looked at, not the one written. A    *)
(* cut run fails however its save went.                                      *)
Readable(loc) ==
    /\ ~(loc.dir = LocalOut /\ local \in {"absent", "file"})
    /\ Phys(loc) \in DOMAIN disk
    /\ disk[Phys(loc)].kind = "text"

VerifySaved(r) ==
    /\ At(r, "verify")
    /\ Fail(r, IF Readable(req[r].out) /\ req[r].outcome # "cut" THEN "processed" ELSE "failed")
    /\ UNCHANGED <<agenda, project, files>>

(* ---- init ----------------------------------------------------------------- *)

(* Directories, SKILL.md, and the directory of an older release, which is    *)
(* moved aside unless one was moved before.                                  *)
InitStart(r) ==
    LET stuck == legacy.now = "dir" /\ legacy.kept
    IN /\ At(r, "harden")
       /\ \/ DiskFault(r, InitReply(Ask(r).surface, FALSE)) /\ UNCHANGED legacy
          \/ stuck /\ Reply(r, InitReply(Ask(r).surface, FALSE)) /\ UNCHANGED <<agenda, legacy>>
          \/ /\ ~stuck /\ Goto(r, "clear")
             /\ legacy' = [now |-> "absent", kept |-> legacy.kept \/ legacy.now = "dir"]
             /\ UNCHANGED agenda
       /\ UNCHANGED <<project, disk, meta, local>>

\* Mutant: the directory in the link's place is removed with what it holds.
RemovedWhole(r) == [l \in {m \in DOMAIN disk : m.dir # LocalOut} |-> disk[l]]

(* A real directory in a link's place is kept beside it.                     *)
Aside(r, l) == IF l.dir = LocalOut THEN [l EXCEPT !.dir = <<"backup", r>>] ELSE l
MovedAside(r) ==
    [m \in {Aside(r, l) : l \in DOMAIN disk} |-> disk[CHOOSE l \in DOMAIN disk : Aside(r, l) = m]]

InitClear(r) ==
    /\ At(r, "clear")
    /\ \/ DiskFault(r, InitReply(Ask(r).surface, FALSE)) /\ UNCHANGED <<disk, local>>
       \/ /\ Goto(r, "link")
          /\ disk' = IF local = "dir" THEN MovedAside(r) ELSE disk
          /\ local' = "absent"
          /\ UNCHANGED agenda
    /\ UNCHANGED <<project, meta, legacy>>

(* A link, or a directory where links are refused; something another process *)
(* put there is left. The .gitignore ends it.                                *)
InitLink(r) ==
    /\ At(r, "link")
    /\ \/ DiskFault(r, InitReply(Ask(r).surface, FALSE)) /\ UNCHANGED local
       \/ /\ Reply(r, InitReply(Ask(r).surface, TRUE))
          /\ local' \in IF local = "absent" THEN {"link", "dir"} ELSE {local}
          /\ UNCHANGED agenda
    /\ UNCHANGED <<project, disk, meta, legacy>>

(* ---- the verbs ------------------------------------------------------------ *)

ServeVerb(r) ==
    /\ At(r, "verb") /\ Ask(r).verb \in DOMAIN Backs
    /\ \E back \in Backs[Ask(r).verb] :
         req' = [req EXCEPT ![r].pc = "done", ![r].outcome = back,
                            ![r].reply = VerbReply(FS, Root, Ask(r), back)]
    /\ UNCHANGED <<agenda, project, files>>

(* What the doctor, and the config verbs, say of an environment.             *)
Diagnose(r) ==
    /\ At(r, "verb") /\ Ask(r).verb = "doctor"
    /\ LET e == Ask(r).env
           checks == DoctorChecks(e, Ask(r).facts, Ask(r).deep, Ask(r).smoke)
       IN req' = [req EXCEPT ![r].pc = "done",
                             ![r].diag = [mode |-> DoctorSandboxMode(e), capacity |-> DoctorCapacity(e),
                                          warns |-> DoctorWarns(e, Ask(r).facts),
                                          gate |-> AllPassed(HealthProbe(e, Ask(r).facts))],
                             ![r].reply = IF AllPassed(checks) THEN Answer ELSE Refuse("unhealthy")]
    /\ UNCHANGED <<agenda, project, files>>

ReportConfig(r) ==
    /\ At(r, "verb") /\ Ask(r).verb = "config"
    /\ LET e == Ask(r).env
       IN req' = [req EXCEPT ![r].pc = "done",
                             ![r].diag = [mode |-> SandboxReport(e), capacity |-> CapacityReport(e),
                                          cfg |-> ForMode(e), issues |-> MinimumIssues(ForMode(e)),
                                          browsers |-> SwarmConcurrency(e)],
                             ![r].reply = Answer]
    /\ UNCHANGED <<agenda, project, files>>

(* What the slot plan, the path resolver and the validator each say of a     *)
(* destination.                                                              *)
CheckPaths(r) ==
    /\ At(r, "verb") /\ Ask(r).verb = "paths"
    /\ LET path == Ask(r).prompt
       IN req' = [req EXCEPT ![r].pc = "done",
                             ![r].diag = [slot |-> ~OutputDirWriteError(FS, path),
                                          resolver |-> PathWritable(FS, path),
                                          issue |-> PathIssue(FS, "output_path", path)],
                             ![r].reply = Answer]
    /\ UNCHANGED <<agenda, project, files>>

(* ---- around them ---------------------------------------------------------- *)

EditTree ==
    /\ \E e \in agenda.edits :
         /\ tree' = (tree \ e.drop) \cup e.add
         /\ agenda' = [agenda EXCEPT !.edits = @ \ {e}]
    /\ req' = [r \in Requests |-> [req[r] EXCEPT !.dirty = @ \/ req[r].pc \in {"follow", "bundled"}]]
    /\ UNCHANGED <<index, bundles, second, template, files>>

MakeDir ==
    /\ \E l \in agenda.dirs \ DOMAIN disk :
         /\ disk' = Put(disk, l, [by |-> "operator", kind |-> "dir"])
         /\ agenda' = [agenda EXCEPT !.dirs = @ \ {l}]
    /\ UNCHANGED <<project, req, meta, local, legacy>>

Tick ==
    /\ second < agenda.seconds /\ second' = second + 1
    /\ UNCHANGED <<agenda, tree, index, bundles, template, req, files>>

(* A process dies, and every request it served with it.                      *)
Active(r) == req[r].pc \notin {"idle", "done", "dead"}
Die(p) ==
    LET its == {r \in Requests : Active(r) /\ Process(Ask(r), r) = p}
    IN /\ agenda.deaths > 0 /\ its # {}
       /\ agenda' = [agenda EXCEPT !.deaths = @ - 1]
       /\ req' = [r \in Requests |-> IF r \in its THEN [req[r] EXCEPT !.pc = "dead"] ELSE req[r]]
       /\ index' = [k \in {x \in DOMAIN index : x[1] # p} |-> index[k]]
       /\ UNCHANGED <<tree, bundles, second, template, files>>

Outcomes == {"answer", "noise", "cut", "cut blank", "auth", "error", "refused"}

IntakeInit ==
    /\ agenda \in Agendas
    /\ tree = agenda.tree
    /\ disk = agenda.disk
    /\ local = agenda.local
    /\ legacy = agenda.legacy
    /\ index = <<>> /\ meta = <<>> /\ bundles = <<>>
    /\ template = "whole" /\ second = 0
    /\ req = [r \in Requests |-> Idle]

IntakeNext ==
    \/ \E r \in Requests :
         \/ Arrive(r) \/ TruncateTemplate(r) \/ FillTemplate(r)
         \/ CliValidate(r) \/ McpValidate(r) \/ TuiPlan(r)
         \/ AdapterStart(r) \/ FollowOne(r) \/ EndHop(r) \/ WriteBundle(r)
         \/ Preflight(r) \/ \E o \in Outcomes : RunEnds(r, o)
         \/ EnsureDir(r) \/ WriteText(r) \/ WriteSidecar(r) \/ VerifySaved(r)
         \/ InitStart(r) \/ InitClear(r) \/ InitLink(r)
         \/ ServeVerb(r) \/ Diagnose(r) \/ ReportConfig(r) \/ CheckPaths(r)
    \/ EditTree \/ MakeDir \/ Tick
    \/ \E p \in Requests \cup {"mcp"} : Die(p)

IntakeSpec == IntakeInit /\ [][IntakeNext]_intakeVars

(* ---- properties ----------------------------------------------------------- *)

(* A bundle compiled while the project stood still, by a process whose index *)
(* of the notes is not stale, holds the scanned files and what a bounded     *)
(* chain of imports inside the boundary reaches, each once and readable: the *)
(* early exits, the boundary, the cycle guard and the hops of the walk lose  *)
(* and add nothing (collect_folder_files_with_imports).                      *)
BundleIsClosure ==
    \A r \in Requests : At(r, "bundled") /\ ~req[r].dirty /\ bundles[req[r].attach].by = r =>
        LET folder == Ask(r).attach
            notes == MdIndex(tree, folder)
            held == bundles[req[r].attach].files
        IN IndexOf(Process(Ask(r), r), folder) \in {NoIndex, notes} =>
             /\ {held[i].file : i \in DOMAIN held} = Closure(tree, notes, folder, BoundaryRoot(EnvRoot, folder))
             /\ \A i, j \in DOMAIN held : held[i].file = held[j].file => i = j
             /\ \A i \in DOMAIN held : held[i].text = "content"

(* Another request was sent to the same place or to the same sidecar.        *)
Base(loc) == [dir |-> IF loc.dir = LocalOut THEN XdgOut ELSE loc.dir, name |-> loc.name]
Contested(r) ==
    \E q \in Requests \ {r} : req[q].target # NoOut /\ Base(req[q].target) = Base(req[r].target)

(* The same folder is attached to another request, or the same role used.    *)
Same(r, field) == \E q \in Requests \ {r} : field \in DOMAIN Ask(q) /\ Ask(q)[field] = Ask(r)[field]

(* A run whose reply is a success was answered, its text and its sidecar are *)
(* where they were written (an init may have moved the directory aside), and *)
(* the bundle it uploaded was its own; one that was answered and fails has a *)
(* reason: a write the disk refused, a destination that became a directory,  *)
(* the local link gone, or another request at the same destination. A prompt *)
(* is read blank only beside another materialisation of its role.            *)
RunHonest(r) ==
    At(r, "done") /\ Ask(r).verb \in RunVerbs =>
        /\ req[r].reply.ok =>
             /\ req[r].outcome \in {"answer", "noise"}
             /\ \/ Contested(r)
                \/ req[r].outcome = "noise" /\ req[r].out.dir = LocalOut
                \/ /\ req[r].outcome = "answer"
                   /\ \E l \in DOMAIN disk : disk[l] = [by |-> r, kind |-> "text"]
                   /\ \E s \in DOMAIN meta : meta[s] = r
             /\ req[r].sent.by \in {"none", r} \/ Same(r, "attach")
        /\ req[r].outcome = "answer" /\ ~req[r].reply.ok =>
             \/ req[r].hit \/ IsDirAt(req[r].out) \/ req[r].out.dir = LocalOut \/ Contested(r)
        /\ req[r].prompt = "blank" => Same(r, "role")

(* An init that reports success leaves the destination usable, unless        *)
(* another one is at work or died at it.                                     *)
InitHonest(r) ==
    At(r, "done") /\ Ask(r).verb = "init" /\ req[r].reply.ok =>
        \/ local \in {"link", "dir"}
        \/ \E q \in Requests \ {r} : Ask(q).verb = "init" /\ ~(At(q, "done") /\ req[q].reply.ok)

(* A verb reports success exactly when its input was in order and the        *)
(* component did what was asked. Set apart: a removal the operator declined, *)
(* and the answers the surfaces give on purpose or by mistake whatever the   *)
(* component said (see the README).                                          *)
Whatever(a) ==
    CASE a.surface = "mcp" /\ a.verb = "session login"  -> {"error"}
      [] a.surface = "mcp" /\ a.verb = "session remove" -> {"absent"}
      [] a.surface = "mcp" /\ a.verb = "session check"  -> {"absent"}
      [] a.verb = "metrics"                             -> {"absent"}
      [] a.verb = "swarm cancel"                        -> {"absent"}
      [] OTHER                                          -> {}
InputInOrder(a) ==
    CASE a.verb = "job submit" ->
           /\ a.role \/ (a.prompt \in FS.files /\ IsPrefix(Root, a.prompt))
           /\ a.attach = NoPath \/ (Exists(FS, a.attach) /\ IsPrefix(Root, a.attach))
           /\ a.surface = "cli" /\ a.out # NoPath =>
                ParentOf(a.out) \in FS.dirs /\ IsPrefix(Root, ParentOf(a.out))
      [] a.verb = "swarm start" -> Exists(FS, a.prompt) /\ IsPrefix(Root, a.prompt)
      [] a.verb \in {"swarm status", "swarm cancel"} -> a.id = "good"
      [] a.verb \in {"job status", "job list"} -> a.surface = "mcp" => a.valid
      [] a.verb = "session remove" -> a.surface = "mcp" => a.confirm /\ a.named
      [] a.verb = "metrics" -> a.inside
      [] OTHER -> TRUE
Declined(a) == a.verb = "session remove" /\ a.surface = "cli" /\ ~a.keep /\ Asks(a) /\ ~a.confirm
VerbHonest(r) ==
    Ask(r).verb \in DOMAIN Backs =>
        req[r].reply.ok <=>
            \/ Declined(Ask(r)) /\ req[r].outcome # "absent"
            \/ InputInOrder(Ask(r)) /\ req[r].outcome \in {"ok"} \cup Whatever(Ask(r))

(* What the doctor and the config verbs say of an environment is what a run  *)
(* started in it gets: the sandbox, the browsers, the timeouts, a           *)
(* configuration that can be built. Where they are known to differ is set    *)
(* apart: switches with blanks around them, the sandbox forced on a host     *)
(* that cannot hold it, zero workers, a signed number. The doctor without    *)
(* its extra probes and the update's gate never disagree.                    *)
Padded(e) == "padded" \in {e.disable, e.enable}
DoctorHonest(r) ==
    Ask(r).verb = "doctor" =>
        LET e == Ask(r).env
            diag == req[r].diag
        IN /\ Padded(e) \/ (RunFlag(e.enable) /\ SandboxUnavailable(e.host))
                \/ (diag.mode = "disabled" <=> RunsUnsandboxed(e, FALSE))
           /\ (e.workers.form = "digits" /\ e.workers.value = 0) \/ diag.capacity.effective = MaxWorkers(e)
           /\ MaxWorkers(e) > RecommendedMaxWorkers(e.memory) => diag.warns
           /\ ~Ask(r).deep /\ ~Ask(r).smoke => (req[r].reply.ok <=> diag.gate)
           /\ req[r].reply.ok /\ Ask(r).smoke => Ask(r).facts.validates
ConfigHonest(r) ==
    Ask(r).verb = "config" =>
        LET e == Ask(r).env
            diag == req[r].diag
            run == BuildAppConfig(e, FALSE, DefaultRequestTimeout)
        IN /\ Padded(e) \/ (diag.mode \in {"disabled_by_env", "disabled_by_host"} <=> run.unsandboxed)
           /\ Padded(e) \/ diag.cfg = run
           /\ diag.capacity.effective = MaxWorkers(e)
           /\ ConfigValid(diag.cfg) <=> diag.issues = {}
           /\ diag.browsers \in 1..DefaultMaxWorkers

(* The three checks of a destination do not contradict one another: what the *)
(* slot plan starts, the resolver accepts, and so does it what the validator *)
(* finds nothing wrong with, unless it is a directory itself: the validator  *)
(* looks at its parent only. (A file in the way stops the slot plan alone.)  *)
PathsHonest(r) ==
    Ask(r).verb = "paths" =>
        LET diag == req[r].diag
        IN diag.slot \/ (diag.issue = "none" /\ Ask(r).prompt \notin FS.dirs) => diag.resolver

(* What was said of a run or an init stays true; what a verb answers is true *)
(* when it is said.                                                          *)
ReplyIsHonest ==
    /\ []\A r \in Requests : RunHonest(r) /\ InitHonest(r)
    /\ [][\A r \in Requests : req[r].pc = "verb" /\ req'[r].pc = "done" =>
             (VerbHonest(r) /\ DoctorHonest(r) /\ ConfigHonest(r) /\ PathsHonest(r))']_intakeVars

(* No step of a run or of an init loses an answer that was saved before, or  *)
(* what the operator kept in the directories init replaces: it stays, is     *)
(* moved aside, or is overwritten by a request sent to that very place.      *)
NothingLost ==
    [][/\ \A l \in DOMAIN disk : disk[l].kind # "empty" =>
            \/ \E m \in DOMAIN disk' : disk'[m] = disk[l] /\ m.name = l.name
            \/ /\ l \in DOMAIN disk'
               /\ \E r \in Requests : disk'[l].by = r /\ Base(req[r].target) = Base(l)
       /\ legacy.now = "dir" /\ legacy'.now # "dir" => ~legacy.kept /\ legacy'.kept]_intakeVars
=============================================================================
