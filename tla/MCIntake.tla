------------------------------ MODULE MCIntake ------------------------------
(* A small project and what may be asked of it: a folder p whose imports and *)
(* links lead out of it, a folder q with a file of every language, a prompt, *)
(* and agendas that each bring a few requests together.                      *)
EXTENDS Intake, TLC

CONSTANTS r1, r2

W == <<"w">>
P == W \o <<"p">>
Q == W \o <<"q">>
Out == W \o <<"out">>
Prompt == W \o <<"ask">>

(* ---- the project ---------------------------------------------------------- *)

File(dir, name, ext) == F(Append(dir, name), ext)
Main == File(P, "main", ".py")
Notes == File(P, "notes", ".md")
Idea == File(P, "idea", ".md")
OldIdea == File(W, "idea", ".md")
Util == File(W, "util", ".py")
Deep == File(W, "deep", ".py")
Deeper == File(W, "deeper", ".py")
Away == File(<<>>, "away", ".py")
Sym == File(W, "sym", ".py")
Lib == File(P \o <<"node_modules">>, "lib", ".js")
Env == File(P, ".env", "")
Keys == File(W, "id_rsa", ".md")
HugeNote == File(P, "huge", ".md")
AskFile == F(Prompt, ".md")

Ts == File(Q, "a", ".ts")
TsConfig == File(Q, "tsconfig", ".json")
BaseConfig == File(W, "tsconfig", ".json")
Shared == File(W \o <<"lib", "x">>, "index", ".ts")
CFile == File(Q, "b", ".c")
Header == File(W, "b", ".h")
Go == File(Q, "c", ".go")
GoMain == File(Q \o <<"sub">>, "main", ".go")
Rs == File(Q, "d", ".rs")
Cargo == File(W, "Cargo", ".toml")
RsMod == File(W \o <<"e">>, "mod", ".rs")
RsLeaf == File(Q, "leaf", ".rs")
Php == File(Q, "f", ".php")
PhpInc == File(W, "g", ".php")
Rb == File(Q, "h", ".rb")
Sh == File(Q, "i", ".sh")
ShInc == File(W, "j", ".bash")

Spec1(form, up, names, ext) == [form |-> form, up |-> up, names |-> names, ext |-> ext]
MCSpecs ==
    (Main :> <<Spec1("plain", 0, <<"util">>, ""), Spec1("plain", 0, <<"sym">>, ""),
               Spec1("relative", 0, <<"main">>, "")>>)
    @@ (Notes :> <<Spec1("wiki", 0, <<"idea">>, ""), Spec1("path", 1, <<"id_rsa">>, ".md")>>)
    @@ (Util :> <<Spec1("plain", 0, <<"deep">>, ""), Spec1("relative", 1, <<"away">>, "")>>)
    @@ (Deep :> <<Spec1("plain", 0, <<"deeper">>, ""), Spec1("plain", 0, <<"util">>, "")>>)
    @@ (Ts :> <<Spec1("bare", 0, <<"@", "x">>, ""), Spec1("relative", 0, <<"none">>, "")>>)
    @@ (CFile :> <<Spec1("path", 1, <<"b">>, "")>>)
    @@ (Go :> <<Spec1("path", 0, <<"sub">>, "")>>)
    @@ (Rs :> <<Spec1("use", 0, <<"e", "thing">>, ""), Spec1("mod", 0, <<"leaf">>, "")>>)
    @@ (Php :> <<Spec1("path", 1, <<"g">>, ".php")>>)
    @@ (Rb :> <<Spec1("path", 1, <<"none">>, "")>>)
    @@ (Sh :> <<Spec1("path", 1, <<"j">>, "")>>)
Alias(alias, star, targets) == [alias |-> alias, star |-> star, targets |-> targets]
MCTsConfigs ==
    (Q :> [base |-> <<>>, paths |-> <<Alias("~", TRUE, <<<<"none">>>>)>>, extends |-> W])
    @@ (W :> [base |-> <<>>, paths |-> <<Alias("@", TRUE, <<<<"lib">>>>)>>, extends |-> <<"none">>])
MCLinkTo == Sym :> Away
MCSorted == <<Env, Away, AskFile, Cargo, Deep, Deeper, OldIdea, Keys, Sym, Util, Header, PhpInc, ShInc,
              RsMod, Shared, HugeNote, Idea, Main, Lib, Notes, Ts, CFile, Go, Rs, RsLeaf, Php, Rb, Sh,
              GoMain, TsConfig, BaseConfig>>
MCHashOrder == <<W, Q, P>>
InP == {Main, Notes, Idea, OldIdea, Util, Deep, Deeper, Away, Sym, Lib, Env, Keys, AskFile}
InQ == {Ts, TsConfig, BaseConfig, Shared, CFile, Header, Go, GoMain, Rs, Cargo, RsMod, RsLeaf, Php,
        PhpInc, Rb, Sh, ShInc, AskFile}
MCCodeExts == {".py", ".md", ".js", ".ts", ".c", ".go", ".rs", ".php", ".rb", ".sh", ".bash", ".h"}
MCImportable == MCCodeExts \cup {".txt"}
MCExcluded == {"node_modules", "dist"}
MCSecret == {Env, Keys}
MCHuge == {HugeNote}
MCNone == <<"none">>
MCWords == STRING
Nothing == {}

(* ---- environments --------------------------------------------------------- *)

Num(form, value) == [form |-> form, value |-> value]
Unset == Num("unset", 0)
GoodHost == [linux |-> TRUE, statusReadable |-> TRUE, seccomp |-> 2, noUserNamespaces |-> FALSE]
SomeHosts == {GoodHost, [GoodHost EXCEPT !.seccomp = 0], [GoodHost EXCEPT !.noUserNamespaces = TRUE],
          [GoodHost EXCEPT !.linux = FALSE, !.seccomp = 0]}
GoodEnv == [disable |-> "unset", enable |-> "unset", host |-> GoodHost, timeout |-> Unset, click |-> Unset,
            workers |-> Unset, swarm |-> Unset, memory |-> [available |-> 3, spare |-> 1]]
SomeNumbers == {Unset, Num("digits", 0), Num("digits", 5), Num("digits", 20), Num("signed", 30), Num("junk", 0)}
Envs == {[GoodEnv EXCEPT !.disable = d, !.enable = e, !.host = h] : d, e \in Switches, h \in SomeHosts}
        \cup {[GoodEnv EXCEPT !.workers = n, !.timeout = t, !.swarm = n, !.click = t, !.memory.available = m] :
                n, t \in SomeNumbers, m \in {0, 3, 9}}
GoodFacts == [python |-> TRUE, chromium |-> TRUE, deepChromium |-> TRUE, workspace |-> TRUE, healthy |-> 1,
              validates |-> TRUE, outputWritable |-> TRUE, unknownNames |-> FALSE, production |-> FALSE,
              tracked |-> FALSE]
Facts == {GoodFacts, [GoodFacts EXCEPT !.chromium = FALSE], [GoodFacts EXCEPT !.healthy = 0],
          [GoodFacts EXCEPT !.validates = FALSE], [GoodFacts EXCEPT !.production = TRUE]}

(* ---- asks ----------------------------------------------------------------- *)

Run(surface, verb, role, attach, out) ==
    [surface |-> surface, verb |-> verb, role |-> role, blank |-> FALSE, prompt |-> Prompt,
     attach |-> attach, out |-> out]
Named(name, ext) == [dir |-> Out, name |-> <<name, "named">>, ext |-> ext]
InitAsk(surface) == [surface |-> surface, verb |-> "init"]
Verb(surface, verb) ==
    [surface |-> surface, verb |-> verb, role |-> FALSE, prompt |-> Prompt, attach |-> NoPath, out |-> NoPath,
     id |-> "good", tty |-> FALSE, json |-> FALSE, force |-> FALSE, keep |-> FALSE, confirm |-> FALSE,
     named |-> TRUE, valid |-> TRUE, inside |-> TRUE]

Paths == {Prompt, P, W \o <<"none">>, <<"away">>}
Destinations == {NoPath, Out \o <<"o">>, W \o <<"o">>, <<"o">>, W \o <<"none", "o">>}
Submits == {[Verb(s, "job submit") EXCEPT !.role = role, !.prompt = p, !.attach = a, !.out = o] :
              s \in {"cli", "mcp"}, role \in BOOLEAN, p \in Paths, a \in {NoPath, P, <<"away">>, W \o <<"none">>},
              o \in Destinations}
OtherVerbs ==
    {Verb("cli", v) : v \in {"job status", "job list", "job cleanup", "session list", "session health", "brave",
                             "session login", "report"}}
    \cup {[Verb("mcp", v) EXCEPT !.valid = b] : v \in {"job status", "job list"}, b \in BOOLEAN}
    \cup {Verb("mcp", v) : v \in {"session login", "session check"}}
    \cup {[Verb("cli", "swarm start") EXCEPT !.prompt = p] : p \in Paths}
    \cup {[Verb("cli", v) EXCEPT !.id = i] : v \in {"swarm status", "swarm cancel"},
                                            i \in {"good", "blank", "long", "unsafe"}}
    \cup {[Verb("cli", "session remove") EXCEPT !.tty = t, !.json = j, !.force = f, !.keep = k, !.confirm = c] :
            t, j, f, k, c \in BOOLEAN}
    \cup {[Verb("mcp", "session remove") EXCEPT !.confirm = c, !.named = n] : c, n \in BOOLEAN}
    \cup {[Verb("cli", "metrics") EXCEPT !.inside = b] : b \in BOOLEAN}
    \cup {[Verb("cli", "paths") EXCEPT !.prompt = p] :
            p \in {Out \o <<"o">>, Out, P, W \o <<"none", "o">>, Prompt \o <<"o">>, P \o <<"o">>, <<"xdg">>}}
Doctors == {[surface |-> "cli", verb |-> "doctor", env |-> e, facts |-> GoodFacts, deep |-> FALSE, smoke |-> FALSE] :
              e \in Envs}
           \cup {[surface |-> "cli", verb |-> "doctor", env |-> GoodEnv, facts |-> f, deep |-> d, smoke |-> s] :
                   f \in Facts, d, s \in BOOLEAN}
Configs == {[surface |-> "tui", verb |-> "config", env |-> e] : e \in Envs}

(* ---- agendas -------------------------------------------------------------- *)

Plain == [asks |-> {}, tree |-> {AskFile}, disk |-> <<>>, local |-> "absent",
          legacy |-> [now |-> "absent", kept |-> FALSE], edits |-> {}, dirs |-> {}, locked |-> {},
          seconds |-> 0, faults |-> 0, deaths |-> 0, alone |-> FALSE, env |-> GoodEnv]
Kept(loc) == loc :> [by |-> "operator", kind |-> "text"]
OldLocal == [dir |-> LocalOut, name |-> <<"kept", "old">>, ext |-> ".md"]

(* Runs to the default destinations, and init; an older release's directory  *)
(* only where init moves a directory aside.                                  *)
Workspace == {[Plain EXCEPT !.asks = {Run("cli", "file", FALSE, NoPath, NoOut), Run("cli", "direct", FALSE, NoPath, NoOut),
                                      InitAsk(IF k THEN "mcp" ELSE "cli")},
                            !.local = l, !.legacy = [now |-> IF l = "dir" THEN "dir" ELSE "absent", kept |-> k],
                            !.disk = IF l = "dir" THEN Kept(OldLocal) ELSE <<>>,
                            !.faults = 1, !.deaths = 1] :
                l \in {"absent", "link", "dir", "file"}, k \in BOOLEAN}

(* The same folder for two surfaces, while the project is edited.            *)
Edit(add, drop) == [add |-> add, drop |-> drop]
Folder(surfaces, edit) ==
    [Plain EXCEPT !.asks = {Run(s, "attach", FALSE, P, NoOut) : s \in surfaces}, !.tree = InP, !.edits = {edit},
                  !.seconds = 1, !.deaths = 1]
Folders == {Folder({"mcp", "cli"}, Edit({}, {Idea})),
            [Folder({"cli", "tui"}, Edit({HugeNote}, {})) EXCEPT !.faults = 1],
            Folder({"mcp", "tui"}, Edit({}, {AskFile}))}

(* Destinations two requests share, a sidecar two destinations share, a      *)
(* destination that becomes a directory, a role.                             *)
Destined == [Plain EXCEPT !.asks = {Run("mcp", "file", FALSE, NoPath, Named("a", ".md")),
                                    Run("tui", "file", FALSE, NoPath, Named("a", ".txt")),
                                    Run("cli", "file", TRUE, NoPath, Named("d", "")),
                                    Run("mcp", "file", TRUE, NoPath, NoOut)},
                          !.dirs = {Named("d", "")}, !.faults = 1]
InDirectory == [Plain EXCEPT !.asks = {Run("tui", "file", FALSE, NoPath, Named("d", "")),
                                       Run("mcp", "direct", FALSE, NoPath, Named("d", ""))},
                             !.disk = Named("d", "") :> [by |-> "operator", kind |-> "dir"]]

(* One request at a time: a folder of every language, bad input, the verbs,  *)
(* the diagnoses, an environment no run can be configured in.                *)
Alone == {[Plain EXCEPT !.asks = {Run(s, "attach", FALSE, Q, NoOut) : s \in {"cli", "tui"}}, !.tree = InQ],
          [Plain EXCEPT !.asks = {[Run(s, v, FALSE, NoPath, NoOut) EXCEPT !.prompt = <<"none">>, !.blank = TRUE] :
                                    s \in {"cli", "mcp"}, v \in {"direct", "file"}}
                                 \cup {[Run("tui", "file", FALSE, NoPath, NoOut) EXCEPT !.prompt = <<"none">>],
                                       Run("cli", "attach", FALSE, W \o <<"none">>, NoOut),
                                       Run("mcp", "attach", FALSE, <<"xdg">>, NoOut),
                                       Run("tui", "attach", FALSE, Prompt, NoOut),
                                       Run("cli", "attach", FALSE, <<"xdg">>, NoOut)}],
          [Plain EXCEPT !.asks = Submits \cup OtherVerbs, !.tree = InP, !.locked = {P},
                        !.disk = Kept(Named("o", ".md"))],
          [Plain EXCEPT !.asks = Doctors \cup Configs],
          [Plain EXCEPT !.asks = {Run(s, "direct", FALSE, NoPath, NoOut) : s \in {"cli", "mcp"}}
                                 \cup {Run("tui", "file", FALSE, NoPath, NoOut)},
                        !.env.timeout = Num("digits", 5)]}
MCAgendas == Workspace \cup Folders \cup {Destined, InDirectory} \cup {[a EXCEPT !.alone = TRUE] : a \in Alone}

Symmetry == Permutations(Requests)
=============================================================================
