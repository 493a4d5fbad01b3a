---------------------------- MODULE FolderBundle ----------------------------
(* How a folder becomes one attachment: the scan of the folder, the         *)
(* resolution of the imports and links of its files, language by language,  *)
(* and the breadth-first walk over what they name                           *)
(* (shared/src/common/utility_folder_compiler.py).                          *)
(* A directory is a sequence of names and a file a record: its directory    *)
(* and stem in "at", its suffix in "ext". A specifier is what the parser    *)
(* reads in a file, its percent escapes decoded: its form, the ".." it      *)
(* climbs, its names and suffix. Letter case is left out. The index of a    *)
(* folder's notes is a parameter, for the process caches it.                *)
EXTENDS Integers, Sequences, FiniteSets, SequencesExt

CONSTANTS
    CodeExts,        \* CODE_EXTENSIONS: the suffixes the scan takes
    ImportableExts,  \* _IMPORTABLE_SUFFIXES: the suffixes an import may have
    ExcludedDirs,    \* EXCLUDED_DIR_NAMES
    Secret,          \* the files whose name marks a credential store
    Binary,          \* the files whose first chunk holds a NUL byte
    Specs,           \* file -> the specifiers parsed from it, in order
    TsConfigs,       \* tsconfig -> its baseUrl, its paths in order, what it extends
    LinkTo,          \* symbolic link -> the file it names
    Sorted,          \* every file, in the order the scan sorts them
    HashOrder,       \* every directory, in the order a set of them is walked
    MaxFolderDepth,  \* MAX_FOLDER_DEPTH
    MaxImportDepth   \* MAX_IMPORT_DEPTH: hops an import is followed

ASSUME BundleAssumption ==
    /\ MaxFolderDepth \in Nat /\ MaxImportDepth \in Nat
    /\ CodeExts \cup ImportableExts \subseteq STRING

F(at, ext) == [at |-> at, ext |-> ext]
Dir(f) == Front(f.at)
Stem(f) == Last(f.at)
Up(dir, n) == SubSeq(dir, 1, IF n > Len(dir) THEN 0 ELSE Len(dir) - n)
Within(dir, root) == IsPrefix(root, dir)
Real(f) == IF f \in DOMAIN LinkTo THEN LinkTo[f] ELSE f
IsFile(tree, f) == f \in tree /\ Real(f) \in tree
InOrder(files) == SelectSeq(Sorted, LAMBDA f : f \in files)
Concat(seqs) == FoldLeft(\o, <<>>, seqs)
Each(op(_), seq) == [i \in DOMAIN seq |-> op(seq[i])]

(* ---- the scan ---------------------------------------------------------- *)

(* The names of a path that may be an excluded one: a file's own name only   *)
(* when it has no suffix.                                                    *)
Parts(f) == Range(Dir(f)) \cup (IF f.ext = "" THEN {Stem(f)} ELSE {})

(* A component of the path below the scanned folder is on the list.          *)
IsExcluded(f, folder) ==
    \/ ~Within(f.at, folder)
    \/ Parts([f EXCEPT !.at = SubSeq(f.at, Len(folder) + 1, Len(f.at))]) \cap ExcludedDirs # {}

IsExcludedFile(f) == f \in Secret

IsTextFile(f) == Real(f) \notin Binary

CollectFiles(tree, folder, exts) ==
    {f \in tree : /\ Within(Dir(f), folder)
                  /\ Len(Dir(f)) - Len(folder) <= MaxFolderDepth
                  /\ ~IsExcluded(f, folder)
                  /\ IsFile(tree, f)
                  /\ ~IsExcludedFile(f)
                  /\ f.ext \in exts
                  /\ IsTextFile(f)}

(* ---- candidates, one language at a time -------------------------------- *)

(* A module name is a file, or a directory with an index file in it.         *)
ModuleAt(base, ext, index) == <<F(base, ext), F(Append(base, index), ext)>>

PyCandidates(base, folder, s) ==
    LET at(root) == ModuleAt(root \o s.names, ".py", "__init__") IN
    IF s.form = "relative"
    THEN IF s.names = <<>> THEN <<F(Append(Up(base, s.up), "__init__"), ".py")>>
         ELSE at(Up(base, s.up))
    ELSE Concat(Each(at, <<Up(folder, 1), folder, base>>))

TsExts == <<".ts", ".tsx", ".js", ".jsx", ".mjs", ".cjs">>
TsIndexExts == <<".ts", ".tsx", ".js", ".jsx", ".mjs">>

TsAt(base, ext) ==
    LET file(e) == F(base, e)
        index(e) == F(Append(base, "index"), e)
    IN IF ext # "" THEN <<F(base, ext)>>
       ELSE Each(file, TsExts) \o Each(index, TsIndexExts)

(* The nearest directory at or above this one that holds the file.           *)
NearestHome(tree, dir, name, ext) ==
    LET homes == {d \in 0..Len(dir) : F(Append(SubSeq(dir, 1, d), name), ext) \in tree}
    IN IF homes = {} THEN <<"none">>
       ELSE SubSeq(dir, 1, CHOOSE d \in homes : \A e \in homes : e <= d)

FindTsconfig(tree, dir) == NearestHome(tree, dir, "tsconfig", ".json")

(* baseUrl and paths, what it extends read first: an alias of its own takes  *)
(* the place of an inherited one.                                            *)
LoadTsconfigPaths[home \in DOMAIN TsConfigs] ==
    LET own == TsConfigs[home]
        Has(paths, p) == \E q \in Range(paths) : q.alias = p.alias /\ q.star = p.star
    IN IF own.extends \notin DOMAIN TsConfigs
       THEN [base |-> home \o own.base, paths |-> own.paths]
       ELSE LET ext == LoadTsconfigPaths[own.extends]
                Mine(p) == SelectSeq(own.paths, LAMBDA q : Has(<<p>>, q))
                Pick(p) == IF Has(own.paths, p) THEN Head(Mine(p)) ELSE p
            IN [base |-> ext.base \o own.base,
                paths |-> Each(Pick, ext.paths)
                          \o SelectSeq(own.paths, LAMBDA p : ~Has(ext.paths, p))]

(* The candidates of the first alias the specifier matches; what is left of  *)
(* its names replaces the star.                                              *)
AliasCandidates(config, s) ==
    LET rest == Tail(s.names)
        hits == SelectSeq(config.paths, LAMBDA p : /\ p.alias = Head(s.names)
                                                   /\ p.star <=> rest # <<>>
                                                   /\ p.targets # <<>>)
        fill(t) == TsAt(config.base \o t \o rest, s.ext)
    IN IF hits = <<>> THEN <<>> ELSE Concat(Each(fill, Head(hits).targets))

(* "roots" is a set in the code.                                             *)
TsCandidates(tree, base, folder, s) ==
    LET roots == SelectSeq(HashOrder, LAMBDA d : d \in {base, folder})
        at(d) == LET home == FindTsconfig(tree, d)
                 IN IF home \notin DOMAIN TsConfigs THEN <<>>
                    ELSE AliasCandidates(LoadTsconfigPaths[home], s)
        found == SelectSeq(Each(at, roots), LAMBDA c : c # <<>>)
    IN IF s.form = "relative" THEN TsAt(Up(base, s.up) \o s.names, s.ext)
       ELSE IF found = <<>> THEN <<>> ELSE Head(found)

(* C, PHP, Ruby and shell name a file beside the importing one: the file     *)
(* itself when it has a suffix, else the language's guesses in order.        *)
Beside(base, s, guesses(_)) ==
    LET b == Up(base, s.up) \o s.names IN IF s.ext # "" THEN <<F(b, s.ext)>> ELSE guesses(b)

Suffixed(b, exts) == LET with(e) == F(b, e) IN Each(with, exts)

CCandidates(base, s) == Beside(base, s, LAMBDA b : Suffixed(b, <<"", ".h", ".hpp", ".c", ".cpp">>))
PhpCandidates(base, s) == Beside(base, s, LAMBDA b : ModuleAt(b, ".php", "index"))
RubyCandidates(base, s) == Beside(base, s, LAMBDA b : ModuleAt(b, ".rb", "index"))
ShellCandidates(base, s) == Beside(base, s, LAMBDA b : Suffixed(b, <<"", ".sh", ".bash">>))

GoCandidates(base, folder, s) ==
    Beside(IF s.form = "relative" THEN base ELSE folder, s, LAMBDA b : ModuleAt(b, ".go", "main"))

FindCrateRoot(tree, dir) ==
    LET home == NearestHome(tree, dir, "Cargo", ".toml")
    IN IF home = <<"none">> THEN dir ELSE home

(* "use a::b" is any prefix of its names under any of the crate's roots.     *)
RustCandidates(tree, base, folder, s) ==
    LET at(b) == ModuleAt(b, ".rs", "mod")
        roots == SelectSeq(HashOrder, LAMBDA d : d \in {FindCrateRoot(tree, base),
                                                        FindCrateRoot(tree, folder), folder})
        under(d) == Concat([i \in 1..Len(s.names) |-> at(d \o SubSeq(s.names, 1, i))])
    IN IF s.form = "mod" THEN at(base \o s.names) \o at(folder \o s.names)
       ELSE Concat(Each(under, roots))

(* The notes of the folder, which a wikilink names by stem or by path. The   *)
(* index is built once per folder and process.                               *)
MdIndex(tree, folder) == CollectFiles(tree, folder, {".md"})

MdHits(index, folder, s) ==
    {f \in index : \/ s.names = <<Stem(f)>> /\ s.ext = ""
                   \/ /\ s.names = SubSeq(f.at, Len(folder) + 1, Len(f.at))
                      /\ s.ext \in {"", f.ext}}

MdAt(base, ext) ==
    <<F(base, IF ext # "" THEN ext ELSE ".md"),
      F(Append(base, "index"), ".md"), F(Append(base, "README"), ".md")>>

MdCandidates(index, base, folder, s) ==
    LET hits == IF s.form = "wiki" THEN MdHits(index, folder, s) ELSE {}
        at(root) == MdAt(Up(root, s.up) \o s.names, s.ext)
    IN IF hits # {} THEN InOrder(hits)
       ELSE Concat(Each(at, <<base, folder, Up(folder, 1)>>))

(* ---- resolution and the walk ------------------------------------------- *)

JsFamily == {".js", ".jsx", ".ts", ".tsx", ".mjs", ".cjs"}
CFamily == {".c", ".h", ".cpp", ".hpp", ".cc", ".cxx", ".hxx", ".hh"}
ShellFamily == {".sh", ".bash", ".zsh"}

Candidates(tree, index, f, folder, s) ==
    LET base == Dir(f) IN
    CASE f.ext = ".py"           -> PyCandidates(base, folder, s)
      [] f.ext \in JsFamily      -> TsCandidates(tree, base, folder, s)
      [] f.ext \in CFamily       -> CCandidates(base, s)
      [] f.ext = ".go"           -> GoCandidates(base, folder, s)
      [] f.ext = ".rs"           -> RustCandidates(tree, base, folder, s)
      [] f.ext = ".php"          -> PhpCandidates(base, s)
      [] f.ext = ".rb"           -> RubyCandidates(base, s)
      [] f.ext \in ShellFamily   -> ShellCandidates(base, s)
      [] f.ext = ".md"           -> MdCandidates(index, base, folder, s)
      [] OTHER                   -> <<>>

NotFound == F(<<>>, "")

(* The first candidate that is a file, its links followed.                   *)
ResolveImport(tree, index, f, folder, s) ==
    LET there == SelectSeq(Candidates(tree, index, f, folder, s), LAMBDA c : IsFile(tree, c))
    IN IF there = <<>> THEN NotFound ELSE Real(Head(there))

(* The specifiers of a file, none when it cannot be read.                    *)
ParseImports(tree, f) == IF IsFile(tree, f) /\ Real(f) \in DOMAIN Specs THEN Specs[Real(f)] ELSE <<>>

(* A resolved import the bundle may hold, wherever it lies; the directories  *)
(* above the project count among its parts.                                  *)
MayImport(f) ==
    /\ ~IsExcludedFile(f)
    /\ f.ext \in ImportableExts
    /\ Parts(f) \cap ExcludedDirs = {}

(* The boundary of the imports: the workspace root of the environment, else  *)
(* the folder's parent. <<"none">> is an unset root.                         *)
BoundaryRoot(envRoot, folder) == IF envRoot # <<"none">> THEN envRoot ELSE Up(folder, 1)

\* Mutant: an import that was found is followed wherever it lies.
FollowAnywhere(tree, index, folder, boundary, f, walk, s) ==
    LET g == ResolveImport(tree, index, f, folder, s) IN
    IF g = NotFound \/ g \in walk.seen \/ ~MayImport(g) THEN walk
    ELSE [walk EXCEPT !.seen = @ \cup {g}, !.next = Append(@, g)]

(* One specifier of one file of the frontier.                                *)
FollowSpec(tree, index, folder, boundary, f, walk, s) ==
    LET g == ResolveImport(tree, index, f, folder, s) IN
    IF g = NotFound \/ g \in walk.seen \/ ~MayImport(g) THEN walk
    ELSE IF ~Within(g.at, boundary) THEN [walk EXCEPT !.refused = @ \cup {g}]
    ELSE [walk EXCEPT !.seen = @ \cup {g}, !.next = Append(@, g)]

(* One file of the frontier: its specifiers in their order.                  *)
FollowFile(tree, index, folder, boundary, walk) ==
    LET f == Head(walk.frontier)
        step(w, s) == FollowSpec(tree, index, folder, boundary, f, w, s)
    IN [FoldLeft(step, walk, ParseImports(tree, f)) EXCEPT !.frontier = Tail(@)]

(* The end of a hop: what it found is added, and is the next frontier.       *)
NextHop(walk) ==
    [walk EXCEPT !.files = @ \o walk.next, !.frontier = walk.next, !.next = <<>>, !.hop = @ + 1]

StartWalk(base) ==
    [files |-> InOrder(base), seen |-> base, frontier |-> InOrder(base), next |-> <<>>,
     hop |-> 0, refused |-> {}]

HopOver(walk) == walk.frontier = <<>>
WalkOver(walk) == walk.hop = MaxImportDepth \/ (HopOver(walk) /\ walk.next = <<>>)

(* The sections of the bundle. A file that is gone by the time it is read    *)
(* keeps its section, with the read error for its text.                      *)
CompileFiles(tree, walk) ==
    LET section(f) == [file |-> f, text |-> IF IsFile(tree, f) THEN "content" ELSE "read error"]
    IN Each(section, walk.files)

(* ---- the reference ------------------------------------------------------ *)

(* What a bundle should hold: the scanned files, and the files a chain of at *)
(* most MaxImportDepth imports reaches from them, every link of the chain    *)
(* allowed and inside the boundary.                                          *)
Imports(tree, index, folder, boundary, f) ==
    {g \in {ResolveImport(tree, index, f, folder, ParseImports(tree, f)[i]) :
              i \in DOMAIN ParseImports(tree, f)} :
        g # NotFound /\ MayImport(g) /\ Within(g.at, boundary)}

Closure(tree, index, folder, boundary) ==
    LET reach[k \in 0..MaxImportDepth] ==
          IF k = 0 THEN CollectFiles(tree, folder, CodeExts)
          ELSE reach[k - 1] \cup UNION {Imports(tree, index, folder, boundary, f) : f \in reach[k - 1]}
    IN reach[MaxImportDepth]
=============================================================================
