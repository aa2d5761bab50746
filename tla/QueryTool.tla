------------------------------ MODULE QueryTool ------------------------------
(***************************************************************************)
(* The query CLI, src/query-knowledge-graph.js: main() takes a command and *)
(* an argument, shows the help without loading anything, or loads the      *)
(* three artifacts into the module-level variables and runs one handler.   *)
(*                                                                         *)
(* The legend it loads is the one the generator wrote: by the refinement   *)
(* checked for LegendBuilder it is LegendBatch's BatchLegend of the files  *)
(* of that run (JSON.stringify/JSON.parse keep these keys, their order and *)
(* their values).  What a handler prints is abstracted to its kind and the *)
(* list of ids or names it prints, in order.                               *)
(*                                                                         *)
(* Lookups index plain objects with a user-supplied key, `o[key]`, so a    *)
(* name inherited from Object.prototype (JsObject's ProtoKeys) is found    *)
(* too.  The keyword and semantic commands are modelled in KeywordSearch.  *)
(***************************************************************************)
EXTENDS Integers, DataModel

CONSTANTS
    Commands,          \* values of process.argv[2]; "" when none is given
    Args,              \* values of args.slice(1).join(' ')
    StrIncludes(_, _), \* String.prototype.includes on the model's strings
    StrLower(_)        \* String.prototype.toLowerCase on the model's strings

LB == INSTANCE LegendBatch WITH BoxOf <- MakeBox

\* Commands the switch of main() handles here.
Handled == {"category", "depends", "box", "categories", "stats"}

EmptyLegend == [boxes |-> EmptyObject, categories |-> EmptyObject,
                dependencies |-> EmptyObject]

OutputKinds == {"none", "help", "list", "notfound", "box", "categories",
                "stats", "unknown"}

VARIABLES
    analyzedFiles,  \* the files of the generator run that wrote the artifacts
    artifactsOk,    \* the three artifacts exist and parse
    command,        \* args[0]
    arg,            \* args.slice(1).join(' ')
    legend,         \* the module-level `legend` (EmptyLegend until loaded)
    qpc,            \* "start", "loaded" (after loadKnowledgeGraph), "exited"
    exitCode,       \* process exit status once exited
    output          \* [kind, items]: what was printed

vars == <<analyzedFiles, artifactsOk, command, arg, legend, qpc, exitCode, output>>

TypeOK ==
    /\ analyzedFiles \in AnalyzedLists
    /\ artifactsOk \in BOOLEAN
    /\ command \in Commands
    /\ arg \in Args
    /\ qpc \in {"start", "loaded", "exited"}
    /\ exitCode \in {0, 1}
    /\ output.kind \in OutputKinds
    /\ output.items \in Seq(STRING)

Init ==
    /\ analyzedFiles \in AnalyzedLists
    /\ artifactsOk \in BOOLEAN
    /\ command \in Commands
    /\ arg \in Args
    /\ legend = EmptyLegend
    /\ qpc = "start"
    /\ exitCode = 0
    /\ output = [kind |-> "none", items |-> <<>>]

\* The process ends with this status after printing this.
Exit(code, kind, items) ==
    /\ qpc' = "exited"
    /\ exitCode' = code
    /\ output' = [kind |-> kind, items |-> items]

\* The first n elements of s: `s.slice(0, n)`.
Take(s, n) == SubSeq(s, 1, IF Len(s) < n THEN Len(s) ELSE n)

\* Bug variant of ShowsHelp, used as a mutant: only a missing command shows
\* the help (`if (args.length === 0)`).
ShowsHelpNoArgsOnly(cmd) == cmd = ""

\* The test of main(): `args.length === 0 || args[0] === 'help'`.
ShowsHelp(cmd) == cmd \in {"", "help"}

\* `if (args.length === 0 || args[0] === 'help') { showHelp(); return; }`
ShowHelp ==
    /\ qpc = "start"
    /\ ShowsHelp(command)
    /\ Exit(0, "help", <<>>)
    /\ UNCHANGED <<analyzedFiles, artifactsOk, command, arg, legend>>

\* `await loadKnowledgeGraph()`, for every other command.
LoadKnowledgeGraph ==
    /\ qpc = "start"
    /\ ~ShowsHelp(command)
    /\ artifactsOk
    /\ legend' = LB!BatchLegend(analyzedFiles)
    /\ qpc' = "loaded"
    /\ UNCHANGED <<analyzedFiles, artifactsOk, command, arg, exitCode, output>>

\* A readFile or JSON.parse rejection reaches main().catch: exit 1.
LoadFails ==
    /\ qpc = "start"
    /\ ~ShowsHelp(command)
    /\ ~artifactsOk
    /\ Exit(1, "none", <<>>)
    /\ UNCHANGED <<analyzedFiles, artifactsOk, command, arg, legend>>

\* Printing a list of box ids reads `legend.boxes[boxId].path`: a TypeError
\* (exit 1) if an id has no box.
PrintBoxes(ids) ==
    IF \A i \in DOMAIN ids : HasOwn(legend.boxes, ids[i])
    THEN Exit(0, "list", ids)
    ELSE Exit(1, "none", <<>>)

\* A lookup `index[arg]` that finds a member of Object.prototype: the handler
\* then calls `.forEach` (category, depends) or reads `box.interface.functions`
\* (box) on it, a TypeError that main().catch turns into exit 1.
InheritedLookup(index) ==
    /\ arg \in ProtoKeys
    /\ ~HasOwn(index, arg)
    /\ Exit(1, "none", <<>>)

\* Bug variant of QueryByCategory, used as a mutant: no not-found branch, so
\* a miss reads `.length` of undefined.
QueryByCategoryUnguarded ==
    /\ qpc = "loaded"
    /\ command = "category"
    /\ \/ HasOwn(legend.categories, arg) /\ PrintBoxes(Get(legend.categories, arg))
       \/ ~HasOwn(legend.categories, arg) /\ Exit(1, "none", <<>>)
    /\ UNCHANGED <<analyzedFiles, artifactsOk, command, arg, legend>>

\* queryByCategory(arg)
QueryByCategory ==
    /\ qpc = "loaded"
    /\ command = "category"
    /\ \/ HasOwn(legend.categories, arg) /\ PrintBoxes(Get(legend.categories, arg))
       \/ ~Truthy(legend.categories, arg)
          /\ Exit(0, "notfound", legend.categories.keys)
       \/ InheritedLookup(legend.categories)
    /\ UNCHANGED <<analyzedFiles, artifactsOk, command, arg, legend>>

\* queryDependencies(arg): on a miss, up to 5 dependency names related to
\* the argument by substring in either direction.
QueryDependencies ==
    /\ qpc = "loaded"
    /\ command = "depends"
    /\ \/ HasOwn(legend.dependencies, arg) /\ PrintBoxes(Get(legend.dependencies, arg))
       \/ ~Truthy(legend.dependencies, arg)
          /\ Exit(0, "notfound",
                  Take(SelectSeq(legend.dependencies.keys,
                                 LAMBDA dep : StrIncludes(dep, arg) \/ StrIncludes(arg, dep)),
                       5))
       \/ InheritedLookup(legend.dependencies)
    /\ UNCHANGED <<analyzedFiles, artifactsOk, command, arg, legend>>

\* showBox(arg): on a miss, up to 10 ids that contain the argument,
\* ignoring case.
ShowBox ==
    /\ qpc = "loaded"
    /\ command = "box"
    /\ \/ HasOwn(legend.boxes, arg) /\ Exit(0, "box", <<arg>>)
       \/ ~Truthy(legend.boxes, arg)
          /\ Exit(0, "notfound",
                  Take(SelectSeq(legend.boxes.keys,
                                 LAMBDA id : StrIncludes(StrLower(id), StrLower(arg))),
                       10))
       \/ InheritedLookup(legend.boxes)
    /\ UNCHANGED <<analyzedFiles, artifactsOk, command, arg, legend>>

(***************************************************************************)
(* listCategories: Object.entries(legend.categories).sort(cmp) with        *)
(* cmp(a, b) = b[1].length - a[1].length.  Array.prototype.sort is stable  *)
(* (ECMAScript 2019); a stable sort by a comparator is the insertion sort  *)
(* below: each entry goes after every entry already placed that does not  *)
(* compare greater than it.                                                *)
(***************************************************************************)
ByAscendingCount(a, b) == Len(a[2]) - Len(b[2])

ByDescendingCount(a, b) == Len(b[2]) - Len(a[2])

StableSortByCount(s) ==
    LET Insert(sorted, x) ==
            LET n == Cardinality({i \in DOMAIN sorted : ByDescendingCount(sorted[i], x) <= 0})
            IN  SubSeq(sorted, 1, n) \o <<x>> \o SubSeq(sorted, n + 1, Len(sorted))
    IN  FoldLeft(Insert, <<>>, s)

Entries(o) == [i \in DOMAIN o.keys |-> <<o.keys[i], Get(o, o.keys[i])>>]

ListCategories ==
    /\ qpc = "loaded"
    /\ command = "categories"
    /\ LET sorted == StableSortByCount(Entries(legend.categories))
       IN  Exit(0, "categories", [i \in DOMAIN sorted |-> sorted[i][1]])
    /\ UNCHANGED <<analyzedFiles, artifactsOk, command, arg, legend>>

\* stats(): counts and the static metadata, always printable.
Stats ==
    /\ qpc = "loaded"
    /\ command = "stats"
    /\ Exit(0, "stats", <<>>)
    /\ UNCHANGED <<analyzedFiles, artifactsOk, command, arg, legend>>

\* The switch's default: "Unknown command", exit 0.
UnknownCommand ==
    /\ qpc = "loaded"
    /\ command \notin Handled \cup {"keyword", "semantic"}
    /\ Exit(0, "unknown", <<>>)
    /\ UNCHANGED <<analyzedFiles, artifactsOk, command, arg, legend>>

Next ==
    \/ ShowHelp \/ LoadKnowledgeGraph \/ LoadFails
    \/ QueryByCategory \/ QueryDependencies \/ ShowBox
    \/ ListCategories \/ Stats \/ UnknownCommand

Spec == Init /\ [][Next]_vars

-----------------------------------------------------------------------------
(***************************************************************************)
(* Properties.                                                             *)
(***************************************************************************)

IndexOf(cmd) ==
    CASE cmd = "category" -> legend.categories
      [] cmd = "depends"  -> legend.dependencies
      [] OTHER            -> legend.boxes

\* A lookup (category, depends, box) of a name in `names` that is not in the
\* legend ends with exit status 0.
MissExitsZero(names) ==
    (qpc = "exited" /\ artifactsOk
       /\ command \in {"category", "depends", "box"}
       /\ arg \in names /\ ~HasOwn(IndexOf(command), arg))
        => exitCode = 0

\* Spec sections 6 and 7: a category, dependency or box that is not in the
\* legend is a normal outcome, answered with a not-found message and exit
\* status 0.  The handlers test `legend.x[arg]`, which is truthy for names
\* inherited from Object.prototype.
NotFoundExitsZero == MissExitsZero(Args)

\* The same, for every name that is not a member of Object.prototype: the
\* not-found branch of each handler catches every ordinary miss.
OrdinaryMissExitsZero == MissExitsZero(Args \ ProtoKeys)

\* Spec sections 6 and 7, on the order of main(): `help` (or no command)
\* is answered without reading the artifacts; every other command, an
\* unknown one included, first loads the three artifacts, so it exits 1
\* exactly when they cannot be loaded, and only with loadable artifacts is
\* an unknown command reported as such.  (Names inherited from
\* Object.prototype exit 1 too; query_prototype_names is about them.)
ExitStatusFollowsLoad ==
    (qpc = "exited" /\ arg \notin ProtoKeys) =>
        /\ (exitCode = 1) <=> (command \notin {"", "help"} /\ ~artifactsOk)
        /\ (output.kind = "help") <=> (command \in {"", "help"})
        /\ (output.kind = "unknown") <=>
              (artifactsOk /\ command \notin Handled \cup {"", "help", "keyword", "semantic"})

\* Spec section 4.6: `categories` lists every category once, by descending
\* number of listed ids, categories with equal counts in the order they
\* were first met during the build.
CategoriesListedByCount ==
    (qpc = "exited" /\ output.kind = "categories") =>
        LET out == output.items
            keys == legend.categories.keys
            Count(c) == Len(Get(legend.categories, c))
            Pos(c) == CHOOSE i \in DOMAIN keys : keys[i] = c
        IN  /\ Len(out) = Len(keys)
            /\ ToSet(out) = ToSet(keys)
            /\ \A i, j \in DOMAIN out :
                  i < j => \/ Count(out[i]) > Count(out[j])
                           \/ Count(out[i]) = Count(out[j]) /\ Pos(out[i]) < Pos(out[j])
=============================================================================
