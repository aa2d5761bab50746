# TLA+ models of the AumCoin knowledge-graph tools

This directory models the two programs of this repository in TLA+ and checks
them with TLC:

- `src/create-knowledge-graph.js` is the **generator**. It scans the C++ tree,
  analyzes each file, and builds a "master legend" of boxes (one per source
  file) with category and reverse-dependency indexes. It also builds mock
  embeddings, a search index and error templates, and writes five artifacts
  into `./project-knowledge/`.
- `src/query-knowledge-graph.js` is the **query tool**. It loads three of those
  artifacts and answers one command (`category`, `depends`, `box`, `keyword`,
  `semantic`, `categories`, `stats`, `help`).

The two programs share only the output directory. Each is single-threaded;
within a run the only concurrency is the sequence of `await`s. Between runs,
nothing stops the user from running the query tool while a generator run is
writing, or from killing either one.

## Inventory of the system

| Part | Source | State it changes | Operations | Status |
|---|---|---|---|---|
| Discoverer | C 55-95 | `files` list, a DFS over `readdir` | exclude by substring, include by pattern regex, recurse, getFileType, stat | modelled |
| Analyzer | C 97-235, 422-470 | none (a pure function of the file text) | description, functions, classes, includes, opcodes, the box contract, AI context | partly (all but the AI context) |
| Legend Builder | C 312-420 | `legend.boxes`, `.categories`, `.dependencies` | generateBoxId, categorizeFile, loop body (with its TypeError), return | modelled |
| Embedder (mock) | C 271-293, 584-590 | `embeddings` object | one embedding per file, keyed by box id | modelled |
| Search Index Builder | C 476-503 | `index.vectors` | one vector per embedding, with the box's path and category | modelled |
| Error Template Generator | C 509-550 | `templates.templates` | one template per box | modelled |
| Generator main / persistence | C 556-651 | the files in `./project-knowledge/` | mkdir, steps 1-6, five `writeFile` calls, catch, exit | modelled |
| Summary writer | C 653-711 | `KNOWLEDGE_GRAPH_SUMMARY.md` | counts, category breakdown with its cut at 5, key boxes | modelled (content without layout) |
| Query Tool | Q 1-338 | module globals `legend`, `searchIndex`, `errorTemplates`; exit status | help, load, every handler including keyword and semantic, the unknown-command default, catch | modelled |
| Lumen bridge stub, help text, formatBytes | C 295-306, Q 230-292 | none | constant output | not modelled |

(C = `src/create-knowledge-graph.js`, Q = `src/query-knowledge-graph.js`.)

How the parts interact:
- The Discoverer's order, which is `fs.readdir` order, becomes the order of
  every loop after it.
- `generateBoxId` keys the boxes and the embeddings, and it collides whenever
  two files have the same base name: `script.cpp` and `script.h`, or two
  directories with a `util.cpp`. In each collision the last file visited
  wins.
- The legend, the search index and the templates are JSON files. The query
  tool re-reads them as plain objects and indexes them with user input.

The behaviours that are hard to test:
- readdir order combined with id collisions;
- an include named after an `Object.prototype` member in the legend loop;
- a generator run failing or killed part-way through its five writes;
- a query loading while a run writes;
- user input that names an `Object.prototype` member;
- the unknown-command path, which loads the artifacts first;
- function overloads collapsing in the box contract;
- the regex built from user input in `countOccurrences`;
- the top-10 cut of the keyword ranking;
- the `inComment` state machine of `extractDescription`;
- the include globs turned into unanchored regexes and the exclude globs
  tested as literal substrings;
- a file or directory that disappears between `readdir` and `stat`.

PROJECT.json lists each of these under "hazards", at its source line.

## Modules

- **JsObject** models the JavaScript plain object used as a dictionary: its
  own keys in insertion order (which is what `Object.keys` / `Object.entries`
  / `JSON.stringify` report), overwrites that keep a key's position, and the
  truthiness of `o[k]`, which also holds for names inherited from
  `Object.prototype` (`ProtoKeys`). It models the language, not repository
  code, so it is not in the map.
- **DataModel** holds the data that both programs see:
  - paths as `[dir, base, ext]`;
  - an analyzed file as its path and its list of `#include` names, which is
    duplicate-free and in first-seen order, as `extractDependencies` leaves
    it;
  - every discovery result as a sequence of distinct paths (`AnalyzedLists`);
  - `categorizeFile`, as the first of the twelve ordered rules whose words
    occur in the lower-cased path;
  - `MakeBox`, the box record of the loop body.

  `generateBoxId` is the constant `BoxIdOf`, a table over the model's base
  names. The MC modules make `script` → `ScriptBox` and `util` → `UtilBox`,
  which is what the code computes for them.
- **LegendBuilder** models `createMasterLegend`:
  - one `AddBox` per loop iteration, which does the `Put` into `boxes`
    (overwriting on a collision), the push onto the category's list, and the
    pushes onto every dependency's list;
  - `Return`, which ends the loop.
- **LegendBatch / LegendSpec** are the abstract specification of what the
  builder promises:
  - `BatchLegend(files)` defines the legend directly from the whole file list:
    ids in first-seen order, each holding the box of the last file with that
    id, and each category's or dependency's list holding the ids of the files
    that have it, in file order;
  - `LegendSpec` returns that legend in one step.

  `LegendBuilder` instantiates `LegendSpec` under a refinement mapping. The
  legend is visible only once the function returns, so the mapping exposes
  it only then.
- **ArtifactBuilder** (extends LegendBuilder) adds steps 3 to 6 and 8 of the
  generator's `main`:
  - the embedding loop, keyed by box id. An embedding is identified by the
    path of the file it was computed from;
  - step 4, which is the legend builder's own steps;
  - `createSearchIndex`, including its crash branch for an embedding whose id
    has no box;
  - `generateErrorTemplates`;
  - `generateSummary` (step 8), after the four JSON writes that Pipeline
    models. It gives the four counts, one section per category (its count,
    its first `SummaryShown` ids and the "more" count), and the key boxes
    that pass the `if (legend.boxes[boxId])` guard. A key id listed without
    a box would throw on `box.path`. The Markdown text is left out.
- **Pipeline** models the two processes and the output directory:
  - The generator goes through `Start`, `Mkdir`, `Compute` (steps 1-6, which
    only read the source tree), then `Open` (`writeFile` truncates) and
    `Write` once for each of the five artifacts in code order.
  - Each of those steps has a failure variant that goes to the catch and
    exits 1, and `Kill` can happen at any point.
  - The query tool does `QStart`, then `QReadOk`/`QReadFails` for each of the
    three files `loadKnowledgeGraph` reads.
  - A file on disk is Absent, Partial, or the number of the run that wrote it
    completely.
  - `diskBefore`, `qStartOk` and `qQuiet` are history variables. They exist
    only so that properties can be stated.
- **QueryTool** models one process of the query tool:
  - the help shortcut. `ShowsHelp` is the test of line 297; it guards the
    help and, negated, the load;
  - the load, which gives `LegendBatch`'s legend of the files of the run that
    wrote the artifacts, or fails with exit 1;
  - every handler except keyword/semantic, with its found, not-found and
    inherited-name branches;
  - `listCategories`' stable sort, written as an insertion sort that places
    each entry after every entry that does not compare greater;
  - the switch's default.

  Output is reduced to its kind and the list of ids or names printed, in
  order.
- **LegendBuilder's crash branch.** `AddBox` has two disjuncts. If no
  include of the file names an `Object.prototype` member, the file's
  dependencies are pushed and the loop goes on. Otherwise the dependencies
  before the first such name are pushed, and then `.push` on the inherited
  function throws a TypeError (C 381-385), so the process ends in
  `"crashed"`.
- **KeywordSearch** models `queryByKeyword`, and `semanticQuery`, which
  calls it:
  - the state is the box order, each box's lower-cased search text, the
    `matches` array, and the printed output: the shown matches and the
    overflow count;
  - `ScanBox` is one loop iteration. A box is a match when its text
    `includes` the keyword, literally. The relevance is `countOccurrences`,
    which scans the way a global `RegExp` does: after a match it continues at
    the match's end, or one character further after an empty match. In the
    compiled pattern `.` is a wildcard, and `(` throws a SyntaxError that
    the process catches, exiting 1;
  - `Report` sorts stably by descending relevance (an insertion sort under
    the code's comparator), cuts at `MaxShown` and reports the rest.
- **BoxId** models `generateBoxId` over character sequences: `split` on
  `-`/`_` (a FoldLeft), `capitalize`, the join and the `Box` suffix.
  `ReferenceId` defines the id character by character. The module has
  operators only; Discoverer applies them to the files it discovers.
- **Discoverer** models `discoverProjectFiles`:
  - names are character sequences, paths are sequences of names, and
    `RelPath` joins them with `/`;
  - the tree is chosen in `Init` from the constant `Trees`;
  - each pending, awaited `scanDirectory` call is a frame on `stack`, with
    the entry paths its loop has still to visit. `ReadDir` pushes a frame
    with the entries in any order, or fails;
  - `VisitEntry` is one loop iteration. An excluded path (a literal
    substring test) is skipped. A directory is recursed into. A file is
    pushed with `getFileType` when the include test accepts it, and `stat`
    may fail there;
  - the include test is modelled by what the code does. `IncludeRegex`
    rewrites the first `**/` and the first `*`, and `Compile` and
    `MatchHere` give the unanchored regex's `test`. The `endsWith` half
    uses the pattern with its first `*` removed;
  - `LeaveDirectory` returns from a call, and the last return ends the
    scan. `NameBoxes` then gives each discovered file its `generateBoxId`,
    as the legend loop does.
- **Analyzer** models two passes of `analyzeFile`:
  - `extractDescription`: `ScanLine` is one iteration of the 30-line loop,
    and `DescribeLine` is its if/else-if chain over `//`/`#`, `/*`, `*/`
    and the `inComment` flag. `DescriptionDone` is the `slice(0, 5)`, join,
    trim and sentinel;
  - `extractFunctions`: the anchored regex. `Attempts` lists the token
    positions where the backtracking regex tries the return type, after
    optional `static`/`inline`. Then come the keyword guard on the return
    type and the cap of 50;
  - `extractClasses`, `extractDependencies` and `extractOpcodes`, which
    `ExtractMetadata` computes together with the functions. The include
    names and the `OP_` tokens lose their repeats (`Distinct`, like
    `[...new Set()]`), and the opcodes are then cut at `MaxOpcodes`;
  - `generateContract`, which `createMasterLegend` calls on the file.
    `extractOutputContract` keys every function by name, and
    `extractInputContract` keys the get/set ones. It is an operator over the
    extracted functions, whose records carry the `signature` that
    `match[0].trim()` gives: the tokens from the line start to the first
    `)`.

  A line is a sequence of tokens; whitespace is abstracted away.
- **MCLegendBuilder, MCArtifactBuilder, MCQueryTool** give the constants for
  TLC. The tree has directories `src` and `src/script`, base names `script`
  and `util`, and extensions `.cpp` and `.h`. It therefore contains both
  kinds of collision: the same base name in the same directory and in
  different directories. Dependencies come from {`util.h`, `db.h`}. The
  artifacts run uses {`util.h`, `constructor`} instead, so that the legend
  loop's crash is reached. The query run uses {`util.h`}, which keeps its 8
  commands × 8 arguments affordable over three files.
- **MCKeywordSearch, MCAnalyzer** give the alphabets, the keywords and the
  token lines of those runs.
- **MCDiscoverer** gives the trees. There are 39 of them, with these paths:
  - `src/<b>.cpp`, where `<b>` is every base name of up to 3 characters over
    {a, -, _};
  - `src/ch.o`, an object file;
  - `src/obj/x.cpp`, a source file in an excluded directory;
  - `src/sc/e.h`, a header one level down;
  - `doc/r.md`, which only the regex includes.

## Runs

| Run | Expect | What it shows |
|---|---|---|
| artifacts | pass | Steps 3 to 6 and 8 over every readdir order of up to 3 of the 8 paths, with any includes. The legend loop refines LegendSpec: when it returns, its legend is `BatchLegend` of the files (`ImplementsLegendSpec`). Unless it threw, every registered box is listed under its category and its dependencies (`EveryBoxIndexed`). Embeddings, search index and templates have one entry per box, in registry order. Under collisions, the search-index vector of each box is the embedding of the same file as the box, because both loops let the last file win. A file that includes `constructor` crashes the legend loop, and the run ends with nothing derived. |
| legend_proto_include | violation | `createMasterLegend` never returns for a file whose includes name `constructor`. `legend.dependencies["constructor"]` is the inherited function, so no array is created and `.push` throws (`LegendReturns`). |
| pipeline | pass | 3 generator runs that may fail at every step or be killed, and 2 queries. A query that starts after a successful run, with no generator step during its load, reads that run's three files and nothing else, whatever earlier runs left behind. |
| pipeline_all_or_nothing | violation | The shortest trace: the first run fails or is killed during its first write. It leaves a truncated `master-legend.json` beside four absent files. After a successful run, the same failure leaves the truncated legend beside the previous run's other files. |
| query | pass | All 8 commands and 8 arguments over every legend of up to 3 files. A lookup that misses an ordinary name prints not-found and exits 0. `categories` lists each category once, by descending count, and equal counts keep first-seen order. This depends on `Array.prototype.sort` being stable. `help` is answered without the artifacts. Every other command, an unknown one included, exits 1 exactly when the artifacts cannot be loaded, and is reported as unknown only when they can (`ExitStatusFollowsLoad`). |
| query_prototype_names | violation | `category constructor` finds Object's inherited `constructor`, which is truthy. `.forEach` on it throws, and the catch exits 1 instead of reporting not-found. `depends toString` and `box __proto__` fail the same way. |
| keyword_search | pass | Every text of up to 3 characters over {a, b} for 3 boxes, and the keywords "", a, aa, ab. The printed matches are the `min(MaxShown, n)` most relevant, best first, ties in registry order, each with its own relevance, and the overflow count is the rest. For a non-empty literal keyword, the relevance is the number of non-overlapping occurrences. |
| keyword_syntax_error | violation | `keyword (` exits 1 with a SyntaxError as soon as one box's text contains `(`. `new RegExp` gets the user's keyword unescaped. |
| keyword_wildcard | violation | `keyword .` over a box whose text is `.(` prints relevance 2 where the text holds one `.`. The filter at Q 80 tests the keyword literally, but `countOccurrences` compiles it as a regex, so `.` matches every character (`RegexRelevanceIsCount`). |
| analyzer | pass | Every file of up to 4 lines built from 12 line shapes, of each type. Where no line opens and closes a block comment at once, the description is the file's header comment text (`OrdinaryDescriptionIsCommentText`). The contract attached to the file has one output entry per function name, in first-seen order, describing the last overload, and the get/set names as inputs (`ContractDescribesLastOverload`). |
| discovery | pass | Every tree of MCDiscoverer, every readdir order, with readdir and stat failures. The result lists each file that passes the exclude and include tests once, and the files under any directory are consecutive (`DepthFirstDiscovery`). Every file an include glob names, outside excluded paths, is discovered (`GlobFilesDiscovered`). Each discovered file gets the reference id of its base name (`BoxIdMatchesReference`). |
| discovery_object_files | violation | `src/ch.o` is discovered. `'*.o'` is tested as a literal substring, and the include regex `src/.*.h` accepts the path. |

Each mutant in PROJECT.json replaces one mapped definition with a plausible
bug, and the property of its run then fails:
- `IndexCreateOnly` never appends, so it breaks `EveryBoxIndexed`;
- `IndexPushOnce` skips ids that are already listed, so it breaks the
  refinement;
- `AddBoxPushesLabel` pushes the label where the id belongs, so it breaks
  `TypeOK`/`ArtTypeOK`;
- `EmbedFileOnce` is a first-wins embedding cache, so it breaks
  `DerivedViewsMatchLegend`;
- `OpenIfMissing` keeps old files, so it breaks the quiescent load;
- `WritePastEnd` breaks `TypeOK`;
- `QueryByCategoryUnguarded` breaks `OrdinaryMissExitsZero`;
- `ByAscendingCount` breaks `CategoriesListedByCount`;
- `ByAscendingRelevance` (the comparator reversed) breaks
  `ShownAreTopMatches`;
- `countOverlapping` (counting at every position) breaks
  `LiteralRelevanceIsCount`;
- `splitOnHyphen` (ignoring `_`) breaks `BoxIdMatchesReference`;
- `VisitEntryBreadthFirst` queues a subdirectory's entries behind its
  parent's, like a recursion that is not awaited in place. It breaks
  `DepthFirstDiscovery`;
- `IncludeRegexDropsStar` turns `*` into nothing instead of `.*`, so it
  breaks `GlobFilesDiscovered`;
- `DescribeLineKeepsComment` (never clearing `inComment`) breaks
  `OrdinaryDescriptionIsCommentText`;
- `extractOutputContractFirstWins` (an overload does not replace the
  earlier entry) breaks `ContractDescribesLastOverload`;
- `ShowsHelpNoArgsOnly` (only a missing command shows the help) sends
  `help` through the load to the unknown-command default, so it breaks
  `ExitStatusFollowsLoad`.

## Bounds, and why they are enough

- **Files: 3 (artifacts, query).**
  - Every collision needs two files, and a third can come between them or
    after them. That covers both collision kinds, overwrites followed by
    further pushes, and ties against a different count in the category
    ordering.
  - The 8 paths and 4 include lists give every discovery order of up to 3
    files: 292k states.
  - The query run has one include name, so that its 8 commands × 8 arguments
    fit in 890k states.
- **Runs: 3 and queries: 2 (pipeline).**
  - The first run may succeed.
  - The second may fail at any of its eleven steps and leave a mix.
  - The third may repair the mix or add a further one.
  - Two queries can see the state before and after a repair.
- **Keyword search: 3 boxes, texts of up to 3 characters, `MaxShown` = 2
  (the code's 10).**
  - Three matches against a cut of 2 give a match above the cut and one
    below it, and ties at the cut.
  - `aa` in `aaa` is the overlap case. The empty keyword, which the code
    counts len+1 times, needs no special treatment.
- **Analyzer: files of up to 4 lines, scan limit 3 (the code's 30),
  description cut 2 (5), function cap 2 (50).**
  - With 4 lines, the scan limit falls inside the file, and with up to 3
    comment lines the description cut falls inside the comment.
  - Three function lines pass the cap. `int f()` and `void f(w)` are
    overloads with different return types and signatures, and
    `int getW()` is an accessor, so the output contract's overwrite and
    the input contract's filter both matter.
  - Opcode cap 2 (the code's 20). The line `OP_A OP_A OP_B` repeats a
    token before the cap, and two include lines repeat a name.
- **Discovery: one tree shape, with 39 base names for one file.**
  - The tree has an included file at depths 1 and 2 of `src`, a sibling
    directory, an excluded directory and an object file.
  - A breadth-first order already splits `src`'s files there. Every
    include and exclude branch is taken.
  - Base names of up to 3 characters give a separator between two letters,
    at either end, and two separators in a row.
  - Each state costs several regex tests, so the run takes about 50 s.
- **Summary: `SummaryShown` = 2 (the code's 5).** Categories of 1, 2 and
  3 files occur, so a section is below, at and above the cut. No property
  reads the summary; it is modelled so that the artifacts run ends where
  `main` does.
- **Strings.** `StrIncludes` and `StrLower` are tables over the model's
  strings. They list every substring relation among them that the
  suggestion filters can meet.

## Fairness

- LegendBuilder's `Spec` has weak fairness on `Next`. `createMasterLegend`
  is one synchronous loop, and nothing else competes for it: a step that is
  enabled stays enabled until it is taken. `LegendReturns` depends on this;
  without fairness, stuttering alone would violate it.
- The artifacts run checks the refinement under `ArtSpec`. The abstract
  LegendSpec has no fairness, so the refinement is a safety property.
- Discoverer, Pipeline, QueryTool, KeywordSearch and Analyzer assume no
  fairness. A user may never run the generator again, and a process may be
  killed. Their properties are all safety properties.

## Not modelled, and why

- Output formatting is not modelled: the help text, `formatBytes`, the
  console output, the summary's Markdown text, the static lists and the
  "Parameter for" text of `generateContract`, and the
  unused `callLumenBridge` stub. None of these has state or a branch that a
  property depends on.
- `generateAIContext` is not modelled. It is a text template keyed on the
  file name and type. The line count, the hash and the excerpt are not
  modelled either, since no property reads them.
- The Discoverer's sizes and absolute paths are not modelled, since no
  property reads them. The legend models take the discovery result as an
  arbitrary list of distinct paths, which Discoverer shows it is. Entries
  that are neither files nor directories, and symlink cycles, are outside
  the spec.
- The 100 ms embedding delay is not modelled. It orders nothing, because the
  loop is sequential.

Disagreements seen while modelling but not kept as runs, because each
property would only restate what is described here:
- Base names `a-b`, `a_b` and `aB` share the id `ABBox`. This is the
  mapping the spec's own example implies. Like the collisions across
  directories, which spec section 9 accepts, an overwritten box leaves the
  earlier file's index entries in place. Spec section 8 counts index
  entries per declaring file, and the refinement checks exactly that.
- A line `/* text */` sets `inComment` and never clears it. The `*/` test
  is an else-branch of the `/*` test, so the code lines after it enter the
  description.
- An unknown command with missing artifacts exits 1 with the load error,
  because the artifacts are loaded before the switch. This agrees with the
  spec's rule that any load failure is fatal, and the query run checks it
  (`ExitStatusFollowsLoad`).
- Overloaded functions share one entry of the output contract, the last
  overload's, at the first overload's key position. The spec's "keyed by
  name" allows this, and the analyzer run checks it
  (`ContractDescribesLastOverload`).
- A function named `__proto__` would set the prototype of the contract
  objects instead of adding a key. This is not modelled: C++ reserves
  names with a double underscore.
- An `#include` line starts with `#`, so `extractDescription` takes it as
  a comment. The description of a C++ file that starts with its includes is
  "include <...> include <...>". The include regex also matches inside
  comments. The model keeps both behaviours, and the description reference
  counts `#` lines as comments, as the code does.
- The keyword guard of `extractFunctions` tests only the return type, so
  `else if (x)` yields a function named `if`. Spec section 8 rules out
  only the `if (x)` case, with `if` as the return type, and section 9 calls
  extraction best-effort. No property is stated.

## Plan for the next sittings

1. A property on the keyword ranking for the empty keyword. It is
   modelled, and `ShownAreTopMatches` already covers it; the `.` case is
   the keyword_wildcard run.
2. `generateAIContext`, if a property ever reads the AI context.
