------------------------------ MODULE Pipeline ------------------------------
(***************************************************************************)
(* The two programs and the directory they share.                          *)
(*                                                                         *)
(* Generator: main() of src/create-knowledge-graph.js.  A run creates the  *)
(* output directory, computes everything in memory (discovery, analysis,   *)
(* mock embeddings, legend, search index, error templates: steps 1-6, the  *)
(* only effects of which are reads of the source tree), then writes five   *)
(* artifacts one after the other with fs.writeFile, which truncates the    *)
(* file on open and then writes its bytes.  Any rejected promise reaches   *)
(* the catch at the end of main and the process exits with status 1; the   *)
(* process can also be killed at any point (Ctrl-C during the 100 ms       *)
(* embedding delays).  Runs are repeated by the user, one at a time.       *)
(*                                                                         *)
(* Query tool: loadKnowledgeGraph of src/query-knowledge-graph.js reads    *)
(* three of the artifacts in turn; a missing file (ENOENT) or a truncated  *)
(* one (JSON.parse SyntaxError) rejects, and main's catch exits 1.         *)
(* Otherwise the command is answered and the process exits 0.  A query may *)
(* run while a generator run is in progress: nothing prevents it.          *)
(*                                                                         *)
(* An artifact on disk is Absent, Partial (truncated or half written), or  *)
(* the number (from 1) of the run that wrote it completely.                *)
(***************************************************************************)
EXTENDS Integers, Sequences

CONSTANTS
    MaxRuns,     \* bound on generator runs
    MaxQueries   \* bound on query-tool runs

\* The files main() writes, in the order it writes them.
Artifacts == <<"master-legend.json", "embeddings.json", "search-index.json",
               "error-templates.json", "KNOWLEDGE_GRAPH_SUMMARY.md">>

\* The files loadKnowledgeGraph reads, in the order it reads them.
Loaded == <<"master-legend.json", "search-index.json", "error-templates.json">>

ArtifactNames == {Artifacts[i] : i \in DOMAIN Artifacts}

\* File states are integers so that TLC compares them with run numbers.
Absent == 0
Partial == -1
Runs == 1..MaxRuns
FileStates == {Absent, Partial} \cup Runs

VARIABLES
    disk,        \* artifact name -> Absent | Partial | run number
    outDir,      \* the output directory exists
    genPc,       \* generator control point
    genRun,      \* number of the current (or last) generator run
    genArt,      \* index in Artifacts of the file being written
    genExit,     \* "running", or how the last run ended: "ok" (status 0),
                 \* "error" (status 1) or "killed"
    diskBefore,  \* history: disk when the current run started
    qPc,         \* query-tool control point
    qCount,      \* number of queries started
    qLoaded,     \* runs whose files the current query has loaded, in order
    qStartOk,    \* history: run that had exited 0 when the query started, or 0
    qQuiet       \* history: no generator step happened during this load

genVars == <<outDir, genPc, genRun, genArt, genExit, diskBefore>>
qVars == <<qPc, qCount, qLoaded, qStartOk, qQuiet>>
vars == <<disk, genVars, qVars>>

GenPcs == {"idle", "mkdir", "compute", "open", "write", "exited"}
Loading == {"legend", "search", "templates"}
QPcs == {"idle", "answered", "failed"} \cup Loading

TypeOK ==
    /\ disk \in [ArtifactNames -> FileStates]
    /\ diskBefore \in [ArtifactNames -> FileStates]
    /\ outDir \in BOOLEAN
    /\ genPc \in GenPcs
    /\ genRun \in 0..MaxRuns
    /\ genArt \in DOMAIN Artifacts
    /\ genExit \in {"running", "ok", "error", "killed"}
    /\ qPc \in QPcs
    /\ qCount \in 0..MaxQueries
    /\ qLoaded \in Seq(Runs)
    /\ qStartOk \in 0..MaxRuns
    /\ qQuiet \in BOOLEAN

\* A fresh checkout: no output directory, no artifacts.
Init ==
    /\ disk = [a \in ArtifactNames |-> Absent]
    /\ diskBefore = disk
    /\ outDir = FALSE
    /\ genPc = "idle"
    /\ genRun = 0
    /\ genArt = 1
    /\ genExit = "running"
    /\ qPc = "idle"
    /\ qCount = 0
    /\ qLoaded = <<>>
    /\ qStartOk = 0
    /\ qQuiet = TRUE

-----------------------------------------------------------------------------
(***************************************************************************)
(* Generator.  Every step also records (GenMoves), in the history variable *)
(* qQuiet, that the generator moved while a query was loading.             *)
(***************************************************************************)
GenMoves ==
    /\ qQuiet' = (qQuiet /\ qPc \notin Loading)
    /\ UNCHANGED <<qPc, qCount, qLoaded, qStartOk>>

Running == genPc \notin {"idle", "exited"}

\* `node create-knowledge-graph.js`, when no other run is in progress.
Start ==
    /\ genPc \in {"idle", "exited"}
    /\ genRun < MaxRuns
    /\ genRun' = genRun + 1
    /\ genPc' = "mkdir"
    /\ genExit' = "running"
    /\ diskBefore' = disk
    /\ UNCHANGED <<disk, outDir, genArt>>
    /\ GenMoves

\* The catch block of main: log, process.exit(1).
Fail ==
    /\ genPc' = "exited"
    /\ genExit' = "error"

\* fs.mkdir(OUTPUT_DIR, { recursive: true }).
Mkdir ==
    /\ genPc = "mkdir"
    /\ outDir' = TRUE
    /\ genPc' = "compute"
    /\ UNCHANGED <<disk, genRun, genArt, genExit, diskBefore>>
    /\ GenMoves

MkdirFails ==
    /\ genPc = "mkdir"
    /\ Fail
    /\ UNCHANGED <<disk, outDir, genRun, genArt, diskBefore>>
    /\ GenMoves

\* Steps 1-6: discovery, analysis, embeddings, legend, search index and
\* error templates, all in memory.
Compute ==
    /\ genPc = "compute"
    /\ genPc' = "open"
    /\ genArt' = 1
    /\ UNCHANGED <<disk, outDir, genRun, genExit, diskBefore>>
    /\ GenMoves

\* An unreadable directory, a file gone between readdir and stat/read.
ComputeFails ==
    /\ genPc = "compute"
    /\ Fail
    /\ UNCHANGED <<disk, outDir, genRun, genArt, diskBefore>>
    /\ GenMoves

\* Bug variant of Open, used as a mutant: an artifact already written by
\* some run is kept rather than rewritten.
OpenIfMissing ==
    /\ genPc = "open"
    /\ outDir
    /\ IF disk[Artifacts[genArt]] \in Runs /\ genArt < Len(Artifacts)
       THEN genPc' = "open" /\ genArt' = genArt + 1 /\ UNCHANGED disk
       ELSE disk' = [disk EXCEPT ![Artifacts[genArt]] = Partial]
            /\ genPc' = "write" /\ UNCHANGED genArt
    /\ UNCHANGED <<outDir, genRun, genExit, diskBefore>>
    /\ GenMoves

\* fs.writeFile opens the file with O_TRUNC: its old content is gone.
Open ==
    /\ genPc = "open"
    /\ outDir
    /\ disk' = [disk EXCEPT ![Artifacts[genArt]] = Partial]
    /\ genPc' = "write"
    /\ UNCHANGED <<outDir, genRun, genArt, genExit, diskBefore>>
    /\ GenMoves

\* The open is refused (EACCES, EISDIR): the old file is left as it was.
OpenFails ==
    /\ genPc = "open"
    /\ Fail
    /\ UNCHANGED <<disk, outDir, genRun, genArt, diskBefore>>
    /\ GenMoves

\* Bug variant of Write, used as a mutant: the loop over the artifacts runs
\* one index past the last.
WritePastEnd ==
    /\ genPc = "write"
    /\ disk' = [disk EXCEPT ![Artifacts[genArt]] = genRun]
    /\ IF genArt = Len(Artifacts) + 1
       THEN genPc' = "exited" /\ genExit' = "ok" /\ UNCHANGED genArt
       ELSE genPc' = "open" /\ genArt' = genArt + 1 /\ UNCHANGED genExit
    /\ UNCHANGED <<outDir, genRun, diskBefore>>
    /\ GenMoves

\* The write completes; after the last artifact main returns (exit 0).
Write ==
    /\ genPc = "write"
    /\ disk' = [disk EXCEPT ![Artifacts[genArt]] = genRun]
    /\ IF genArt = Len(Artifacts)
       THEN genPc' = "exited" /\ genExit' = "ok" /\ UNCHANGED genArt
       ELSE genPc' = "open" /\ genArt' = genArt + 1 /\ UNCHANGED genExit
    /\ UNCHANGED <<outDir, genRun, diskBefore>>
    /\ GenMoves

\* The write is cut short (ENOSPC, EIO): the file stays truncated.
WriteFails ==
    /\ genPc = "write"
    /\ Fail
    /\ UNCHANGED <<disk, outDir, genRun, genArt, diskBefore>>
    /\ GenMoves

\* The process is killed.
Kill ==
    /\ Running
    /\ genPc' = "exited"
    /\ genExit' = "killed"
    /\ UNCHANGED <<disk, outDir, genRun, genArt, diskBefore>>
    /\ GenMoves

Generator ==
    \/ Start \/ Mkdir \/ MkdirFails \/ Compute \/ ComputeFails
    \/ Open \/ OpenFails \/ Write \/ WriteFails \/ Kill

-----------------------------------------------------------------------------
(***************************************************************************)
(* Query tool: a command other than `help` loads the three artifacts.      *)
(***************************************************************************)
LoadIndex == [legend |-> 1, search |-> 2, templates |-> 3]
NextLoad == [legend |-> "search", search |-> "templates", templates |-> "answered"]

\* `node query-knowledge-graph.js <command> ...`
QStart ==
    /\ qPc \in {"idle", "answered", "failed"}
    /\ qCount < MaxQueries
    /\ qCount' = qCount + 1
    /\ qPc' = "legend"
    /\ qLoaded' = <<>>
    /\ qStartOk' = IF genPc = "exited" /\ genExit = "ok" THEN genRun ELSE 0
    /\ qQuiet' = ~Running
    /\ UNCHANGED <<disk, genVars>>

\* fs.readFile + JSON.parse of a complete file; after the third the
\* command is dispatched and answered.
QReadOk ==
    /\ qPc \in Loading
    /\ disk[Loaded[LoadIndex[qPc]]] \in Runs
    /\ qLoaded' = Append(qLoaded, disk[Loaded[LoadIndex[qPc]]])
    /\ qPc' = NextLoad[qPc]
    /\ UNCHANGED <<disk, genVars, qCount, qStartOk, qQuiet>>

\* ENOENT, or a SyntaxError from JSON.parse: main's catch exits 1.
QReadFails ==
    /\ qPc \in Loading
    /\ disk[Loaded[LoadIndex[qPc]]] \in {Absent, Partial}
    /\ qPc' = "failed"
    /\ UNCHANGED <<disk, genVars, qCount, qLoaded, qStartOk, qQuiet>>

Query == QStart \/ QReadOk \/ QReadFails

Next == Generator \/ Query

Spec == Init /\ [][Next]_vars

-----------------------------------------------------------------------------
(***************************************************************************)
(* Properties.                                                             *)
(***************************************************************************)

\* A query that starts after a generator run exited 0, and during whose
\* load no generator step happens, answers from that run's artifacts only,
\* whatever partial files earlier failed or killed runs left behind.
QuiescentLoadSeesLastSuccess ==
    (qPc = "answered" /\ qQuiet /\ qStartOk # 0)
        => qLoaded = [i \in DOMAIN Loaded |-> qStartOk]

\* Spec section 5: "each run is all-or-nothing".  Once a run has ended,
\* however it ended, the artifacts are either all its own or exactly what
\* they were before it started.
AllOrNothing ==
    (genPc = "exited")
        => disk \in {diskBefore, [a \in ArtifactNames |-> genRun]}
=============================================================================
