----------------------------- MODULE Discoverer -----------------------------
(***************************************************************************)
(* discoverProjectFiles of src/create-knowledge-graph.js: the recursive    *)
(* scanDirectory over the source tree, with CONFIG's exclude patterns      *)
(* tested as literal substrings of the relative path and its include       *)
(* patterns turned into unanchored regular expressions, then the box ids   *)
(* the legend loop gives the discovered files (generateBoxId, module       *)
(* BoxId).                                                                 *)
(*                                                                         *)
(* A name is a sequence of one-character strings; a path is a sequence of *)
(* names, joined with "/" as path.join does.  Each awaited call of         *)
(* scanDirectory is a frame on `stack`: the directory's relative path and  *)
(* the entries its loop has still to visit, in readdir order, which the    *)
(* model chooses freely.  readdir and stat may fail (the tree may change   *)
(* while it is scanned); the error propagates and ends the run.           *)
(***************************************************************************)
EXTENDS Integers, Sequences, SequencesExt, FiniteSets, BoxId

CONSTANTS
    Trees,       \* the trees the scan may meet: path -> "dir" or "file"
    ToLower(_)   \* String.prototype.toLowerCase on one character

\* CONFIG.INCLUDE_PATTERNS and CONFIG.EXCLUDE_PATTERNS.
INCLUDE_PATTERNS ==
    << <<"s","r","c","/","*","*","/","*",".","c","p","p">>,
       <<"s","r","c","/","*","*","/","*",".","h">>,
       <<"s","r","c","/","*","*","/","*",".","c">>,
       <<"*",".","m","d">>, <<"*",".","s","h">>,
       <<"D","o","c","k","e","r","f","i","l","e">>,
       <<"d","o","c","k","e","r","-","c","o","m","p","o","s","e",".","y","m","l">>,
       <<"*",".","p","r","o">> >>
EXCLUDE_PATTERNS ==
    << <<"n","o","d","e","_","m","o","d","u","l","e","s">>, <<".","g","i","t">>,
       <<"b","u","i","l","d">>, <<"o","b","j">>, <<"o","b","j","-","t","e","s","t">>,
       <<"*",".","o">>, <<"*",".","a">> >>

\* path.join(relativePath, entry.name)
RelPath(p) == FoldLeft(LAMBDA acc, n : IF acc = <<>> THEN n ELSE acc \o <<"/">> \o n,
                       <<>>, p)

\* s.includes(pat): a literal substring test.
Infix(pat, s) == \E i \in 1..Len(s) - Len(pat) + 1 : SubSeq(s, i, i + Len(pat) - 1) = pat

\* A regular expression of literal characters, "." (any character) and
\* "x*", as a sequence of [ch, star] tokens.
Compile(text) ==
    FoldLeft(LAMBDA toks, c : IF c = "*" THEN [toks EXCEPT ![Len(toks)].star = TRUE]
                              ELSE Append(toks, [ch |-> IF c = "." THEN "any" ELSE c,
                                                 star |-> FALSE]),
             <<>>, text)

\* The tokens match a prefix of t.
RECURSIVE MatchHere(_, _)
MatchHere(toks, t) ==
    LET Fits(c) == Head(toks).ch \in {"any", c}
    IN  \/ toks = <<>>
        \/ /\ toks # <<>> /\ Head(toks).star
           /\ \/ MatchHere(Tail(toks), t)
              \/ t # <<>> /\ Fits(Head(t)) /\ MatchHere(toks, Tail(t))
        \/ /\ toks # <<>> /\ ~Head(toks).star /\ t # <<>>
           /\ Fits(Head(t)) /\ MatchHere(Tail(toks), Tail(t))

\* regex.test(s) of an unanchored regex.
RegexTest(toks, s) == \E i \in 1..Len(s) + 1 : MatchHere(toks, SubSeq(s, i, Len(s)))

\* Bug variant of IncludeRegex, used as a mutant: '*' is dropped, as in
\* the endsWith half of the test.
IncludeRegexDropsStar(pat) ==
    Compile(ReplaceFirstSubSeq(<<>>, <<"*">>, ReplaceFirstSubSeq(<<>>, <<"*","*","/">>, pat)))

\* new RegExp(pattern.replace('**/', '').replace('*', '.*')): each replace
\* rewrites the first occurrence only.
IncludeRegex(pat) ==
    Compile(ReplaceFirstSubSeq(<<".","*">>, <<"*">>, ReplaceFirstSubSeq(<<>>, <<"*","*","/">>, pat)))

IncludeRegexes == [k \in DOMAIN INCLUDE_PATTERNS |-> IncludeRegex(INCLUDE_PATTERNS[k])]
IncludeSuffixes == [k \in DOMAIN INCLUDE_PATTERNS |->
                      ReplaceFirstSubSeq(<<>>, <<"*">>, INCLUDE_PATTERNS[k])]

\* CONFIG.EXCLUDE_PATTERNS.some(pattern => relPath.includes(pattern))
Excluded(rel) == \E k \in DOMAIN EXCLUDE_PATTERNS : Infix(EXCLUDE_PATTERNS[k], rel)

\* The shouldInclude test of a file.
ShouldInclude(rel) ==
    \E k \in DOMAIN INCLUDE_PATTERNS :
        RegexTest(IncludeRegexes[k], rel) \/ IsSuffix(IncludeSuffixes[k], rel)

\* path.extname: from the last "." on, unless that "." starts the name.
ExtName(name) ==
    LET dots == {i \in 2..Len(name) : name[i] = "."}
    IN  IF dots = {} THEN <<>> ELSE SubSeq(name, Max(dots), Len(name))

\* getFileType(filename)
TypeMap == (<<".","c","p","p">> :> "source") @@ (<<".","h">> :> "header")
           @@ (<<".","c">> :> "source") @@ (<<".","m","d">> :> "documentation")
           @@ (<<".","s","h">> :> "script") @@ (<<".","p","r","o">> :> "project")
           @@ (<<>> :> "config")
getFileType(name) ==
    LET ext == [i \in DOMAIN ExtName(name) |-> ToLower(ExtName(name)[i])]
    IN  IF ext \in DOMAIN TypeMap THEN TypeMap[ext] ELSE "other"

\* path.basename(file.path, path.extname(file.path))
BaseName(p) == LET n == Last(p) IN SubSeq(n, 1, Len(n) - Len(ExtName(n)))

-----------------------------------------------------------------------------
VARIABLES
    tree,    \* the source tree under PROJECT_ROOT
    stack,   \* the pending scanDirectory calls, top first: the directory
             \* and the paths of the entries its loop has still to visit
    files,   \* the `files` array: [path, type] records
    pc,      \* "start", "scan", "done", "named", "failed"
    ids      \* the box id of each discovered file, <<>> until computed

vars == <<tree, stack, files, pc, ids>>

Children(t, p) == {q \in DOMAIN t : Len(q) = Len(p) + 1 /\ SubSeq(q, 1, Len(p)) = p}
TreeFiles(t) == {q \in DOMAIN t : t[q] = "file"}

TypeOK ==
    /\ tree \in Trees
    /\ stack \in Seq([rel : Seq(Seq(STRING)), entries : Seq(DOMAIN tree)])
    /\ \A k \in DOMAIN files : files[k].path \in TreeFiles(tree)
    /\ pc \in {"start", "scan", "done", "named", "failed"}

Init ==
    /\ tree \in Trees
    /\ stack = <<>>
    /\ files = <<>>
    /\ pc = "start"
    /\ ids = <<>>

\* `const entries = await fs.readdir(dir, ...)` in scanDirectory(rel), called
\* with the frames `below` pending: the loop's frame is pushed with the
\* entries in some order, or readdir throws and the error ends the run.
ReadDir(rel, below) ==
    \/ /\ \E order \in SetToSeqs(Children(tree, rel)) :
             stack' = <<[rel |-> rel, entries |-> order]>> \o below
       /\ pc' = "scan"
    \/ pc' = "failed" /\ UNCHANGED stack

\* `await scanDirectory(CONFIG.PROJECT_ROOT)`
ScanRoot ==
    /\ pc = "start"
    /\ ReadDir(<<>>, <<>>)
    /\ UNCHANGED <<tree, files, ids>>

\* Bug variant of VisitEntry, used as a mutant: a subdirectory's entries
\* are queued behind the current directory's, as when the recursive call
\* is not awaited in place.
VisitEntryBreadthFirst ==
    /\ pc = "scan" /\ stack # <<>> /\ Head(stack).entries # <<>>
    /\ LET top == Head(stack)
           p == Head(top.entries)
           rel == RelPath(p)
           popped == <<[top EXCEPT !.entries = Tail(@)]>> \o Tail(stack)
       IN  \/ Excluded(rel) /\ stack' = popped /\ UNCHANGED <<files, pc>>
           \/ /\ ~Excluded(rel) /\ tree[p] = "dir"
              /\ \E order \in SetToSeqs(Children(tree, p)) :
                    stack' = <<[top EXCEPT !.entries = Tail(@) \o order]>> \o Tail(stack)
              /\ UNCHANGED <<files, pc>>
           \/ /\ ~Excluded(rel) /\ tree[p] = "file" /\ ShouldInclude(rel)
              /\ files' = Append(files, [path |-> p, type |-> getFileType(Last(p))])
              /\ stack' = popped /\ UNCHANGED pc
           \/ /\ ~Excluded(rel) /\ tree[p] = "file" /\ ~ShouldInclude(rel)
              /\ stack' = popped /\ UNCHANGED <<files, pc>>
    /\ UNCHANGED <<tree, ids>>

\* One iteration of `for (const entry of entries)`: skip an excluded path,
\* recurse into a directory (awaited: its frame goes on top), or test a
\* file against the include patterns and push it with its type and the
\* size from fs.stat, which throws if the file is gone.
VisitEntry ==
    /\ pc = "scan" /\ stack # <<>> /\ Head(stack).entries # <<>>
    /\ LET top == Head(stack)
           p == Head(top.entries)
           rel == RelPath(p)
           popped == <<[top EXCEPT !.entries = Tail(@)]>> \o Tail(stack)
       IN  \/ Excluded(rel) /\ stack' = popped /\ UNCHANGED <<files, pc>>
           \/ /\ ~Excluded(rel) /\ tree[p] = "dir"
              /\ ReadDir(p, popped)
              /\ UNCHANGED files
           \/ /\ ~Excluded(rel) /\ tree[p] = "file" /\ ShouldInclude(rel)
              /\ \/ /\ files' = Append(files, [path |-> p, type |-> getFileType(Last(p))])
                    /\ stack' = popped /\ UNCHANGED pc
                 \/ pc' = "failed" /\ UNCHANGED <<stack, files>>
           \/ /\ ~Excluded(rel) /\ tree[p] = "file" /\ ~ShouldInclude(rel)
              /\ stack' = popped /\ UNCHANGED <<files, pc>>
    /\ UNCHANGED <<tree, ids>>

\* A scanDirectory call returns; the last one returns `files`.
LeaveDirectory ==
    /\ pc = "scan" /\ stack # <<>> /\ Head(stack).entries = <<>>
    /\ stack' = Tail(stack)
    /\ pc' = IF Tail(stack) = <<>> THEN "done" ELSE "scan"
    /\ UNCHANGED <<tree, files, ids>>

\* `const boxId = generateBoxId(file)` for each file, in the legend loop.
NameBoxes ==
    /\ pc = "done"
    /\ ids' = [k \in DOMAIN files |-> generateBoxId(BaseName(files[k].path))]
    /\ pc' = "named"
    /\ UNCHANGED <<tree, stack, files>>

Next == ScanRoot \/ VisitEntry \/ LeaveDirectory \/ NameBoxes

\* One process running one async chain: each step that is enabled stays
\* enabled until it is taken.
Spec == Init /\ [][Next]_vars

-----------------------------------------------------------------------------
(***************************************************************************)
(* Properties.                                                             *)
(***************************************************************************)

Discovered == {files[k].path : k \in DOMAIN files}
Finished == pc \in {"done", "named"}

\* Spec section 4.1: the result lists every regular file whose relative
\* path contains no exclude substring and passes the include test, each
\* once, visiting directories depth-first: the files under any directory
\* are consecutive in the list, whatever order readdir reports.  The
\* exclusion of a directory prunes its subtree without testing the files
\* in it.
DepthFirstDiscovery ==
    Finished =>
        /\ IsInjective([k \in DOMAIN files |-> files[k].path])
        /\ Discovered = {f \in TreeFiles(tree) : ~Excluded(RelPath(f))
                                                 /\ ShouldInclude(RelPath(f))}
        /\ \A d \in DOMAIN tree :
              LET ks == {k \in DOMAIN files : IsPrefix(d, files[k].path)}
              IN  \A a, b \in ks, c \in DOMAIN files : a < c /\ c < b => c \in ks

\* The files CONFIG.INCLUDE_PATTERNS name as globs: `src/**/*.ext` is any
\* file below src/ whose name ends in .ext, `*.ext` a file of the root
\* whose name ends in .ext (not a dot file), and a plain name that file of
\* the root.
GlobIncluded(f) ==
    LET SrcGlob(ext) == Len(f) >= 2 /\ f[1] = <<"s","r","c">> /\ IsSuffix(ext, Last(f))
        RootGlob(ext) == Len(f) = 1 /\ IsSuffix(ext, f[1]) /\ f[1][1] # "."
    IN  \/ \E ext \in {<<".","c","p","p">>, <<".","h">>, <<".","c">>} : SrcGlob(ext)
        \/ \E ext \in {<<".","m","d">>, <<".","s","h">>, <<".","p","r","o">>} : RootGlob(ext)
        \/ f \in {<<INCLUDE_PATTERNS[6]>>, <<INCLUDE_PATTERNS[7]>>}

\* Spec section 4.1 ("a permissive substring/regex test"): the regexes
\* built by replacing '**/' and the first '*' of each glob accept at least
\* the files the glob names, so every such file outside an excluded path is
\* discovered.
GlobFilesDiscovered ==
    Finished =>
        \A f \in TreeFiles(tree) :
            GlobIncluded(f) /\ ~Excluded(RelPath(f)) => f \in Discovered

\* Spec sections 4.3 and 8 (`my-file_name` -> `MyFileNameBox`): the legend
\* loop gives every discovered file the reference id of its base name,
\* including names with adjacent, leading or trailing separators.
BoxIdMatchesReference ==
    pc = "named" =>
        \A k \in DOMAIN ids : ids[k] = ReferenceId(BaseName(files[k].path))

\* CONFIG.EXCLUDE_PATTERNS read as the globs they are written as: a file
\* in a node_modules, .git, build, obj or obj-test directory, or named
\* *.o or *.a.
ExcludeGlob(f) ==
    \E k \in DOMAIN EXCLUDE_PATTERNS :
        LET pat == EXCLUDE_PATTERNS[k]
        IN  IF pat[1] = "*" THEN IsSuffix(Tail(pat), Last(f)) ELSE pat \in ToSet(f)

\* The exclude list keeps object files and archives out of the analysis.
\* relPath.includes('*.o') tests for a literal '*', so src/ch.o, which the
\* include regex 'src/.*.h' accepts, is discovered.
NoExcludedFileDiscovered == \A f \in Discovered : ~ExcludeGlob(f)
====
