------------------------------ MODULE Analyzer ------------------------------
(***************************************************************************)
(* The text heuristics of analyzeFile in src/create-knowledge-graph.js:   *)
(* extractDescription, a loop over the first 30 lines with an inComment    *)
(* flag, then extractFunctions, a global multi-line regex with a keyword   *)
(* guard and a cap of 50, extractClasses, extractDependencies (the         *)
(* #include names, without repeats) and extractOpcodes (the OP_ tokens,   *)
(* without repeats, at most 20).  The box contract that createMasterLegend *)
(* attaches to the file (generateContract and its two helpers) is a        *)
(* function of the extracted functions alone and is defined here too.      *)
(*                                                                         *)
(* A line, after trim(), is a sequence of tokens; whitespace between       *)
(* tokens is abstracted away.  Marker tokens are "//", "#", "#include",    *)
(* "/*", "*/" and "*"; "(", ")", "<", ">", the double quote and ":" are    *)
(* punctuation; every other token is a word (\w+).                        *)
(* Every "(" of the model's lines is closed on the same line, so the       *)
(* function regex never spans lines.  Strings are compared by tokens:     *)
(* join(' ') and trim() are token concatenation.                           *)
(***************************************************************************)
EXTENDS Integers, Sequences, SequencesExt, FiniteSets, FiniteSetsExt, JsObject

CONSTANTS
    Lines,         \* the lines a file may have
    MaxLines,      \* bound on the number of lines of a file
    MaxScan,       \* the 30 of `Math.min(30, lines.length)`
    MaxDesc,       \* the 5 of `headerLines.slice(0, 5)`
    MaxFunctions,  \* the 50 of `functions.slice(0, 50)`
    OpcodeTokens,  \* the words /\b(OP_[A-Z_0-9]+)\b/ matches
    MaxOpcodes,    \* the 20 of `.slice(0, 20)` in extractOpcodes
    StrStartsWith(_, _) \* String.prototype.startsWith on the model's names

Markers == {"//", "#", "#include", "/*", "*/", "*", "(", ")", "<", ">", "\"", ":"}
IsWord(tok) == tok \notin Markers
NoDescription == <<"No description available">>
FileTypes == {"source", "header", "documentation"}
\* The return types the guard of extractFunctions skips.
GuardWords == {"if", "for", "while", "switch", "catch"}

StartsWith(l, tok) == l # <<>> /\ l[1] = tok
\* line.startsWith('#'): a '#' comment, or a directive such as #include.
StartsWithHash(l) == StartsWith(l, "#") \/ StartsWith(l, "#include")
LineIncludes(l, tok) == tok \in ToSet(l)

\* line.replace(/^(\/\/|#)\s*/, '') and line.replace(/^\s*\*\s*/, '').
StripLineMarker(l) == IF StartsWith(l, "#include") THEN <<"include">> \o Tail(l) ELSE Tail(l)
StripStar(l) == IF StartsWith(l, "*") THEN Tail(l) ELSE l

\* headerLines.slice(0, 5).join(' ').trim() || 'No description available'
JoinDescription(hs) ==
    LET d == FlattenSeq(SubSeq(hs, 1, Min({MaxDesc, Len(hs)})))
    IN  IF d = <<>> THEN NoDescription ELSE d

(***************************************************************************)
(* The function regex, anchored at a line start: the greedy optional       *)
(* `static` and `inline` are tried consumed first, then given back, so the *)
(* return type is tried at these token positions, in this order.          *)
(***************************************************************************)
Attempts(l) ==
    (IF StartsWith(l, "static")
     THEN (IF Len(l) >= 2 /\ l[2] = "inline" THEN <<3>> ELSE <<>>) \o <<2>>
     ELSE <<>>)
    \o (IF StartsWith(l, "inline") THEN <<2>> ELSE <<>>) \o <<1>>

\* `(\w+)\s+(\w+)\s*\([^)]*\)` at token k.
ParsesAt(l, k) ==
    /\ k + 2 <= Len(l)
    /\ IsWord(l[k]) /\ IsWord(l[k + 1]) /\ l[k + 2] = "("
    /\ \E c \in k + 3..Len(l) : l[c] = ")"

\* The match of a line, if any: [returnType, name, signature], where the
\* signature, match[0].trim(), runs from the line start to the first ")".
MatchesOf(l) ==
    LET ks == SelectSeq(Attempts(l), LAMBDA k : ParsesAt(l, k))
        close(k) == Min({c \in k + 3..Len(l) : l[c] = ")"})
    IN  IF ks = <<>> THEN <<>>
        ELSE <<[returnType |-> l[Head(ks)], name |-> l[Head(ks) + 1],
                signature |-> SubSeq(l, 1, close(Head(ks)))]>>

\* extractFunctions(content, type)
extractFunctions(ls, type) ==
    IF type \notin {"source", "header"} THEN <<>>
    ELSE LET found == FlattenSeq([p \in DOMAIN ls |-> MatchesOf(ls[p])])
             kept == SelectSeq(found, LAMBDA f : f.returnType \notin GuardWords)
         IN  SubSeq(kept, 1, Min({MaxFunctions, Len(kept)}))

\* The matches of a per-line pattern over the whole content, in order.
AllMatches(ls, M(_)) == FlattenSeq([p \in DOMAIN ls |-> M(ls[p])])

\* `class\s+(\w+)(?:\s*:\s*public\s+(\w+))?` at each "class" of a line.
ClassesOf(l) ==
    LET ks == SelectSeq([k \in 1..Len(l) |-> k],
                        LAMBDA k : l[k] = "class" /\ k < Len(l) /\ IsWord(l[k + 1]))
        Base(k) == IF k + 4 <= Len(l) /\ l[k + 2] = ":" /\ l[k + 3] = "public"
                      /\ IsWord(l[k + 4])
                   THEN l[k + 4] ELSE "null"
    IN  [j \in DOMAIN ks |-> [name |-> l[ks[j] + 1], inherits |-> Base(ks[j])]]

\* extractClasses(content, type)
extractClasses(ls, type) ==
    IF type \notin {"source", "header"} THEN <<>> ELSE AllMatches(ls, ClassesOf)

\* `#include\s*[<"]([^>"]+)[>"]` at each "#include" of a line.
IncludesOf(l) ==
    LET ks == SelectSeq([k \in 1..Len(l) |-> k],
                        LAMBDA k : /\ l[k] = "#include" /\ k + 3 <= Len(l)
                                   /\ l[k + 1] \in {"<", "\""} /\ l[k + 3] \in {">", "\""})
    IN  [j \in DOMAIN ks |-> l[ks[j] + 2]]

OpcodesOf(l) == SelectSeq(l, LAMBDA tok : tok \in OpcodeTokens)

\* [...new Set(s)]: each element once, at its first position.
Distinct(s) == FoldLeft(LAMBDA acc, x : IF x \in ToSet(acc) THEN acc ELSE Append(acc, x),
                        <<>>, s)

\* extractDependencies(content, type): every type, comments included.
extractDependencies(ls) == Distinct(AllMatches(ls, IncludesOf))

\* extractOpcodes(content, type): `if (!content.includes('OP_')) return []`,
\* then `[...new Set(opcodes)].slice(0, 20)`.
extractOpcodes(ls) ==
    LET all == AllMatches(ls, OpcodesOf)
    IN  IF all = <<>> THEN <<>>
        ELSE SubSeq(Distinct(all), 1, Min({MaxOpcodes, Len(Distinct(all))}))

(***************************************************************************)
(* generateContract: the inputs and outputs objects, keyed by function     *)
(* name; `outputs[func.name] = ...` replaces an earlier overload's entry   *)
(* and keeps its key position.  The static errors and guarantees lists,    *)
(* and the "Parameter for" text, do not depend on the file.                *)
(***************************************************************************)
\* `func.name.startsWith('get') || func.name.startsWith('set')`
IsAccessor(name) == StrStartsWith(name, "get") \/ StrStartsWith(name, "set")

\* extractInputContract(file)
extractInputContract(fs) ==
    FoldLeft(LAMBDA o, f : IF IsAccessor(f.name)
                           THEN Put(o, f.name, [type |-> f.returnType])
                           ELSE o,
             EmptyObject, fs)

\* Bug variant of extractOutputContract, used as a mutant: an overload
\* does not replace the entry of an earlier function of the same name.
extractOutputContractFirstWins(fs) ==
    FoldLeft(LAMBDA o, f : IF HasOwn(o, f.name) THEN o
                           ELSE Put(o, f.name, [type |-> f.returnType,
                                                description |-> f.signature]),
             EmptyObject, fs)

\* extractOutputContract(file)
extractOutputContract(fs) ==
    FoldLeft(LAMBDA o, f : Put(o, f.name, [type |-> f.returnType,
                                           description |-> f.signature]),
             EmptyObject, fs)

\* generateContract(file), without its static lists.
generateContract(fs) ==
    [inputs |-> extractInputContract(fs), outputs |-> extractOutputContract(fs)]

-----------------------------------------------------------------------------
VARIABLES
    lines,        \* content.split('\n'), trimmed
    type,         \* getFileType of the file
    i,            \* loop index of extractDescription
    inComment,
    headerLines,
    pc,           \* "description", "functions", "done"
    description,
    functions,
    classes,
    dependencies,
    opcodes

vars == <<lines, type, i, inComment, headerLines, pc, description, functions,
          classes, dependencies, opcodes>>

Files == BoundedSeq(Lines, MaxLines)

TypeOK ==
    /\ lines \in Files
    /\ type \in FileTypes
    /\ i \in 1..MaxScan + 1
    /\ inComment \in BOOLEAN
    /\ headerLines \in Seq(Seq(UNION {ToSet(l) : l \in Lines}))
    /\ pc \in {"description", "functions", "done"}

Init ==
    /\ lines \in Files
    /\ type \in FileTypes
    /\ i = 1
    /\ inComment = FALSE
    /\ headerLines = <<>>
    /\ pc = "description"
    /\ description = <<>>
    /\ functions = <<>>
    /\ classes = <<>>
    /\ dependencies = <<>>
    /\ opcodes = <<>>

\* Bug variant of DescribeLine, used as a mutant: a line holding "*/" does
\* not clear inComment.
DescribeLineKeepsComment(l) ==
    \/ /\ StartsWith(l, "//") \/ StartsWithHash(l)
       /\ headerLines' = Append(headerLines, StripLineMarker(l))
       /\ UNCHANGED inComment
    \/ /\ ~(StartsWith(l, "//") \/ StartsWithHash(l))
       /\ StartsWith(l, "/*")
       /\ inComment' = TRUE /\ UNCHANGED headerLines
    \/ /\ ~(StartsWith(l, "//") \/ StartsWithHash(l) \/ StartsWith(l, "/*"))
       /\ LineIncludes(l, "*/")
       /\ UNCHANGED <<inComment, headerLines>>
    \/ /\ ~(StartsWith(l, "//") \/ StartsWithHash(l) \/ StartsWith(l, "/*"))
       /\ ~LineIncludes(l, "*/")
       /\ IF inComment THEN headerLines' = Append(headerLines, StripStar(l))
                       ELSE UNCHANGED headerLines
       /\ UNCHANGED inComment

\* The body of one iteration of the loop, on line l.
DescribeLine(l) ==
    \/ /\ StartsWith(l, "//") \/ StartsWithHash(l)
       /\ headerLines' = Append(headerLines, StripLineMarker(l))
       /\ UNCHANGED inComment
    \/ /\ ~(StartsWith(l, "//") \/ StartsWithHash(l))
       /\ StartsWith(l, "/*")
       /\ inComment' = TRUE /\ UNCHANGED headerLines
    \/ /\ ~(StartsWith(l, "//") \/ StartsWithHash(l) \/ StartsWith(l, "/*"))
       /\ LineIncludes(l, "*/")
       /\ inComment' = FALSE /\ UNCHANGED headerLines
    \/ /\ ~(StartsWith(l, "//") \/ StartsWithHash(l) \/ StartsWith(l, "/*"))
       /\ ~LineIncludes(l, "*/")
       /\ IF inComment THEN headerLines' = Append(headerLines, StripStar(l))
                       ELSE UNCHANGED headerLines
       /\ UNCHANGED inComment

\* `for (let i = 0; i < Math.min(30, lines.length); i++)`
ScanLine ==
    /\ pc = "description"
    /\ i <= Min({MaxScan, Len(lines)})
    /\ DescribeLine(lines[i])
    /\ i' = i + 1
    /\ UNCHANGED <<lines, type, pc, description, functions, classes, dependencies, opcodes>>

\* `return headerLines.slice(0, 5).join(' ').trim() || 'No description ...'`
DescriptionDone ==
    /\ pc = "description"
    /\ i > Min({MaxScan, Len(lines)})
    /\ description' = JoinDescription(headerLines)
    /\ pc' = "functions"
    /\ UNCHANGED <<lines, type, i, inComment, headerLines, functions, classes,
                   dependencies, opcodes>>

\* The metadata fields after the description: functions, classes,
\* dependencies and opcodes.
ExtractMetadata ==
    /\ pc = "functions"
    /\ functions' = extractFunctions(lines, type)
    /\ classes' = extractClasses(lines, type)
    /\ dependencies' = extractDependencies(lines)
    /\ opcodes' = extractOpcodes(lines)
    /\ pc' = "done"
    /\ UNCHANGED <<lines, type, i, inComment, headerLines, description>>

Next == ScanLine \/ DescriptionDone \/ ExtractMetadata

Spec == Init /\ [][Next]_vars

-----------------------------------------------------------------------------
(***************************************************************************)
(* Properties.                                                             *)
(***************************************************************************)

Scanned == 1..Min({MaxScan, Len(lines)})
IsLineComment(p) == StartsWith(lines[p], "//") \/ StartsWithHash(lines[p])
IsMarkerLine(p) == StartsWith(lines[p], "/*") \/ LineIncludes(lines[p], "*/")

\* Line p lies inside a block comment: an earlier line opens one that no
\* line from the opener up to p closes.
InsideBlock(p) ==
    \E q \in 1..p - 1 :
        StartsWith(lines[q], "/*") /\ \A r \in q..p : ~LineIncludes(lines[r], "*/")

\* The comment text of the header, read lexically: the bodies of the line
\* comments and of the lines inside a block comment (the lines holding the
\* block's markers contribute nothing), among the first MaxScan lines.
HeaderCommentText ==
    LET ps == SetToSortSeq({p \in Scanned : IsLineComment(p)
                             \/ (InsideBlock(p) /\ ~IsMarkerLine(p))}, <)
    IN  [k \in DOMAIN ps |-> IF IsLineComment(ps[k]) THEN StripLineMarker(lines[ps[k]])
                             ELSE StripStar(lines[ps[k]])]

\* The description of a file whose lines are in `files` is its header
\* comment text, first MaxDesc lines joined, or the sentinel.
DescriptionIsCommentText(files) ==
    (pc # "description" /\ lines \in files)
        => description = JoinDescription(HeaderCommentText)

\* A line that opens a block comment and closes it again.
OpensAndCloses(l) == StartsWith(l, "/*") /\ LineIncludes(l, "*/")

\* Spec section 4.2: the description is the file's header comment bodies,
\* tracked with an inComment flag, for files where no line opens and closes
\* a block comment at once.  (On such a line the close is an else-branch
\* never reached: inComment stays set and the code lines that follow are
\* taken into the description.)
OrdinaryDescriptionIsCommentText ==
    DescriptionIsCommentText({f \in Files : \A p \in DOMAIN f : ~OpensAndCloses(f[p])})

\* The elements of s, each once, ordered by their first position in s.
FirstSeenOrder(s) ==
    LET First(x) == Min({k \in DOMAIN s : s[k] = x})
    IN  SetToSortSeq(ToSet(s), LAMBDA a, b : First(a) < First(b))

\* Spec section 4.3 (the output contract lists every extracted function
\* keyed by name, the input contract the get/set ones): once the file is
\* analyzed, the contract the legend attaches to it has one output entry
\* per distinct function name, in first-seen order, describing the LAST
\* function of that name (overloads collapse); its input entries are the
\* accessor names among them, with the same return types.
ContractDescribesLastOverload ==
    pc = "done" =>
        LET c == generateContract(functions)
            names == [k \in DOMAIN functions |-> functions[k].name]
            LastNamed(n) == functions[Max({k \in DOMAIN functions : names[k] = n})]
        IN  /\ c.outputs.keys = FirstSeenOrder(names)
            /\ \A n \in OwnKeys(c.outputs) :
                  Get(c.outputs, n) = [type |-> LastNamed(n).returnType,
                                       description |-> LastNamed(n).signature]
            /\ ToSet(c.inputs.keys) = {n \in OwnKeys(c.outputs) : IsAccessor(n)}
            /\ \A n \in OwnKeys(c.inputs) : Get(c.inputs, n).type = LastNamed(n).returnType
====
