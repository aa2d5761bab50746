------------------------------ MODULE DataModel ------------------------------
(***************************************************************************)
(* The data both programs share (spec section 3): relative paths, the part *)
(* of FileMetadata the legend reads, categories and box records.           *)
(*                                                                         *)
(* A relative path is a record [dir, base, ext]; which of the category     *)
(* keywords the lowercased path contains is given per part by Mentions (no *)
(* keyword contains "/" or ".", so none straddles two parts).  The text    *)
(* fields of a box (description, aiContext, interface, metadata, contract, *)
(* embedding flag) are functions of the analyzed file and are represented  *)
(* by the file's path.                                                     *)
(***************************************************************************)
EXTENDS Naturals, Sequences, SequencesExt, FiniteSets, JsObject

CONSTANTS
    Dirs,          \* directory parts of relative paths
    Bases,         \* base names without extension
    Exts,          \* extensions, lowercased
    DepNames,      \* names an #include directive may carry
    Mentions(_),   \* category keywords a dir or base name contains
    BoxIdOf(_),    \* generateBoxId, as a function of the base name
    MaxFiles       \* bound on the number of analyzed files

Paths == [dir : Dirs, base : Bases, ext : Exts]

\* extractDependencies returns a duplicate-free list in first-seen order.
DepLists == {s \in BoundedSeq(DepNames, Cardinality(DepNames)) :
                IsInjective(s)}

\* The part of FileMetadata the legend reads.
AnalyzedFile == [path : Paths, deps : DepLists]

\* Discovery yields each relative path once, in any readdir order.
AnalyzedLists ==
    {s \in BoundedSeq(AnalyzedFile, MaxFiles) :
        \A i, j \in DOMAIN s : i # j => s[i].path # s[j].path}

(***************************************************************************)
(* categorizeFile: the ordered if-chain, as an ordered list of rules.  A   *)
(* rule matches when the lowercased path includes one of its words or ends *)
(* with one of its extensions; the first matching rule wins.               *)
(***************************************************************************)
CategoryRules == <<
    [words |-> {"script"},        exts |-> {},      label |-> "script-engine"],
    [words |-> {"main"},          exts |-> {},      label |-> "core-consensus"],
    [words |-> {"net"},           exts |-> {},      label |-> "network"],
    [words |-> {"rpc"},           exts |-> {},      label |-> "api"],
    [words |-> {"wallet"},        exts |-> {},      label |-> "wallet"],
    [words |-> {"crypto", "key"}, exts |-> {},      label |-> "cryptography"],
    [words |-> {"db"},            exts |-> {},      label |-> "storage"],
    [words |-> {"util"},          exts |-> {},      label |-> "utilities"],
    [words |-> {"test"},          exts |-> {},      label |-> "testing"],
    [words |-> {},                exts |-> {".md"}, label |-> "documentation"],
    [words |-> {},                exts |-> {".sh"}, label |-> "build-system"],
    [words |-> {"docker"},        exts |-> {},      label |-> "infrastructure"] >>

Categories == {CategoryRules[i].label : i \in DOMAIN CategoryRules} \cup {"other"}

PathWords(p) == Mentions(p.dir) \cup Mentions(p.base)

RuleMatches(r, p) == (r.words \cap PathWords(p) # {}) \/ p.ext \in r.exts

categorizeFile(p) ==
    LET hits == {i \in DOMAIN CategoryRules : RuleMatches(CategoryRules[i], p)}
    IN  IF hits = {} THEN "other" ELSE CategoryRules[Min(hits)].label

\* The registry entry built for one analyzed file.
MakeBox(file) ==
    [id |-> BoxIdOf(file.path.base), path |-> file.path,
     category |-> categorizeFile(file.path), deps |-> file.deps]

BoxIds == {BoxIdOf(b) : b \in Bases}
=============================================================================
