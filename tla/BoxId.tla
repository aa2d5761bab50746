-------------------------------- MODULE BoxId --------------------------------
(***************************************************************************)
(* generateBoxId of src/create-knowledge-graph.js:                         *)
(*   basename = path.basename(file.path, path.extname(file.path))          *)
(*   normalized = basename.split(/[-_]/)                                   *)
(*                  .map(w => w.charAt(0).toUpperCase() + w.slice(1))      *)
(*                  .join('')                                              *)
(*   return `${normalized}Box`                                             *)
(* Base names are sequences of one-character strings without a "."        *)
(* (the discovered files have a single extension, which extname strips).   *)
(* The operators are used by Discoverer, which gives the discovered files *)
(* their ids as the legend loop does.                                      *)
(***************************************************************************)
EXTENDS Sequences, SequencesExt, FiniteSets

CONSTANTS
    Chars,       \* characters of base names
    ToUpper(_),  \* String.prototype.toUpperCase on one character
    MaxName      \* bound on the length of a base name

Seps == {"-", "_"}
BoxSuffix == <<"B", "o", "x">>
BaseNames == BoundedSeq(Chars, MaxName) \ {<<>>}

\* Bug variant of split, used as a mutant: only hyphens separate words.
splitOnHyphen(s) ==
    FoldLeft(LAMBDA acc, c : IF c = "-" THEN Append(acc, <<>>)
                             ELSE [acc EXCEPT ![Len(acc)] = Append(@, c)],
             <<<<>>>>, s)

\* s.split(/[-_]/): a separator ends a word, so two adjacent separators, or
\* one at either end, give an empty word.
split(s) ==
    FoldLeft(LAMBDA acc, c : IF c \in Seps THEN Append(acc, <<>>)
                             ELSE [acc EXCEPT ![Len(acc)] = Append(@, c)],
             <<<<>>>>, s)

\* word.charAt(0).toUpperCase() + word.slice(1); "" stays "".
capitalize(w) == IF w = <<>> THEN <<>> ELSE <<ToUpper(Head(w))>> \o Tail(w)

generateBoxId(base) ==
    LET words == split(base)
    IN  FlattenSeq([k \in DOMAIN words |-> capitalize(words[k])]) \o BoxSuffix

-----------------------------------------------------------------------------
\* The id spec section 4.3 describes, character by character: separators
\* are dropped, a character that starts the name or follows a separator is
\* upper-cased, the others are kept, and "Box" is appended.
ReferenceId(base) ==
    LET kept == SetToSortSeq({p \in DOMAIN base : base[p] \notin Seps}, <)
        Starts(p) == p = 1 \/ base[p - 1] \in Seps
    IN  [k \in DOMAIN kept |-> IF Starts(kept[k]) THEN ToUpper(base[kept[k]])
                               ELSE base[kept[k]]] \o BoxSuffix

====
