---------------------------- MODULE KeywordSearch ----------------------------
(***************************************************************************)
(* The keyword and semantic commands of src/query-knowledge-graph.js.      *)
(* queryByKeyword visits the entries of legend.boxes in key order; a box   *)
(* whose lower-cased search text includes the lower-cased keyword (a       *)
(* literal String.prototype.includes) is a match, with relevance           *)
(* countOccurrences(text, keyword) = text.match(new RegExp(keyword, 'gi')) *)
(* .length: the keyword is compiled as a regular expression, unescaped.    *)
(* The matches are sorted (stably) by descending relevance, the first 10   *)
(* are printed and the rest reported as an overflow count.                 *)
(*                                                                         *)
(* Texts and keywords are sequences of one-character strings over a small  *)
(* lower-case alphabet (both sides are lower-cased before comparing, so    *)
(* case plays no part).  The alphabet may hold the regex metacharacters    *)
(* "." (any character but a line terminator; the model's texts hold no     *)
(* line terminator) and "(" (an unbalanced group: the RegExp constructor   *)
(* throws a SyntaxError).                                                  *)
(***************************************************************************)
EXTENDS Integers, Sequences, SequencesExt, FiniteSets, FiniteSetsExt

CONSTANTS
    BoxOrder,   \* the ids of legend.boxes in key order
    Alphabet,   \* characters of the search texts and keywords
    MaxText,    \* bound on the length of a search text
    Keywords,   \* values of the argument, as character sequences
    MaxShown    \* the cut of `matches.slice(0, 10)`

Ids == ToSet(BoxOrder)
Texts == BoundedSeq(Alphabet, MaxText)

VARIABLES
    command,    \* "keyword" or "semantic"
    keyword,    \* the argument (already lower-cased)
    text,       \* box id -> its lower-cased searchText
    i,          \* index in BoxOrder of the loop's current entry
    matches,    \* the `matches` array: [boxId, relevance] records
    pc,         \* "start", "scan", "exited"
    exitCode,
    shown,      \* the matches printed
    overflow    \* the "... and N more matches" count (0 when not printed)

vars == <<command, keyword, text, i, matches, pc, exitCode, shown, overflow>>

Match == [boxId : Ids, relevance : Nat]

TypeOK ==
    /\ command \in {"keyword", "semantic"}
    /\ keyword \in Keywords
    /\ text \in [Ids -> Texts]
    /\ i \in 1..Len(BoxOrder) + 1
    /\ matches \in Seq(Match)
    /\ pc \in {"start", "scan", "exited"}
    /\ exitCode \in {0, 1}
    /\ shown \in Seq(Match)
    /\ overflow \in Nat

-----------------------------------------------------------------------------
\* searchText.includes(kw): a literal substring test ("" is always included).
Includes(t, kw) ==
    \E p \in 1..Len(t) - Len(kw) + 1 : SubSeq(t, p, p + Len(kw) - 1) = kw

\* new RegExp(kw) throws on an unbalanced "(".
IsSyntaxError(kw) == "(" \in ToSet(kw)

\* The compiled pattern matches at position p: "." matches any character.
RegexMatchAt(t, kw, p) ==
    /\ p + Len(kw) - 1 <= Len(t)
    /\ \A k \in 1..Len(kw) : kw[k] = "." \/ kw[k] = t[p + k - 1]

\* Bug variant of countOccurrences, used as a mutant: every position is
\* tested, so occurrences that overlap are all counted.
countOverlapping(t, kw) ==
    Cardinality({p \in 1..Len(t) + 1 : RegexMatchAt(t, kw, p)})

\* String.prototype.match with a global regex: search from lastIndex, and
\* after a match continue at its end, or one further for an empty match;
\* `matches ? matches.length : 0`.
countOccurrences(t, kw) ==
    LET RECURSIVE Scan(_)
        Scan(p) == IF p > Len(t) + 1 THEN 0
                   ELSE IF RegexMatchAt(t, kw, p)
                        THEN 1 + Scan(p + (IF kw = <<>> THEN 1 ELSE Len(kw)))
                        ELSE Scan(p + 1)
    IN  Scan(1)

\* Bug variant of the sort comparator, used as a mutant.
ByAscendingRelevance(a, b) == a.relevance - b.relevance

\* `(a, b) => b.relevance - a.relevance`
ByDescendingRelevance(a, b) == b.relevance - a.relevance

\* matches.sort(cmp), stable: each match goes after every match already
\* placed that does not compare greater than it.
SortByRelevance(s) ==
    LET Insert(sorted, x) ==
            LET n == Cardinality({q \in DOMAIN sorted :
                                    ByDescendingRelevance(sorted[q], x) <= 0})
            IN  SubSeq(sorted, 1, n) \o <<x>> \o SubSeq(sorted, n + 1, Len(sorted))
    IN  FoldLeft(Insert, <<>>, s)

-----------------------------------------------------------------------------
Init ==
    /\ command \in {"keyword", "semantic"}
    /\ keyword \in Keywords
    /\ text \in [Ids -> Texts]
    /\ i = 1
    /\ matches = <<>>
    /\ pc = "start"
    /\ exitCode = 0
    /\ shown = <<>>
    /\ overflow = 0

\* `case 'keyword': queryByKeyword(arg)`
KeywordCommand ==
    /\ pc = "start" /\ command = "keyword"
    /\ pc' = "scan"
    /\ UNCHANGED <<command, keyword, text, i, matches, exitCode, shown, overflow>>

\* semanticQuery(query) prints its note and calls queryByKeyword(query).
SemanticQuery ==
    /\ pc = "start" /\ command = "semantic"
    /\ pc' = "scan"
    /\ UNCHANGED <<command, keyword, text, i, matches, exitCode, shown, overflow>>

\* One iteration of `for (const [boxId, box] of Object.entries(legend.boxes))`.
ScanBox ==
    /\ pc = "scan"
    /\ i <= Len(BoxOrder)
    /\ LET id == BoxOrder[i]
           t  == text[id]
       IN  \/ /\ ~Includes(t, keyword)
              /\ i' = i + 1
              /\ UNCHANGED <<matches, pc, exitCode>>
           \/ /\ Includes(t, keyword) /\ IsSyntaxError(keyword)
              /\ pc' = "exited" /\ exitCode' = 1
              /\ UNCHANGED <<i, matches>>
           \/ /\ Includes(t, keyword) /\ ~IsSyntaxError(keyword)
              /\ matches' = Append(matches, [boxId |-> id,
                                             relevance |-> countOccurrences(t, keyword)])
              /\ i' = i + 1
              /\ UNCHANGED <<pc, exitCode>>
    /\ UNCHANGED <<command, keyword, text, shown, overflow>>

\* After the loop: sort, print the first MaxShown, report the rest.
Report ==
    /\ pc = "scan"
    /\ i > Len(BoxOrder)
    /\ LET sorted == SortByRelevance(matches)
       IN  /\ matches' = sorted
           /\ shown' = SubSeq(sorted, 1, Min({MaxShown, Len(sorted)}))
           /\ overflow' = IF Len(sorted) > MaxShown THEN Len(sorted) - MaxShown ELSE 0
    /\ pc' = "exited" /\ exitCode' = 0
    /\ UNCHANGED <<command, keyword, text, i>>

Next == KeywordCommand \/ SemanticQuery \/ ScanBox \/ Report

Spec == Init /\ [][Next]_vars

-----------------------------------------------------------------------------
(***************************************************************************)
(* Properties.                                                             *)
(***************************************************************************)

\* The boxes a keyword matches, in registry order, and their relevance.
Matching == SelectSeq(BoxOrder, LAMBDA id : Includes(text[id], keyword))
Rel(id) == countOccurrences(text[id], keyword)
Pos(id) == CHOOSE q \in DOMAIN BoxOrder : BoxOrder[q] = id

\* `a` is ranked before `b`: more relevant, or as relevant and earlier in
\* the registry (the sort is stable).
RankedBefore(a, b) ==
    Rel(a) > Rel(b) \/ (Rel(a) = Rel(b) /\ Pos(a) < Pos(b))

\* Spec sections 4.6 and 8: a completed keyword query prints the
\* min(10, #matches) most relevant matches, most relevant first, ties in
\* registry order, each once with its own relevance, and reports the others
\* as the overflow count; no match below the cut outranks one above it.
ShownAreTopMatches ==
    (pc = "exited" /\ exitCode = 0) =>
        LET ids == [k \in DOMAIN shown |-> shown[k].boxId]
            M == ToSet(Matching)
        IN  /\ Len(shown) = Min({MaxShown, Cardinality(M)})
            /\ overflow = Cardinality(M) - Len(shown)
            /\ IsInjective(ids) /\ ToSet(ids) \subseteq M
            /\ \A k \in DOMAIN shown : shown[k].relevance = Rel(shown[k].boxId)
            /\ \A k \in 1..Len(ids) - 1 : RankedBefore(ids[k], ids[k + 1])
            /\ \A s \in ToSet(ids), m \in M \ ToSet(ids) : RankedBefore(s, m)

\* The number of times kw occurs in t as a literal substring, counting
\* occurrences that do not overlap: the most positions of kw in t that are
\* pairwise at least Len(kw) apart.
OccurrenceCount(t, kw) ==
    LET Occ == {p \in 1..Len(t) - Len(kw) + 1 : SubSeq(t, p, p + Len(kw) - 1) = kw}
        Disjoint(P) == \A p, q \in P : p < q => q - p >= Len(kw)
    IN  Max({Cardinality(P) : P \in {P \in SUBSET Occ : Disjoint(P)}})

\* Every printed relevance is the keyword's occurrence count in the box's
\* text, for keywords in `kws`.
RelevanceIsCount(kws) ==
    (pc = "exited" /\ exitCode = 0 /\ keyword \in kws) =>
        \A k \in DOMAIN shown :
            shown[k].relevance = OccurrenceCount(text[shown[k].boxId], keyword)

\* Spec section 4.6: matches are ranked "by raw occurrence count of the
\* keyword".  For keywords of ordinary characters, where the compiled regex
\* is the literal, the global-match scan counts non-overlapping occurrences.
\* (countOccurrences does not escape the keyword: a "." counts every
\* character.)
LiteralRelevanceIsCount ==
    RelevanceIsCount({kw \in Keywords \ {<<>>} : ToSet(kw) \cap {".", "("} = {}})

\* Spec section 4.6, for every keyword the RegExp constructor accepts:
\* each printed relevance is the raw occurrence count of the keyword in
\* the box's text.  countOccurrences compiles the keyword unescaped, so a
\* "." in it matches any character, while the filter of line 80 tests it
\* literally.
RegexRelevanceIsCount ==
    RelevanceIsCount({kw \in Keywords : "(" \notin ToSet(kw)})

\* Spec sections 6 and 7: a query exits with status 0 unless loading the
\* artifacts fails.  new RegExp(keyword) throws on a keyword with an
\* unbalanced "(" once some box's text includes it.
KeywordQueryExitsZero == (pc = "exited") => exitCode = 0
====
