---------------------------- MODULE MCDiscoverer ----------------------------
(***************************************************************************)
(* A tree with an included file at every depth, an object file in src/,   *)
(* an excluded directory with a source file in it, a file outside src/    *)
(* that only the regexes include, and one file of src/ whose base name is *)
(* any name of up to MaxName characters over {a, -, _}.                  *)
(***************************************************************************)
EXTENDS Discoverer

MCChars == {"a", "-", "_"}

MCToUpper(c) ==
    CASE c = "a" -> "A" [] c = "c" -> "C" [] c = "e" -> "E"
      [] c = "r" -> "R" [] OTHER -> c

MCToLower(c) == IF c = "A" THEN "a" ELSE c

Src == <<"s","r","c">>
Doc == <<"d","o","c">>
Obj == <<"o","b","j">>
Sc == <<"s","c">>

\* src/{b}.cpp, src/ch.o, src/obj/x.cpp, src/sc/e.h, doc/r.md
MCTree(b) ==
    (<<Src>> :> "dir") @@ (<<Doc>> :> "dir")
    @@ (<<Src, b \o <<".","c","p","p">>>> :> "file")
    @@ (<<Src, <<"c","h",".","o">>>> :> "file")
    @@ (<<Src, Obj>> :> "dir") @@ (<<Src, Obj, <<"x",".","c","p","p">>>> :> "file")
    @@ (<<Src, Sc>> :> "dir") @@ (<<Src, Sc, <<"e",".","h">>>> :> "file")
    @@ (<<Doc, <<"r",".","m","d">>>> :> "file")

MCTrees == {MCTree(b) : b \in BaseNames}
====
