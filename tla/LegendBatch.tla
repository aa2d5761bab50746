------------------------------ MODULE LegendBatch ------------------------------
(***************************************************************************)
(* The Legend of spec sections 3 and 4.3 as a function of the analyzed     *)
(* files, in discovery order:                                              *)
(*   - boxes: one key per box id, in order of first discovery; the value   *)
(*     is the box of the LAST file with that id (colliding ids overwrite); *)
(*   - categories: one key per category, in order of first discovery; the  *)
(*     value lists the id of every file of that category, in discovery     *)
(*     order, once per file;                                               *)
(*   - dependencies: one key per include name, in order of first mention;  *)
(*     the value lists the id of every file declaring it, once per file.   *)
(***************************************************************************)
EXTENDS Naturals, Sequences, SequencesExt, JsObject

CONSTANT BoxOf(_)   \* the box record ([id, category, deps, ...]) of a file

\* The sequence s without repetitions, each element at its first position.
FirstSeen(s) ==
    FoldLeft(LAMBDA acc, x : IF x \in ToSet(acc) THEN acc ELSE Append(acc, x),
             <<>>, s)

BatchLegend(fs) ==
    LET bs     == [i \in DOMAIN fs |-> BoxOf(fs[i])]
        IdsOf(sel) == [i \in DOMAIN sel |-> sel[i].id]
        ids    == IdsOf(bs)
        LastBox(id) == bs[Max({i \in DOMAIN bs : bs[i].id = id})]
        cats   == FirstSeen([i \in DOMAIN bs |-> bs[i].category])
        deps   == FirstSeen(FlattenSeq([i \in DOMAIN bs |-> bs[i].deps]))
    IN  [boxes |-> [keys |-> FirstSeen(ids),
                    val  |-> [id \in ToSet(ids) |-> LastBox(id)]],
         categories |->
            [keys |-> cats,
             val  |-> [c \in ToSet(cats) |->
                         IdsOf(SelectSeq(bs, LAMBDA b : b.category = c))]],
         dependencies |->
            [keys |-> deps,
             val  |-> [d \in ToSet(deps) |->
                         IdsOf(SelectSeq(bs, LAMBDA b : d \in ToSet(b.deps)))]]]

=============================================================================
