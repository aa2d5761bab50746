---------------------------- MODULE LegendBuilder ----------------------------
(***************************************************************************)
(* The Legend Builder: createMasterLegend of                               *)
(* src/create-knowledge-graph.js.  One AddBox step is one iteration of its *)
(* `for (const file of analyzedFiles)` loop: the box is stored under the   *)
(* id generateBoxId gives the file's base name (overwriting a box of the   *)
(* same id), the id is pushed on its category's list and on the list of    *)
(* every dependency the file declares.  Return is the `return legend`.     *)
(*                                                                         *)
(* The data (paths, analyzed files, categories, box records) is that of   *)
(* DataModel; the static metadata and security blocks are left out.       *)
(***************************************************************************)
EXTENDS DataModel

VARIABLES
    analyzedFiles,  \* the argument: FileMetadata in discovery order
    next,           \* index of the loop's current file
    pc,             \* "loop" until the function returns, then "done"
    boxes,          \* legend.boxes       : box id -> box
    categories,     \* legend.categories  : category -> list of box ids
    dependencies    \* legend.dependencies: include name -> list of box ids

vars == <<analyzedFiles, next, pc, boxes, categories, dependencies>>

TypeOK ==
    /\ analyzedFiles \in AnalyzedLists
    /\ next \in 1..Len(analyzedFiles) + 1
    /\ pc \in {"loop", "done", "crashed"}
    /\ OwnKeys(boxes) \subseteq BoxIds
    /\ \A id \in OwnKeys(boxes) : Get(boxes, id).id = id
    /\ OwnKeys(categories) \subseteq Categories
    /\ OwnKeys(dependencies) \subseteq DepNames
    /\ \A c \in OwnKeys(categories) : Get(categories, c) \in Seq(BoxIds)
    /\ \A d \in OwnKeys(dependencies) : Get(dependencies, d) \in Seq(BoxIds)

Init ==
    /\ analyzedFiles \in AnalyzedLists
    /\ next = 1
    /\ pc = "loop"
    /\ boxes = EmptyObject
    /\ categories = EmptyObject
    /\ dependencies = EmptyObject

(***************************************************************************)
(* Bug variants of IndexPush, used as mutants: the id pushed only when it  *)
(* is not yet listed, and the list only ever created, never appended to.   *)
(***************************************************************************)
IndexPushOnce(index, key, boxId) ==
    LET list == GetOr(index, key, <<>>)
    IN  IF boxId \in ToSet(list) THEN index ELSE Put(index, key, Append(list, boxId))

IndexCreateOnly(index, key, boxId) ==
    IF HasOwn(index, key) THEN index ELSE Put(index, key, <<boxId>>)

\* `if (!index[key]) index[key] = []; index[key].push(boxId);`
IndexPush(index, key, boxId) ==
    Put(index, key, Append(GetOr(index, key, <<>>), boxId))

\* The inner `for (const dep of file.dependencies)` loop.
PushDependencies(index, deps, boxId) ==
    FoldLeft(LAMBDA acc, d : IndexPush(acc, d, boxId), index, deps)

\* Bug variant of AddBox, used as a mutant: the category list is given the
\* category label instead of the box id.
AddBoxPushesLabel ==
    /\ pc = "loop"
    /\ next <= Len(analyzedFiles)
    /\ LET box == MakeBox(analyzedFiles[next])
       IN  /\ boxes' = Put(boxes, box.id, box)
           /\ categories' = IndexPush(categories, box.category, box.category)
           /\ dependencies' = PushDependencies(dependencies, box.deps, box.id)
    /\ next' = next + 1
    /\ UNCHANGED <<analyzedFiles, pc>>

\* The position of the first dependency that names an Object.prototype
\* member, or 0: `legend.dependencies[dep]` is then truthy, and
\* `.push(boxId)` on the inherited function throws a TypeError.
FirstProtoDep(deps) ==
    LET ks == {k \in DOMAIN deps : deps[k] \in ProtoKeys}
    IN  IF ks = {} THEN 0 ELSE Min(ks)

\* One iteration of the loop over analyzedFiles.  A TypeError in the
\* dependency loop leaves the pushes made before it and ends the function
\* (and the run) without a return.
AddBox ==
    /\ pc = "loop"
    /\ next <= Len(analyzedFiles)
    /\ LET box == MakeBox(analyzedFiles[next])
           k == FirstProtoDep(box.deps)
       IN  /\ boxes' = Put(boxes, box.id, box)
           /\ categories' = IndexPush(categories, box.category, box.id)
           /\ \/ /\ k = 0
                 /\ dependencies' = PushDependencies(dependencies, box.deps, box.id)
                 /\ UNCHANGED pc
              \/ /\ k # 0
                 /\ dependencies' = PushDependencies(dependencies,
                                                     SubSeq(box.deps, 1, k - 1), box.id)
                 /\ pc' = "crashed"
    /\ next' = next + 1
    /\ UNCHANGED analyzedFiles

\* `return legend` once every file has been visited.
Return ==
    /\ pc = "loop"
    /\ next > Len(analyzedFiles)
    /\ pc' = "done"
    /\ UNCHANGED <<analyzedFiles, next, boxes, categories, dependencies>>

Next == AddBox \/ Return

Spec == Init /\ [][Next]_vars /\ WF_vars(Next)

-----------------------------------------------------------------------------
(***************************************************************************)
(* Properties.                                                             *)
(***************************************************************************)

\* Spec section 8 (reverse dependency lookup), and its category analogue:
\* after any number of iterations, the box registered under every id is
\* listed under its own category and under every dependency it declares.
\* Collisions make this subtle: the overwriting file must itself be
\* pushed, not just inherit the earlier file's index entries.  (A loop
\* that threw has registered a box whose pushes it did not finish; that
\* legend is never returned.)
EveryBoxIndexed ==
    pc # "crashed" =>
    \A id \in OwnKeys(boxes) :
        LET box == Get(boxes, id)
        IN  /\ HasOwn(categories, box.category)
            /\ id \in ToSet(Get(categories, box.category))
            /\ \A d \in ToSet(box.deps) :
                  HasOwn(dependencies, d) /\ id \in ToSet(Get(dependencies, d))

\* Spec sections 4.3 and 7: given the list of FileMetadata, the builder
\* produces a Legend; extraction never fails, and only file-system errors
\* abort a run.  Under weak fairness (one synchronous loop, nothing else
\* competes for it) createMasterLegend eventually returns its legend.  The
\* push on an inherited `legend.dependencies[dep]` (an include named like
\* an Object.prototype member) throws instead.
LegendReturns == <>(pc = "done")

\* What the builder promises (LegendSpec): the legend it returns is the
\* batch definition of the Legend over the analyzed files.
EmptyLegend == [boxes |-> EmptyObject, categories |-> EmptyObject,
                dependencies |-> EmptyObject]

Abstract == INSTANCE LegendSpec
                WITH BoxOf <- MakeBox,
                     returned <- pc = "done",
                     legend <- IF pc = "done"
                               THEN [boxes |-> boxes, categories |-> categories,
                                     dependencies |-> dependencies]
                               ELSE EmptyLegend

\* The incremental loop refines the one-step batch construction.
ImplementsLegendSpec == Abstract!Spec
=============================================================================
