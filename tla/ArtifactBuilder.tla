---------------------------- MODULE ArtifactBuilder ----------------------------
(***************************************************************************)
(* Steps 3 to 6 of main() in src/create-knowledge-graph.js, composed with  *)
(* the Legend Builder (step 4):                                            *)
(*   3. the embedding loop: for each analyzed file, in discovery order,    *)
(*      embeddings[generateBoxId(file)] = generateEmbedding(aiContext +    *)
(*      excerpt of that file);                                             *)
(*   4. createMasterLegend (LegendBuilder's AddBox and Return);            *)
(*   5. createSearchIndex: for each [boxId, embedding] of embeddings, a    *)
(*      vector holding the embedding and legend.boxes[boxId]'s path,       *)
(*      category and description;                                          *)
(*   6. generateErrorTemplates: one template per entry of legend.boxes;    *)
(*   8. generateSummary, after the four JSON writes of step 7 (module      *)
(*      Pipeline): the counts, the category breakdown and the key boxes   *)
(*      of KNOWLEDGE_GRAPH_SUMMARY.md, without their Markdown layout.      *)
(*                                                                         *)
(* An embedding is a deterministic function of the file's text; it is      *)
(* represented by the path of the file it was computed from (`source`).    *)
(* The 100 ms delay of generateEmbedding orders nothing and is left out.   *)
(***************************************************************************)
EXTENDS LegendBuilder

CONSTANT SummaryShown  \* ids listed per category in the summary (the code's 5)

VARIABLES
    eNext,        \* index of the embedding loop's current file
    embeddings,   \* box id -> [source]: the embeddings object
    searchIndex,  \* box id -> [embedding, boxPath, category]: index.vectors
    templates,    \* box id -> [boxPath, definition]: templates.templates
    summary,      \* [stats, sections, keyBoxes]: what the summary reports
    stage         \* "embed", "legend", "search", "templates", "summary",
                  \* "done", "crashed"

artVars == <<eNext, embeddings, searchIndex, templates, summary, stage>>

\* The summary before generateSummary has run.
NoSummary == [stats |-> [boxes |-> 0, categories |-> 0, embeddings |-> 0,
                         templates |-> 0],
              sections |-> <<>>, keyBoxes |-> <<>>]
allVars == <<vars, artVars>>

ArtTypeOK ==
    /\ TypeOK
    /\ eNext \in 1..Len(analyzedFiles) + 1
    /\ stage \in {"embed", "legend", "search", "templates", "summary", "done",
                  "crashed"}
    /\ OwnKeys(embeddings) \subseteq BoxIds
    /\ OwnKeys(searchIndex) \subseteq BoxIds
    /\ OwnKeys(templates) \subseteq BoxIds

ArtInit ==
    /\ Init
    /\ eNext = 1
    /\ embeddings = EmptyObject
    /\ searchIndex = EmptyObject
    /\ templates = EmptyObject
    /\ summary = NoSummary
    /\ stage = "embed"

\* Bug variant of EmbedFile, used as a mutant: an id that already has an
\* embedding is skipped, as a cache of the slow embedding call would do.
EmbedFileOnce ==
    /\ stage = "embed"
    /\ eNext <= Len(analyzedFiles)
    /\ LET file == analyzedFiles[eNext]
           boxId == BoxIdOf(file.path.base)
       IN  embeddings' = IF HasOwn(embeddings, boxId) THEN embeddings
                         ELSE Put(embeddings, boxId, [source |-> file.path])
    /\ eNext' = eNext + 1
    /\ UNCHANGED <<vars, searchIndex, templates, summary, stage>>

\* One iteration of the step-3 loop: generateBoxId, then generateEmbedding
\* of `${file.aiContext}\n\n${file.excerpt}`, stored under the id.
EmbedFile ==
    /\ stage = "embed"
    /\ eNext <= Len(analyzedFiles)
    /\ LET file == analyzedFiles[eNext]
       IN  embeddings' = Put(embeddings, BoxIdOf(file.path.base),
                             [source |-> file.path])
    /\ eNext' = eNext + 1
    /\ UNCHANGED <<vars, searchIndex, templates, summary, stage>>

EmbeddingsDone ==
    /\ stage = "embed"
    /\ eNext > Len(analyzedFiles)
    /\ stage' = "legend"
    /\ UNCHANGED <<vars, eNext, embeddings, searchIndex, templates, summary>>

\* Step 4, the Legend Builder's own steps.  A TypeError in the loop
\* reaches main's catch, which ends the run.
BuildLegend ==
    /\ stage = "legend"
    /\ \/ AddBox /\ stage' = IF pc' = "crashed" THEN "crashed" ELSE stage
       \/ Return /\ stage' = "search"
    /\ UNCHANGED <<eNext, embeddings, searchIndex, templates, summary>>

\* Step 5: createSearchIndex(legend, embeddings).  Every embedding is a
\* truthy object with a vector, so every entry is kept; reading
\* legend.boxes[boxId].path of an id with no box would throw.
CreateSearchIndex ==
    /\ stage = "search"
    /\ IF OwnKeys(embeddings) \subseteq OwnKeys(boxes)
       THEN /\ searchIndex' =
                 [keys |-> embeddings.keys,
                  val  |-> [id \in OwnKeys(embeddings) |->
                              [embedding |-> Get(embeddings, id).source,
                               boxPath   |-> Get(boxes, id).path,
                               category  |-> Get(boxes, id).category]]]
            /\ stage' = "templates"
       ELSE /\ stage' = "crashed"
            /\ UNCHANGED searchIndex
    /\ UNCHANGED <<vars, eNext, embeddings, templates, summary>>

\* Step 6: generateErrorTemplates(legend), one template per box; its text
\* fields (definition, purpose, contract, repairPrompt) come from the box.
GenerateErrorTemplates ==
    /\ stage = "templates"
    /\ templates' = [keys |-> boxes.keys,
                     val  |-> [id \in OwnKeys(boxes) |->
                                 [boxPath |-> Get(boxes, id).path,
                                  definition |-> Get(boxes, id).path]]]
    /\ stage' = "summary"
    /\ UNCHANGED <<vars, eNext, embeddings, searchIndex, summary>>

\* `const keyBoxes = [...]` of generateSummary.
KeyBoxList == <<"ScriptBox", "MainBox", "InitBox", "BitcoinrpcBox", "WalletBox">>

\* `if (legend.boxes[boxId])`: none of the key names is inherited.
KeyBoxGuard(id) == HasOwn(boxes, id)

\* The "... (n more)" count of a category listing these ids.
MoreCount(ids) == IF Len(ids) > SummaryShown THEN Len(ids) - SummaryShown ELSE 0

\* One `### category` section: the count, `boxes.slice(0, 5)`, the rest.
Section(c) ==
    LET ids == Get(categories, c)
    IN  [category |-> c, count |-> Len(ids),
         shown |-> SubSeq(ids, 1, IF Len(ids) < SummaryShown THEN Len(ids)
                                  ELSE SummaryShown),
         more |-> MoreCount(ids)]

\* Step 8: generateSummary(legend, searchIndex, errorTemplates).  A key id
\* the guard lets through without a box would throw on `box.path`.
GenerateSummary ==
    /\ stage = "summary"
    /\ LET listed == SelectSeq(KeyBoxList, LAMBDA id : KeyBoxGuard(id))
       IN  IF \A i \in DOMAIN listed : HasOwn(boxes, listed[i])
           THEN /\ summary' =
                     [stats |-> [boxes |-> Cardinality(OwnKeys(boxes)),
                                 categories |-> Len(categories.keys),
                                 embeddings |-> Cardinality(OwnKeys(searchIndex)),
                                 templates |-> Cardinality(OwnKeys(templates))],
                      sections |-> [i \in DOMAIN categories.keys |->
                                      Section(categories.keys[i])],
                      keyBoxes |-> listed]
                /\ stage' = "done"
           ELSE /\ stage' = "crashed"
                /\ UNCHANGED summary
    /\ UNCHANGED <<vars, eNext, embeddings, searchIndex, templates>>

ArtNext ==
    \/ EmbedFile \/ EmbeddingsDone \/ BuildLegend
    \/ CreateSearchIndex \/ GenerateErrorTemplates \/ GenerateSummary

ArtSpec == ArtInit /\ [][ArtNext]_allVars

-----------------------------------------------------------------------------
\* Spec sections 3 and 4.4: the search index, the embeddings and the error
\* templates are views of the legend: one entry per box, in the registry's
\* key order, and the vector stored under a box id is the embedding of the
\* very file whose path and category it lists.  With colliding ids the
\* embedding loop and the legend loop must both keep the last file.
DerivedViewsMatchLegend ==
    (stage = "done") =>
        /\ embeddings.keys = boxes.keys
        /\ searchIndex.keys = boxes.keys
        /\ templates.keys = boxes.keys
        /\ \A id \in OwnKeys(boxes) :
              /\ Get(searchIndex, id).embedding = Get(boxes, id).path
              /\ Get(searchIndex, id).boxPath = Get(boxes, id).path
              /\ Get(templates, id).boxPath = Get(boxes, id).path

=============================================================================
