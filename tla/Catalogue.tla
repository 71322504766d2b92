------------------------------- MODULE Catalogue -------------------------------
(***************************************************************************)
(* The catalogue in DuckDB and everything that writes it side by side: the *)
(* recipe, mark-made, meal-plan, pantry, page, block and draft routes      *)
(* (http.rs), and the cookbook jobs that read an import's pages, work on   *)
(* that copy for minutes or hours, and then replace the import's graph in  *)
(* one transaction (duckdb_write.rs).                                      *)
(*                                                                         *)
(* A store operation holds the connection's mutex from its first to its    *)
(* last statement, so it is one action; between the Load and the Commit of *)
(* a run anything may happen.  How a run is started, cancelled and         *)
(* reported is ImportJobs; here it loads, and commits or not.  All imports *)
(* belong to one cookbook.                                                 *)
(***************************************************************************)
EXTENDS Naturals, FiniteSets, Sequences, SequencesExt

CONSTANTS
    Imports,     \* cookbook import ids
    Pages,       \* page ids, over all imports
    PageImport,  \* the import each page belongs to
    Slots,       \* what follows the kind in the id of a section or a block
    Recipes,     \* recipe ids: slugs of titles, shared by everyone
    Drafts,      \* recipe import (draft) ids
    Runs,        \* identities of the runs of import jobs; each is used once
    NoRun,       \* no run
    NoImport,    \* no import
    ByUser,      \* written by a route, not by a run
    MaxMade      \* bound: cook-log entries of one recipe

ASSUME CatalogueAssumption ==
    /\ PageImport \in [Pages -> Imports]
    /\ NoRun \notin Runs
    /\ ByUser \notin Runs
    /\ NoImport \notin Imports
    /\ MaxMade \in Nat

VARIABLES
    recipes,   \* the recipes table: what is known of each id, or Absent
    cooked,    \* rows of cook_log_entries for each recipe id
    leftovers, \* leftover rows of pantry_items for each recipe id
    planned,   \* recipe ids named by meal_plan_entries
    drafts,    \* the recipe_imports table
    pages,     \* OCR text and review status of cookbook_pages
    sections,  \* cookbook_sections: the run that wrote each id, or NoRun
    blocks,    \* cookbook_content_blocks: who wrote each id last, or NoRun
    status,    \* cookbook_imports.status
    last,      \* history: the run that committed last for each import
    phase,     \* "idle", "loaded" or "done"
    job,       \* the import of a run
    refresh,   \* whether the run was asked to refresh OCR
    copy       \* the pages as the run loaded them

libraryVars == <<recipes, cooked, leftovers, planned>>
sourceVars  == <<pages, sections, blocks, status, last>>
runVars     == <<phase, job, refresh, copy>>
vars == <<libraryVars, drafts, sourceVars, runVars>>

\* "" is no text; "ocr" came from OCR and "edited" from a user.
Text   == {"", "ocr", "edited"}
Review == {"pending", "accepted", "needs_crop", "needs_ocr_fix", "ignored"}
Page   == [text : Text, review : Review]
NoText == [text |-> "", review |-> "pending"]

\* from: the import whose generated ids source_block_id matches; by: who wrote
\* the row last; made: times_made.
Recipe == [from : Imports \cup {NoImport}, by : Runs \cup {ByUser}, made : Nat]
Absent == [by |-> NoRun]
Draft  == [status : {"draft_ready", "committed"}, recipe : Recipes]
NoDraft == [status |-> "none"]

Present(s) == recipes[s] # Absent
PagesOf(i) == {p \in Pages : PageImport[p] = i}

\* The ids of sections and blocks, part after part, where the code joins the
\* parts with hyphens.  An import's id ends in hexadecimal digits (generate_id),
\* so none is the beginning of another's id and a hyphen.
SectionId(i, n)  == <<i, "section", n>>
BlockId(i, k, n) == <<i, k, n>>

\* The block of an accepted page: <page>-content, the page being
\* <import>-page-<index>.
AcceptedId(p) == <<PageImport[p], "page", p, "content">>

\* A page's text becomes a "block", what the pipeline found beside the recipes
\* a "context".
Kinds == {"block", "context"}

SectionIds   == {SectionId(i, n) : i \in Imports, n \in Slots}
GeneratedIds == {BlockId(i, k, n) : i \in Imports, k \in Kinds, n \in Slots}
BlockIds     == GeneratedIds \cup {AcceptedId(p) : p \in Pages}

\* SQL's id like '<pattern>-%'.
Like(id, pattern) == IsPrefix(pattern, id)

TypeOK ==
    /\ recipes \in [Recipes -> Recipe \cup {Absent}]
    /\ cooked \in [Recipes -> Nat]
    /\ leftovers \in [Recipes -> Nat]
    /\ planned \in SUBSET Recipes
    /\ drafts \in [Drafts -> Draft \cup {NoDraft}]
    /\ pages \in [Pages -> Page]
    /\ sections \in [SectionIds -> Runs \cup {NoRun}]
    /\ blocks \in [BlockIds -> Runs \cup {NoRun, ByUser}]
    /\ status \in [Imports -> {"uploaded", "ocr_ready", "mapped", "committed"}]
    /\ last \in [Imports -> Runs \cup {NoRun}]
    /\ phase \in [Runs -> {"idle", "loaded", "done"}]
    /\ job \in [Runs -> Imports \cup {NoImport}]
    /\ refresh \in [Runs -> BOOLEAN]
    /\ copy \in [Runs -> [Pages -> Page]]

\* The imports have just been uploaded.
Init ==
    /\ recipes = [s \in Recipes |-> Absent]
    /\ cooked = [s \in Recipes |-> 0]
    /\ leftovers = [s \in Recipes |-> 0]
    /\ planned = {}
    /\ drafts = [d \in Drafts |-> NoDraft]
    /\ pages = [p \in Pages |-> NoText]
    /\ sections = [id \in SectionIds |-> NoRun]
    /\ blocks = [id \in BlockIds |-> NoRun]
    /\ status = [i \in Imports |-> "uploaded"]
    /\ last = [i \in Imports |-> NoRun]
    /\ phase = [r \in Runs |-> "idle"]
    /\ job = [r \in Runs |-> NoImport]
    /\ refresh = [r \in Runs |-> FALSE]
    /\ copy = [r \in Runs |-> [p \in Pages |-> NoText]]

-----------------------------------------------------------------------------
(* The helpers of duckdb_write.rs                                          *)

\* times_made of the row that is there, or what the writer brought.
MadeOr(s, m) == IF Present(s) THEN recipes[s].made ELSE m

\* insert or replace of one recipe.
UpsertRecipe(s, f, w, m) ==
    recipes' = [recipes EXCEPT ![s] = [from |-> f, by |-> w, made |-> m]]

\* Variant: the meal plan keeps its entries.
DeleteRecipesOnly(S) ==
    /\ recipes' = [s \in Recipes |-> IF s \in S THEN Absent ELSE recipes[s]]
    /\ UNCHANGED <<cooked, leftovers, planned>>

\* Variant: the cook log of a deleted recipe goes with it.
DeleteRecipesAndHistory(S) ==
    /\ recipes' = [s \in Recipes |-> IF s \in S THEN Absent ELSE recipes[s]]
    /\ planned' = planned \ S
    /\ cooked' = [s \in Recipes |-> IF s \in S THEN 0 ELSE cooked[s]]
    /\ UNCHANGED leftovers

\* delete_recipe_rows for a set of ids: the meal plan is cleaned too, the cook
\* log and the pantry keep their history.
DeleteRecipes(S) ==
    /\ recipes' = [s \in Recipes |-> IF s \in S THEN Absent ELSE recipes[s]]
    /\ planned' = planned \ S
    /\ UNCHANGED <<cooked, leftovers>>

-----------------------------------------------------------------------------
(* Recipes, the meal plan and the pantry                                   *)

\* POST /api/recipes: an id that exists is a conflict.  Source_block_id and
\* the times made come with the request.
CreateRecipe(s, f, m) ==
    /\ ~Present(s)
    /\ UpsertRecipe(s, f, ByUser, m)
    /\ UNCHANGED <<cooked, leftovers, planned, drafts, sourceVars, runVars>>

\* PUT /api/recipes/:id: source_block_id comes with the request again, the
\* times made do not.
UpdateRecipe(s, f, m) ==
    /\ Present(s)
    /\ UpsertRecipe(s, f, ByUser, MadeOr(s, m))
    /\ UNCHANGED <<cooked, leftovers, planned, drafts, sourceVars, runVars>>

DeleteRecipe(s) ==
    /\ Present(s)
    /\ DeleteRecipes({s})
    /\ UNCHANGED <<drafts, sourceVars, runVars>>

\* POST /api/recipes/:id/made
MarkMade(s, left) ==
    /\ Present(s)
    /\ cooked[s] < MaxMade
    /\ UpsertRecipe(s, recipes[s].from, recipes[s].by, recipes[s].made + 1)
    /\ cooked' = [cooked EXCEPT ![s] = @ + 1]
    /\ leftovers' = [leftovers EXCEPT ![s] = IF left THEN @ + 1 ELSE @]
    /\ UNCHANGED <<planned, drafts, sourceVars, runVars>>

\* DELETE /api/pantry/:id of a leftover.
EatLeftover(s) ==
    /\ leftovers[s] > 0
    /\ leftovers' = [leftovers EXCEPT ![s] = @ - 1]
    /\ UNCHANGED <<recipes, cooked, planned, drafts, sourceVars, runVars>>

\* POST /api/meal-plan does not look for the recipe.
PlanMeal(s) ==
    /\ planned' = planned \cup {s}
    /\ UNCHANGED <<recipes, cooked, leftovers, drafts, sourceVars, runVars>>

UnplanMeal(s) ==
    /\ planned' = planned \ {s}
    /\ UNCHANGED <<recipes, cooked, leftovers, drafts, sourceVars, runVars>>

-----------------------------------------------------------------------------
(* Recipe drafts                                                           *)

CreateDraft(d, s) ==
    /\ drafts[d] = NoDraft
    /\ drafts' = [drafts EXCEPT ![d] = [status |-> "draft_ready", recipe |-> s]]
    /\ UNCHANGED <<libraryVars, sourceVars, runVars>>

\* A committed draft can be edited: it is ready to be committed again.
UpdateDraft(d, s) ==
    /\ drafts[d] # NoDraft
    /\ drafts' = [drafts EXCEPT ![d] = [status |-> "draft_ready", recipe |-> s]]
    /\ UNCHANGED <<libraryVars, sourceVars, runVars>>

\* Variant: the draft is marked before its recipe is validated.
CommitDraftUnvalidated(d, s, f, m) ==
    /\ drafts[d] # NoDraft
    /\ drafts' = [drafts EXCEPT ![d] = [status |-> "committed", recipe |-> s]]
    /\ \/ UpsertRecipe(s, f, ByUser, MadeOr(s, m))
       \/ UNCHANGED recipes
    /\ UNCHANGED <<cooked, leftovers, planned, sourceVars, runVars>>

\* POST /api/imports/:id/commit: the recipe and the draft in one transaction;
\* the request brings the draft as the user left it.
CommitDraft(d, s, f, m) ==
    /\ drafts[d] # NoDraft
    /\ drafts' = [drafts EXCEPT ![d] = [status |-> "committed", recipe |-> s]]
    /\ UpsertRecipe(s, f, ByUser, MadeOr(s, m))
    /\ UNCHANGED <<cooked, leftovers, planned, sourceVars, runVars>>

-----------------------------------------------------------------------------
(* Review of pages and blocks                                              *)

\* PATCH /api/cookbook-pages/:id; each field is optional.
PatchPage(p, t, v) ==
    /\ pages' = [pages EXCEPT ![p] = [text |-> t, review |-> v]]
    /\ UNCHANGED <<libraryVars, drafts, sections, blocks, status, last, runVars>>

\* POST /api/cookbook-pages/:id/accept-content: a block of the page's text.
AcceptPage(p) ==
    /\ pages[p].text # ""
    /\ blocks[AcceptedId(p)] = NoRun
    /\ blocks' = [blocks EXCEPT ![AcceptedId(p)] = ByUser]
    /\ pages' = [pages EXCEPT ![p] = [text |-> pages[p].text, review |-> "accepted"]]
    /\ UNCHANGED <<libraryVars, drafts, sections, status, last, runVars>>

\* PATCH /api/cookbook-content-blocks/:id: the block keeps its id, so one that
\* was generated still counts as such.
PatchBlock(id) ==
    /\ blocks[id] # NoRun
    /\ blocks' = [blocks EXCEPT ![id] = ByUser]
    /\ UNCHANGED <<libraryVars, drafts, pages, sections, status, last, runVars>>

-----------------------------------------------------------------------------
(* Import runs                                                             *)

\* cookbook_pipeline_source: one read of the import with its pages.
Load(r, i, anew) ==
    /\ phase[r] = "idle"
    /\ PagesOf(i) # {}
    /\ phase' = [phase EXCEPT ![r] = "loaded"]
    /\ job' = [job EXCEPT ![r] = i]
    /\ refresh' = [refresh EXCEPT ![r] = anew]
    /\ copy' = [copy EXCEPT ![r] = pages]
    /\ UNCHANGED <<libraryVars, drafts, sourceVars>>

\* The run ends without a commit: it failed, was cancelled, or its transaction
\* was rolled back.
GiveUp(r) ==
    /\ phase[r] = "loaded"
    /\ phase' = [phase EXCEPT ![r] = "done"]
    /\ copy' = [copy EXCEPT ![r] = [p \in Pages |-> NoText]]
    /\ UNCHANGED <<libraryVars, drafts, sourceVars, job, refresh>>

\* Variant: every page goes to OCR.
PendingEveryPage(r, p) == TRUE

\* run_page_ocr: the pages that go to OCR; the others are skipped.
Pending(r, p) == refresh[r] \/ copy[r][p].text = ""

\* What a page of the run's copy can have become.
Processed(r, p) ==
    IF ~Pending(r, p)
    THEN {copy[r][p]}
    ELSE {[text |-> "ocr", review |-> "pending"],
          [text |-> "", review |-> "needs_ocr_fix"],
          [text |-> copy[r][p].text, review |-> "needs_ocr_fix"]}

\* The recipes that earlier runs generated for the import.
Generated(i) == {s \in Recipes : Present(s) /\ recipes[s].from = i}

\* Variant: an earlier run's recipes stay.
ReplaceRecipesOnly(r, good, bad) ==
    /\ recipes' = [s \in Recipes |->
                     IF s \in good
                     THEN [from |-> job[r], by |-> r, made |-> MadeOr(s, 0)]
                     ELSE IF s \in bad THEN Absent ELSE recipes[s]]
    /\ planned' = planned \ bad
    /\ UNCHANGED <<cooked, leftovers>>

\* Variant: normalize_recipes' zero is what is stored.
ReplaceRecipesAnew(r, good, bad) ==
    LET gone == bad \cup (Generated(job[r]) \ good)
    IN  /\ recipes' = [s \in Recipes |->
                         IF s \in good
                         THEN [from |-> job[r], by |-> r, made |-> 0]
                         ELSE IF s \in gone THEN Absent ELSE recipes[s]]
        /\ planned' = planned \ gone
        /\ UNCHANGED <<cooked, leftovers>>

\* Extracted recipes replace whatever has their id and keep its times made;
\* one that cannot be written is deleted, the import's other generated recipes
\* are stale.
ReplaceRecipes(r, good, bad) ==
    LET gone == bad \cup (Generated(job[r]) \ good)
    IN  /\ recipes' = [s \in Recipes |->
                         IF s \in good
                         THEN [from |-> job[r], by |-> r, made |-> MadeOr(s, 0)]
                         ELSE IF s \in gone THEN Absent ELSE recipes[s]]
        /\ planned' = planned \ gone
        /\ UNCHANGED <<cooked, leftovers>>

\* Variant: rows that the new graph does not name are left.
ReplacedKeepingStale(table, patterns, new, r) ==
    [id \in DOMAIN table |-> IF id \in new THEN r ELSE table[id]]

\* The rows whose id is like a pattern are deleted, then the new ones inserted
\* or replaced.
Replaced(table, patterns, new, r) ==
    [id \in DOMAIN table |->
        IF id \in new THEN r
        ELSE IF \E pattern \in patterns : Like(id, pattern) THEN NoRun
        ELSE table[id]]

\* Variant: everything that has the import's id in front counts as generated.
EveryBlockPattern(i) == {<<i>>}

SectionPatterns(i) == {<<i, "section">>}
BlockPatterns(i)   == {<<i, "block">>, <<i, "context">>}

\* The status that the extracted graph gives the import.
StatusOf(found, secs, blks) ==
    CASE found # {} -> "committed"
      [] found = {} /\ (secs # {} \/ blks # {}) -> "mapped"
      [] OTHER -> "ocr_ready"

\* persist_cookbook_pipeline of the recipes that can be written and those that
\* cannot, the sections and the blocks.  A run none of whose pages has a text
\* or an answer never gets here (OcrProducedNoText).
Commit(r, good, bad, secs, blks) ==
    LET i == job[r]
    IN  /\ phase[r] = "loaded"
        /\ \E become \in [PagesOf(i) -> Page] :
             /\ \A p \in PagesOf(i) : become[p] \in Processed(r, p)
             /\ \E p \in PagesOf(i) : \/ ~Pending(r, p)
                                      \/ become[p].review = "pending"
                                      \/ become[p].text = ""
             /\ pages' = [p \in Pages |->
                            IF p \in PagesOf(i) THEN become[p] ELSE pages[p]]
        /\ ReplaceRecipes(r, good, bad)
        /\ sections' = Replaced(sections, SectionPatterns(i), secs, r)
        /\ blocks' = Replaced(blocks, BlockPatterns(i), blks, r)
        /\ status' = [status EXCEPT ![i] = StatusOf(good \cup bad, secs, blks)]
        /\ last' = [last EXCEPT ![i] = r]
        /\ phase' = [phase EXCEPT ![r] = "done"]
        /\ copy' = [copy EXCEPT ![r] = [p \in Pages |-> NoText]]
        /\ UNCHANGED <<drafts, job, refresh>>

-----------------------------------------------------------------------------
RecipeRoutes ==
    \E s \in Recipes, m \in 0 .. MaxMade :
        \/ \E f \in Imports \cup {NoImport} : CreateRecipe(s, f, m) \/ UpdateRecipe(s, f, m)
        \/ DeleteRecipe(s)
        \/ \E left \in BOOLEAN : MarkMade(s, left)

PantryRoutes == \E s \in Recipes : EatLeftover(s)

MealPlanRoutes == \E s \in Recipes : PlanMeal(s) \/ UnplanMeal(s)

DraftRoutes ==
    \E d \in Drafts, s \in Recipes, m \in 0 .. MaxMade :
        \/ CreateDraft(d, s) \/ UpdateDraft(d, s)
        \/ \E f \in Imports \cup {NoImport} : CommitDraft(d, s, f, m)

ReviewRoutes(p) ==
    \/ \E t \in {pages[p].text, "edited", ""}, v \in Review : PatchPage(p, t, v)
    \/ AcceptPage(p)

BlockRoutes == \E id \in BlockIds : PatchBlock(id)

\* What a run of the import can extract.
SectionsOf(i) == {SectionId(i, n) : n \in Slots}
BlocksOf(i)   == {BlockId(i, k, n) : k \in Kinds, n \in Slots}

RunSteps(r, i) ==
    \/ \E anew \in BOOLEAN : Load(r, i, anew)
    \/ GiveUp(r)
    \/ \E good \in SUBSET Recipes, secs \in SUBSET SectionsOf(job[r]),
          blks \in SUBSET BlocksOf(job[r]) :
          \E bad \in SUBSET (Recipes \ good) : Commit(r, good, bad, secs, blks)

Next ==
    \/ RecipeRoutes \/ PantryRoutes \/ MealPlanRoutes
    \/ DraftRoutes
    \/ \E p \in Pages : ReviewRoutes(p)
    \/ BlockRoutes
    \/ \E r \in Runs, i \in Imports : RunSteps(r, i)

Spec == Init /\ [][Next]_vars

-----------------------------------------------------------------------------
(* Properties                                                              *)

\* A run commits in this step.
Commits(r) == phase[r] = "loaded" /\ last'[job[r]] = r

\* What an import generated is one run's work: its sections and the blocks and
\* recipes no user has touched since all stem from the run that committed last,
\* however many runs of it were under way together ("atomic replacement of
\* generated sections, blocks, and recipes").
GraphIsOneRun ==
    /\ \A i \in Imports, n \in Slots :
         /\ sections[SectionId(i, n)] \in {last[i], NoRun}
         /\ \A k \in Kinds : blocks[BlockId(i, k, n)] \in {last[i], NoRun, ByUser}
    /\ \A s \in Recipes : recipes[s].by \in Runs => recipes[s].by = last[recipes[s].from]

\* An import that is not "committed" has no generated recipe: the status
\* persist_cookbook_pipeline computes from what was extracted agrees with the
\* rows it leaves behind.
StatusTellsRecipes ==
    \A s \in Recipes : recipes[s].by \in Runs => status[recipes[s].from] = "committed"

\* While a recipe row exists its times_made moves only with its cook log: no
\* update, draft commit or regeneration, whose recipes all come with a number
\* of their own, sets it back or forward.
MadeTracksCookLog ==
    [][\A s \in Recipes :
         Present(s) /\ Present(s)' =>
            recipes'[s].made + cooked[s] = recipes[s].made + cooked'[s]]_vars

\* The cook log only grows, and no change of the recipes takes a leftover away
\* ("preservation of historical cook-log/pantry references").
HistoryKept ==
    [][\A s \in Recipes :
         /\ cooked'[s] >= cooked[s]
         /\ leftovers'[s] < leftovers[s] => recipes' = recipes]_vars

\* Whatever removes a recipe (its route, a run that finds it stale, a run that
\* could not write it) takes it off the meal plan in the same transaction.
DeletedIsUnplanned ==
    [][\A s \in Recipes : Present(s) /\ ~Present(s)' => s \notin planned']_vars

\* A draft becomes committed only together with its recipe.
DraftCommitsRecipe ==
    [][\A d \in Drafts :
         drafts'[d] # drafts[d] /\ drafts'[d].status = "committed" =>
            LET s == drafts'[d].recipe
            IN  recipes'[s] # Absent /\ recipes'[s].by = ByUser]_vars

\* Content a user accepted from a page stays the user's, whichever import's
\* runs replace what they generated: what a run deletes is found by patterns
\* over ids, and what it writes by the ids it builds, and neither must meet the
\* id of an accepted block.
AcceptedContentKept ==
    [][\A p \in Pages :
         blocks[AcceptedId(p)] # NoRun => blocks'[AcceptedId(p)] = ByUser]_vars

\* A text a user edited is replaced by the user, by a run asked to refresh
\* OCR, or by a run that had read the page before the edit: a run that starts
\* after it without a refresh skips the page.
EditsOutliveLaterRuns ==
    [][\A p \in Pages :
         pages[p].text = "edited" /\ pages'[p].text # "edited" =>
            \A r \in Runs : Commits(r) => refresh[r] \/ copy[r][p].text # "edited"]_vars

\* A run replaces and removes only rows generated for its own import
\* (docs/pipeline-test-strategy.md: "stale import rows removed only for the
\* target import").
RunsTouchOwnRecipes ==
    [][\A s \in Recipes, r \in Runs :
         Present(s) /\ recipes'[s] # recipes[s] /\ Commits(r) =>
            recipes[s].from = job[r]]_vars

=============================================================================
