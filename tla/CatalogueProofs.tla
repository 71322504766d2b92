--------------------------- MODULE CatalogueProofs ---------------------------
(***************************************************************************)
(* Proofs about Catalogue, for any number of imports, pages, recipes,      *)
(* drafts and runs, and whatever the users do.                             *)
(***************************************************************************)
EXTENDS Catalogue, TLAPS

\* A run that has loaded has its import, and so has a row a run wrote; a run
\* that has committed is over.
Placed ==
    /\ \A r \in Runs : phase[r] # "idle" => job[r] \in Imports
    /\ \A s \in Recipes : recipes[s].by \in Runs => recipes[s].from \in Imports
    /\ \A i \in Imports : last[i] \in Runs => phase[last[i]] = "done"

TypeInv == TypeOK /\ Placed

-----------------------------------------------------------------------------
(* The routes.  A route's step on the library changes rows of the recipes  *)
(* table to rows of a user, or keeps who wrote them.                       *)

\* What becomes of a row of the recipes table in a step that is not a run's.
RouteRow(s) ==
    \/ recipes'[s] = recipes[s] /\ cooked'[s] = cooked[s]
    \/ recipes'[s] = Absent /\ s \notin planned' /\ cooked'[s] = cooked[s]
    \/ /\ recipes'[s] \in Recipe /\ recipes'[s].by = ByUser
       /\ Present(s) => recipes'[s].made = recipes[s].made
       /\ cooked'[s] = cooked[s]
    \/ /\ Present(s) /\ recipes'[s] \in Recipe
       /\ recipes'[s].by = recipes[s].by
       /\ recipes'[s].from = recipes[s].from
       /\ recipes'[s].made = recipes[s].made + 1
       /\ cooked'[s] = cooked[s] + 1

LibraryTypes ==
    /\ recipes' \in [Recipes -> Recipe \cup {Absent}]
    /\ cooked' \in [Recipes -> Nat]
    /\ leftovers' \in [Recipes -> Nat]
    /\ planned' \in SUBSET Recipes
    /\ drafts' \in [Drafts -> Draft \cup {NoDraft}]

LibraryStep ==
    /\ LibraryTypes
    /\ \A s \in Recipes : RouteRow(s)
    /\ \A s \in Recipes : leftovers'[s] < leftovers[s] => recipes' = recipes
    /\ UNCHANGED <<sourceVars, runVars>>

LEMMA LibraryTyped ==
    ASSUME TypeInv
    PROVE  /\ recipes \in [Recipes -> Recipe \cup {Absent}]
           /\ cooked \in [Recipes -> Nat]
           /\ leftovers \in [Recipes -> Nat]
           /\ planned \in SUBSET Recipes
           /\ drafts \in [Drafts -> Draft \cup {NoDraft}]
BY DEF TypeInv, TypeOK

LEMMA RecipeShape ==
    ASSUME TypeInv, NEW s \in Recipes
    PROVE  /\ Present(s) => /\ recipes[s] \in Recipe
                            /\ recipes[s].made \in Nat
                            /\ recipes[s].from \in Imports \cup {NoImport}
                            /\ recipes[s].by \in Runs \cup {ByUser}
           /\ ~Present(s) => recipes[s] = Absent /\ recipes[s].by = NoRun
           /\ recipes[s].by \in Runs => Present(s)
<1> USE CatalogueAssumption
<1>1. recipes[s] \in Recipe \cup {Absent}
  BY LibraryTyped
<1>2. ~Present(s) => recipes[s] = Absent /\ recipes[s].by = NoRun
  BY DEF Present, Absent
<1>3. Present(s) => recipes[s] \in Recipe
  BY <1>1 DEF Present
<1>4. \A x \in Recipe : /\ x.made \in Nat /\ x.from \in Imports \cup {NoImport}
                        /\ x.by \in Runs \cup {ByUser}
  BY DEF Recipe
<1> QED
  BY <1>2, <1>3, <1>4

\* One row written, with a number of its own.
LEMMA RecipeMade ==
    ASSUME NEW f \in Imports \cup {NoImport}, NEW w \in Runs \cup {ByUser}, NEW m \in Nat
    PROVE  LET x == [from |-> f, by |-> w, made |-> m]
           IN  x \in Recipe /\ x.from = f /\ x.by = w /\ x.made = m
BY DEF Recipe

LEMMA UpsertOneRow ==
    ASSUME TypeInv, NEW s \in Recipes, NEW f \in Imports \cup {NoImport},
           NEW w \in Runs \cup {ByUser}, NEW m \in Nat, UpsertRecipe(s, f, w, m)
    PROVE  /\ recipes' \in [Recipes -> Recipe \cup {Absent}]
           /\ recipes'[s] \in Recipe /\ recipes'[s].from = f
           /\ recipes'[s].by = w /\ recipes'[s].made = m
           /\ \A t \in Recipes : t # s => recipes'[t] = recipes[t]
<1> DEFINE new == [from |-> f, by |-> w, made |-> m]
<1>1. new \in Recipe /\ new.from = f /\ new.by = w /\ new.made = m
  BY RecipeMade
<1>2. recipes' = [recipes EXCEPT ![s] = new]
  BY DEF UpsertRecipe
<1> HIDE DEF new
<1> QED
  BY <1>1, <1>2, LibraryTyped

LEMMA UpsertIsLibraryStep ==
    ASSUME TypeInv, NEW s \in Recipes, NEW f \in Imports \cup {NoImport}, NEW m \in Nat,
           UpsertRecipe(s, f, ByUser, m), Present(s) => m = recipes[s].made,
           drafts' \in [Drafts -> Draft \cup {NoDraft}],
           UNCHANGED <<cooked, leftovers, planned, sourceVars, runVars>>
    PROVE  LibraryStep
<1>1. /\ recipes' \in [Recipes -> Recipe \cup {Absent}]
      /\ recipes'[s] \in Recipe /\ recipes'[s].by = ByUser /\ recipes'[s].made = m
      /\ \A t \in Recipes : t # s => recipes'[t] = recipes[t]
  BY UpsertOneRow
<1>2. \A t \in Recipes : RouteRow(t)
  BY <1>1 DEF RouteRow
<1>3. \A t \in Recipes : ~(leftovers[t] < leftovers[t])
  BY LibraryTyped
<1> QED
  BY <1>1, <1>2, <1>3, LibraryTyped DEF LibraryStep, LibraryTypes

LEMMA DeleteIsLibraryStep ==
    ASSUME TypeInv, NEW s \in Recipes, DeleteRecipe(s)
    PROVE  LibraryStep
<1>1. /\ recipes' = [t \in Recipes |-> IF t \in {s} THEN Absent ELSE recipes[t]]
      /\ planned' = planned \ {s}
      /\ UNCHANGED <<cooked, leftovers, drafts, sourceVars, runVars>>
  BY DEF DeleteRecipe, DeleteRecipes
<1>2. \A t \in Recipes : RouteRow(t)
  BY <1>1 DEF RouteRow
<1>3. \A t \in Recipes : ~(leftovers[t] < leftovers[t])
  BY LibraryTyped
<1>4. recipes' \in [Recipes -> Recipe \cup {Absent}]
  BY <1>1, LibraryTyped
<1> QED
  BY <1>1, <1>2, <1>3, <1>4, LibraryTyped DEF LibraryStep, LibraryTypes

LEMMA MarkIsLibraryStep ==
    ASSUME TypeInv, NEW s \in Recipes, NEW left \in BOOLEAN, MarkMade(s, left)
    PROVE  LibraryStep
<1>1. /\ UpsertRecipe(s, recipes[s].from, recipes[s].by, recipes[s].made + 1)
      /\ cooked' = [cooked EXCEPT ![s] = cooked[s] + 1]
      /\ leftovers' = [leftovers EXCEPT ![s] = IF left THEN leftovers[s] + 1 ELSE leftovers[s]]
      /\ Present(s)
      /\ UNCHANGED <<planned, drafts, sourceVars, runVars>>
  BY DEF MarkMade
<1>2. \A t \in Recipes : cooked[t] \in Nat /\ leftovers[t] \in Nat
  BY LibraryTyped
<1>3. /\ recipes' \in [Recipes -> Recipe \cup {Absent}]
      /\ recipes'[s] \in Recipe /\ recipes'[s].from = recipes[s].from
      /\ recipes'[s].by = recipes[s].by /\ recipes'[s].made = recipes[s].made + 1
      /\ \A t \in Recipes : t # s => recipes'[t] = recipes[t]
  <2>1. /\ recipes[s].from \in Imports \cup {NoImport} /\ recipes[s].by \in Runs \cup {ByUser}
        /\ recipes[s].made + 1 \in Nat
    BY <1>1, RecipeShape
  <2> QED
    BY <1>1, <2>1, UpsertOneRow
<1>4. /\ cooked' \in [Recipes -> Nat] /\ cooked'[s] = cooked[s] + 1
      /\ \A t \in Recipes : t # s => cooked'[t] = cooked[t]
  BY <1>1, <1>2, LibraryTyped
<1>5. \A t \in Recipes : RouteRow(t)
  BY <1>1, <1>3, <1>4 DEF RouteRow
<1>6. /\ leftovers' \in [Recipes -> Nat]
      /\ \A t \in Recipes : ~(leftovers'[t] < leftovers[t])
  BY <1>1, <1>2, LibraryTyped
<1> QED
  BY <1>1, <1>3, <1>4, <1>5, <1>6, LibraryTyped DEF LibraryStep, LibraryTypes

LEMMA RecipeRoutesAreLibrarySteps ==
    ASSUME TypeInv, RecipeRoutes
    PROVE  LibraryStep
<1> USE CatalogueAssumption
<1>1. \A m \in 0 .. MaxMade : m \in Nat
  OBVIOUS
<1>2. PICK s \in Recipes, m \in 0 .. MaxMade :
             \/ \E f \in Imports \cup {NoImport} : CreateRecipe(s, f, m) \/ UpdateRecipe(s, f, m)
             \/ DeleteRecipe(s)
             \/ \E left \in BOOLEAN : MarkMade(s, left)
  BY DEF RecipeRoutes
<1>3. ASSUME NEW f \in Imports \cup {NoImport}, CreateRecipe(s, f, m)
      PROVE  LibraryStep
  BY <1>1, <1>3, UpsertIsLibraryStep, LibraryTyped DEF CreateRecipe
<1>4. ASSUME NEW f \in Imports \cup {NoImport}, UpdateRecipe(s, f, m)
      PROVE  LibraryStep
  <2>1. MadeOr(s, m) = recipes[s].made /\ MadeOr(s, m) \in Nat
    BY <1>4, RecipeShape DEF UpdateRecipe, MadeOr
  <2> QED
    BY <1>4, <2>1, UpsertIsLibraryStep, LibraryTyped DEF UpdateRecipe
<1>5. CASE DeleteRecipe(s)
  BY <1>5, DeleteIsLibraryStep
<1>6. ASSUME NEW left \in BOOLEAN, MarkMade(s, left) PROVE LibraryStep
  BY <1>6, MarkIsLibraryStep
<1> QED
  BY <1>2, <1>3, <1>4, <1>5, <1>6

LEMMA OtherRoutesAreLibrarySteps ==
    ASSUME TypeInv, PantryRoutes \/ MealPlanRoutes
    PROVE  LibraryStep
<1>1. PICK s \in Recipes : EatLeftover(s) \/ PlanMeal(s) \/ UnplanMeal(s)
  BY DEF PantryRoutes, MealPlanRoutes
<1>2. CASE EatLeftover(s)
  <2>1. /\ leftovers' = [leftovers EXCEPT ![s] = leftovers[s] - 1] /\ leftovers[s] > 0
        /\ UNCHANGED <<recipes, cooked, planned, drafts, sourceVars, runVars>>
    BY <1>2 DEF EatLeftover
  <2>2. leftovers[s] - 1 \in Nat
    BY <2>1, LibraryTyped
  <2>3. leftovers' \in [Recipes -> Nat]
    BY <2>1, <2>2, LibraryTyped
  <2> QED
    BY <2>1, <2>3, LibraryTyped DEF LibraryStep, LibraryTypes, RouteRow
<1>3. CASE PlanMeal(s) \/ UnplanMeal(s)
  <2>1. /\ UNCHANGED <<recipes, cooked, leftovers, drafts, sourceVars, runVars>>
        /\ planned' \in SUBSET Recipes
    BY <1>3, LibraryTyped DEF PlanMeal, UnplanMeal
  <2> QED
    BY <2>1, LibraryTyped DEF LibraryStep, LibraryTypes, RouteRow
<1> QED
  BY <1>1, <1>2, <1>3

LEMMA DraftRoutesAreLibrarySteps ==
    ASSUME TypeInv, DraftRoutes
    PROVE  LibraryStep
<1> USE CatalogueAssumption
<1>1. \A m \in 0 .. MaxMade : m \in Nat
  OBVIOUS
<1>2. PICK d \in Drafts, s \in Recipes, m \in 0 .. MaxMade :
             \/ CreateDraft(d, s) \/ UpdateDraft(d, s)
             \/ \E f \in Imports \cup {NoImport} : CommitDraft(d, s, f, m)
  BY DEF DraftRoutes
<1>3. \A st \in {"draft_ready", "committed"} :
         [drafts EXCEPT ![d] = [status |-> st, recipe |-> s]] \in [Drafts -> Draft \cup {NoDraft}]
  BY LibraryTyped DEF Draft
<1>4. CASE CreateDraft(d, s) \/ UpdateDraft(d, s)
  <2>1. drafts' \in [Drafts -> Draft \cup {NoDraft}] /\ UNCHANGED <<libraryVars, sourceVars, runVars>>
    BY <1>3, <1>4 DEF CreateDraft, UpdateDraft
  <2> QED
    BY <2>1, LibraryTyped DEF LibraryStep, LibraryTypes, RouteRow, libraryVars
<1>5. ASSUME NEW f \in Imports \cup {NoImport}, CommitDraft(d, s, f, m)
      PROVE  LibraryStep
  <2>1. drafts' \in [Drafts -> Draft \cup {NoDraft}]
    BY <1>3, <1>5 DEF CommitDraft
  <2>2. MadeOr(s, m) \in Nat /\ (Present(s) => MadeOr(s, m) = recipes[s].made)
    BY <1>1, RecipeShape DEF MadeOr
  <2> QED
    BY <1>5, <2>1, <2>2, UpsertIsLibraryStep DEF CommitDraft
<1> QED
  BY <1>2, <1>4, <1>5

-----------------------------------------------------------------------------
(* The review routes and the runs                                          *)

\* What a commit does to the library.
LEMMA CommitOnRecipes ==
    ASSUME TypeInv, NEW r \in Runs, NEW good \in SUBSET Recipes,
           NEW bad \in SUBSET (Recipes \ good), phase[r] = "loaded",
           ReplaceRecipes(r, good, bad)
    PROVE  /\ recipes' \in [Recipes -> Recipe \cup {Absent}]
           /\ planned' \in SUBSET Recipes
           /\ UNCHANGED <<cooked, leftovers>>
           /\ \A s \in Recipes :
                \/ /\ s \in good /\ recipes'[s] \in Recipe
                   /\ recipes'[s].from = job[r] /\ recipes'[s].by = r
                   /\ Present(s) => recipes'[s].made = recipes[s].made
                \/ recipes'[s] = Absent /\ s \notin planned'
                \/ /\ recipes'[s] = recipes[s]
                   /\ Present(s) => recipes[s].from # job[r]
<1> DEFINE gone == bad \cup (Generated(job[r]) \ good)
           Row(s) == [from |-> job[r], by |-> r, made |-> MadeOr(s, 0)]
<1>1. job[r] \in Imports
  BY DEF TypeInv, Placed
<1>2. \A s \in Recipes : /\ Row(s) \in Recipe /\ Row(s).from = job[r] /\ Row(s).by = r
                         /\ Present(s) => Row(s).made = recipes[s].made
  <2> TAKE s \in Recipes
  <2>1. MadeOr(s, 0) \in Nat /\ (Present(s) => MadeOr(s, 0) = recipes[s].made)
    BY RecipeShape DEF MadeOr
  <2> QED
    BY <1>1, <2>1, RecipeMade
<1>3. /\ recipes' = [s \in Recipes |-> IF s \in good THEN Row(s)
                                       ELSE IF s \in gone THEN Absent ELSE recipes[s]]
      /\ planned' = planned \ gone
      /\ UNCHANGED <<cooked, leftovers>>
  BY DEF ReplaceRecipes
<1>4. \A s \in Recipes : s \notin good /\ s \notin gone => (Present(s) => recipes[s].from # job[r])
  BY DEF Generated
<1> HIDE DEF gone, Row
<1> QED
  BY <1>2, <1>3, <1>4, LibraryTyped

\* What a step may do with the tables of the source and with the runs.
SourceTypes ==
    /\ pages' \in [Pages -> Page]
    /\ sections' \in [SectionIds -> Runs \cup {NoRun}]
    /\ blocks' \in [BlockIds -> Runs \cup {NoRun, ByUser}]
    /\ status' \in [Imports -> {"uploaded", "ocr_ready", "mapped", "committed"}]
    /\ last' \in [Imports -> Runs \cup {NoRun}]

RunTypes ==
    /\ phase' \in [Runs -> {"idle", "loaded", "done"}]
    /\ job' \in [Runs -> Imports \cup {NoImport}]
    /\ refresh' \in [Runs -> BOOLEAN]
    /\ copy' \in [Runs -> [Pages -> Page]]
    /\ \A r \in Runs : phase'[r] # "idle" => job'[r] \in Imports

LEMMA SourceTyped ==
    ASSUME TypeInv
    PROVE  /\ pages \in [Pages -> Page]
           /\ sections \in [SectionIds -> Runs \cup {NoRun}]
           /\ blocks \in [BlockIds -> Runs \cup {NoRun, ByUser}]
           /\ status \in [Imports -> {"uploaded", "ocr_ready", "mapped", "committed"}]
           /\ last \in [Imports -> Runs \cup {NoRun}]
BY DEF TypeInv, TypeOK

LEMMA RunsTyped ==
    ASSUME TypeInv
    PROVE  /\ phase \in [Runs -> {"idle", "loaded", "done"}]
           /\ job \in [Runs -> Imports \cup {NoImport}]
           /\ refresh \in [Runs -> BOOLEAN]
           /\ copy \in [Runs -> [Pages -> Page]]
           /\ \A r \in Runs : phase[r] # "idle" => job[r] \in Imports
BY DEF TypeInv, TypeOK, Placed

ReviewStep ==
    /\ SourceTypes
    /\ \A id \in BlockIds : blocks'[id] \in {blocks[id], ByUser}
    /\ UNCHANGED <<libraryVars, drafts, sections, status, last, runVars>>

LEMMA PageShape ==
    /\ \A t \in Text, v \in Review : [text |-> t, review |-> v] \in Page
    /\ \A x \in Page : x.text \in Text /\ x.review \in Review
    /\ NoText \in Page
BY DEF Page, NoText, Text, Review

LEMMA ReviewRoutesAreReviewSteps ==
    ASSUME TypeInv, NEW p \in Pages, ReviewRoutes(p)
    PROVE  ReviewStep
<1>1. \/ \E t \in {pages[p].text, "edited", ""}, v \in Review : PatchPage(p, t, v)
      \/ AcceptPage(p)
  BY DEF ReviewRoutes
<1>2. pages[p].text \in Text
  BY SourceTyped, PageShape
<1>3. ASSUME NEW t \in {pages[p].text, "edited", ""}, NEW v \in Review, PatchPage(p, t, v)
      PROVE  ReviewStep
  <2>1. [text |-> t, review |-> v] \in Page
    BY <1>2, PageShape DEF Text
  <2>2. pages' \in [Pages -> Page]
    BY <1>3, <2>1, SourceTyped DEF PatchPage
  <2> QED
    BY <1>3, <2>2, SourceTyped DEF PatchPage, ReviewStep, SourceTypes
<1>4. CASE AcceptPage(p)
  <2>1. [text |-> pages[p].text, review |-> "accepted"] \in Page
    BY <1>2, PageShape DEF Review
  <2>2. pages' \in [Pages -> Page]
    BY <1>4, <2>1, SourceTyped DEF AcceptPage
  <2>3. /\ blocks' \in [BlockIds -> Runs \cup {NoRun, ByUser}]
        /\ \A id \in BlockIds : blocks'[id] \in {blocks[id], ByUser}
    BY <1>4, SourceTyped DEF AcceptPage
  <2> QED
    BY <1>4, <2>2, <2>3, SourceTyped DEF AcceptPage, ReviewStep, SourceTypes
<1> QED
  BY <1>1, <1>3, <1>4

LEMMA BlockRoutesAreReviewSteps ==
    ASSUME TypeInv, BlockRoutes
    PROVE  ReviewStep
<1>1. PICK id \in BlockIds : PatchBlock(id)
  BY DEF BlockRoutes
<1>2. /\ blocks' \in [BlockIds -> Runs \cup {NoRun, ByUser}]
      /\ \A x \in BlockIds : blocks'[x] \in {blocks[x], ByUser}
  BY <1>1, SourceTyped DEF PatchBlock
<1> QED
  BY <1>1, <1>2, SourceTyped DEF PatchBlock, ReviewStep, SourceTypes

\* A run loads or gives up.
QuietRunStep ==
    /\ RunTypes
    /\ \A r \in Runs : phase[r] = "done" => phase'[r] = "done"
    /\ UNCHANGED <<libraryVars, drafts, sourceVars>>

LEMMA LoadOrGiveUp ==
    ASSUME TypeInv, NEW r \in Runs,
           (\E i \in Imports, anew \in BOOLEAN : Load(r, i, anew)) \/ GiveUp(r)
    PROVE  QuietRunStep
<1>1. ASSUME NEW i \in Imports, NEW anew \in BOOLEAN, Load(r, i, anew)
      PROVE  QuietRunStep
  <2>1. copy' \in [Runs -> [Pages -> Page]]
    BY <1>1, SourceTyped, RunsTyped DEF Load
  <2>2. refresh' \in [Runs -> BOOLEAN] /\ job' \in [Runs -> Imports \cup {NoImport}]
    BY <1>1, RunsTyped DEF Load
  <2> QED
    BY <1>1, <2>1, <2>2, RunsTyped DEF Load, QuietRunStep, RunTypes
<1>2. CASE GiveUp(r)
  <2>1. copy' \in [Runs -> [Pages -> Page]]
    BY <1>2, RunsTyped, PageShape DEF GiveUp
  <2> QED
    BY <1>2, <2>1, RunsTyped DEF GiveUp, QuietRunStep, RunTypes
<1> QED
  BY <1>1, <1>2

\* Which ids the patterns of an import's run match: its own generated ones and
\* nobody's accepted ones.
LEMMA SectionsLike ==
    ASSUME NEW i \in Imports, NEW j \in Imports, NEW n \in Slots
    PROVE  (\E pattern \in SectionPatterns(i) : Like(SectionId(j, n), pattern)) <=> i = j
BY DEF SectionPatterns, Like, IsPrefix, SectionId

LEMMA BlocksLike ==
    ASSUME NEW i \in Imports, NEW j \in Imports, NEW k \in Kinds, NEW n \in Slots
    PROVE  (\E pattern \in BlockPatterns(i) : Like(BlockId(j, k, n), pattern)) <=> i = j
BY DEF BlockPatterns, Like, IsPrefix, BlockId, Kinds

LEMMA AcceptedUnlike ==
    ASSUME NEW i \in Imports, NEW p \in Pages
    PROVE  /\ \A pattern \in BlockPatterns(i) : ~Like(AcceptedId(p), pattern)
           /\ AcceptedId(p) \notin GeneratedIds
<1>1. AcceptedId(p) = <<PageImport[p], "page", p, "content">>
  BY DEF AcceptedId
<1>2. ASSUME NEW k \in Kinds, Like(AcceptedId(p), <<i, k>>) PROVE FALSE
  <2>1. SubSeq(<<i, k>>, 1, 2)[2] = SubSeq(AcceptedId(p), 1, 2)[2]
    BY <1>2 DEF Like, IsPrefix
  <2>2. SubSeq(<<i, k>>, 1, 2)[2] = k
    OBVIOUS
  <2>3. SubSeq(<<PageImport[p], "page", p, "content">>, 1, 2)[2] = "page"
    OBVIOUS
  <2> QED
    BY <1>1, <2>1, <2>2, <2>3 DEF Kinds
<1>3. ASSUME NEW j \in Imports, NEW k \in Kinds, NEW n \in Slots, AcceptedId(p) = BlockId(j, k, n)
      PROVE  FALSE
  <2>1. <<PageImport[p], "page", p, "content">>[2] = <<j, k, n>>[2]
    BY <1>1, <1>3 DEF BlockId
  <2> QED
    BY <2>1 DEF Kinds
<1> QED
  BY <1>2, <1>3 DEF BlockPatterns, GeneratedIds, Kinds

\* What a commit does: only the pages, the rows and the status of its own
\* import change.
CommitStep(r, good, bad, secs, blks) ==
    /\ phase[r] = "loaded" /\ job[r] \in Imports
    /\ ReplaceRecipes(r, good, bad)
    /\ SourceTypes
    /\ RunTypes
    /\ \A p \in Pages : \/ pages'[p] = pages[p]
                        \/ pages'[p] \in Processed(r, p)
    /\ \A j \in Imports, n \in Slots :
         IF j = job[r]
         THEN sections'[SectionId(j, n)] \in {r, NoRun}
         ELSE sections'[SectionId(j, n)] = sections[SectionId(j, n)]
    /\ \A j \in Imports, k \in Kinds, n \in Slots :
         IF j = job[r]
         THEN blocks'[BlockId(j, k, n)] \in {r, NoRun}
         ELSE blocks'[BlockId(j, k, n)] = blocks[BlockId(j, k, n)]
    /\ \A p \in Pages : blocks'[AcceptedId(p)] = blocks[AcceptedId(p)]
    /\ status' = [status EXCEPT ![job[r]] = StatusOf(good \cup bad, secs, blks)]
    /\ last' = [last EXCEPT ![job[r]] = r]
    /\ phase' = [phase EXCEPT ![r] = "done"]
    /\ UNCHANGED <<drafts, job, refresh>>

LEMMA CommitIsCommitStep ==
    ASSUME TypeInv, NEW r \in Runs, NEW good \in SUBSET Recipes,
           NEW bad \in SUBSET (Recipes \ good),
           NEW secs \in SUBSET SectionsOf(job[r]), NEW blks \in SUBSET BlocksOf(job[r]),
           Commit(r, good, bad, secs, blks)
    PROVE  CommitStep(r, good, bad, secs, blks)
<1>1. phase[r] = "loaded" /\ job[r] \in Imports
  BY RunsTyped DEF Commit
<1>2. PICK become \in [PagesOf(job[r]) -> Page] :
        /\ \A p \in PagesOf(job[r]) : become[p] \in Processed(r, p)
        /\ pages' = [p \in Pages |-> IF p \in PagesOf(job[r]) THEN become[p] ELSE pages[p]]
  BY DEF Commit
<1>3. /\ pages' \in [Pages -> Page]
      /\ \A p \in Pages : pages'[p] = pages[p] \/ pages'[p] \in Processed(r, p)
  BY <1>2, SourceTyped
<1>4. /\ sections' = Replaced(sections, SectionPatterns(job[r]), secs, r)
      /\ blocks' = Replaced(blocks, BlockPatterns(job[r]), blks, r)
      /\ status' = [status EXCEPT ![job[r]] = StatusOf(good \cup bad, secs, blks)]
      /\ last' = [last EXCEPT ![job[r]] = r]
      /\ phase' = [phase EXCEPT ![r] = "done"]
      /\ copy' = [copy EXCEPT ![r] = [p \in Pages |-> NoText]]
      /\ ReplaceRecipes(r, good, bad)
      /\ UNCHANGED <<drafts, job, refresh>>
  BY DEF Commit
<1>5. /\ sections' \in [SectionIds -> Runs \cup {NoRun}]
      /\ blocks' \in [BlockIds -> Runs \cup {NoRun, ByUser}]
  BY <1>4, SourceTyped DEF Replaced
<1>9. \A j \in Imports, n \in Slots :
        IF j = job[r]
        THEN sections'[SectionId(j, n)] \in {r, NoRun}
        ELSE sections'[SectionId(j, n)] = sections[SectionId(j, n)]
  <2> TAKE j \in Imports, n \in Slots
  <2>1. SectionId(j, n) \in SectionIds
    BY DEF SectionIds
  <2>2. SectionId(j, n) \in secs => j = job[r]
    BY DEF SectionsOf, SectionId
  <2> QED
    BY <1>1, <1>4, <2>1, <2>2, SourceTyped, SectionsLike DEF Replaced
<1>10. \A j \in Imports, k \in Kinds, n \in Slots :
         IF j = job[r]
         THEN blocks'[BlockId(j, k, n)] \in {r, NoRun}
         ELSE blocks'[BlockId(j, k, n)] = blocks[BlockId(j, k, n)]
  <2> TAKE j \in Imports, k \in Kinds, n \in Slots
  <2>1. BlockId(j, k, n) \in BlockIds
    BY DEF BlockIds, GeneratedIds
  <2>2. BlockId(j, k, n) \in blks => j = job[r]
    BY DEF BlocksOf, BlockId
  <2> QED
    BY <1>1, <1>4, <2>1, <2>2, SourceTyped, BlocksLike DEF Replaced
<1>11. \A p \in Pages : blocks'[AcceptedId(p)] = blocks[AcceptedId(p)]
  <2> TAKE p \in Pages
  <2>1. AcceptedId(p) \in BlockIds
    BY DEF BlockIds
  <2>2. AcceptedId(p) \notin blks
    BY <1>1, AcceptedUnlike DEF BlocksOf, GeneratedIds
  <2> QED
    BY <1>1, <1>4, <2>1, <2>2, SourceTyped, AcceptedUnlike DEF Replaced
<1>6. StatusOf(good \cup bad, secs, blks) \in {"uploaded", "ocr_ready", "mapped", "committed"}
  <2>1. CASE good \cup bad # {}
    BY <2>1 DEF StatusOf
  <2>2. CASE good \cup bad = {} /\ (secs # {} \/ blks # {})
    BY <2>2 DEF StatusOf
  <2>3. CASE good \cup bad = {} /\ ~(secs # {} \/ blks # {})
    BY <2>3 DEF StatusOf
  <2> QED
    BY <2>1, <2>2, <2>3
<1>7. SourceTypes
  BY <1>3, <1>4, <1>5, <1>6, SourceTyped DEF SourceTypes
<1>8. RunTypes
  BY <1>1, <1>4, RunsTyped, PageShape DEF RunTypes
<1> QED
  BY <1>1, <1>3, <1>4, <1>7, <1>8, <1>9, <1>10, <1>11 DEF CommitStep

\* Every step is one of these.
LEMMA Steps ==
    ASSUME TypeInv, [Next]_vars
    PROVE  \/ LibraryStep
           \/ ReviewStep
           \/ QuietRunStep
           \/ \E r \in Runs, good \in SUBSET Recipes, secs \in SUBSET SectionIds,
                 blks \in SUBSET BlockIds :
                \E bad \in SUBSET (Recipes \ good) : CommitStep(r, good, bad, secs, blks)
           \/ UNCHANGED vars
<1>1. CASE RecipeRoutes \/ PantryRoutes \/ MealPlanRoutes \/ DraftRoutes
  BY <1>1, RecipeRoutesAreLibrarySteps, OtherRoutesAreLibrarySteps,
     DraftRoutesAreLibrarySteps
<1>2. CASE (\E p \in Pages : ReviewRoutes(p)) \/ BlockRoutes
  BY <1>2, ReviewRoutesAreReviewSteps, BlockRoutesAreReviewSteps
<1>3. CASE \E r \in Runs, i \in Imports : RunSteps(r, i)
  <2>1. PICK r \in Runs :
          \/ \E i \in Imports, anew \in BOOLEAN : Load(r, i, anew)
          \/ GiveUp(r)
          \/ \E good \in SUBSET Recipes, secs \in SUBSET SectionsOf(job[r]),
                blks \in SUBSET BlocksOf(job[r]) :
                \E bad \in SUBSET (Recipes \ good) : Commit(r, good, bad, secs, blks)
    BY <1>3 DEF RunSteps
  <2>2. ASSUME NEW good \in SUBSET Recipes, NEW bad \in SUBSET (Recipes \ good),
               NEW secs \in SUBSET SectionsOf(job[r]), NEW blks \in SUBSET BlocksOf(job[r]),
               Commit(r, good, bad, secs, blks)
        PROVE  /\ CommitStep(r, good, bad, secs, blks)
               /\ secs \in SUBSET SectionIds /\ blks \in SUBSET BlockIds
    <3>1. CommitStep(r, good, bad, secs, blks)
      BY <2>2, CommitIsCommitStep
    <3>2. job[r] \in Imports
      BY <3>1 DEF CommitStep
    <3> QED
      BY <3>1, <3>2 DEF SectionsOf, SectionIds, BlocksOf, BlockIds, GeneratedIds
  <2> QED
    BY <2>1, <2>2, LoadOrGiveUp
<1> QED
  BY <1>1, <1>2, <1>3 DEF Next

-----------------------------------------------------------------------------
(* The invariants                                                          *)

LEMMA InitTyped == ASSUME Init PROVE TypeInv
<1> USE CatalogueAssumption, PageShape
<1>1. TypeOK
  BY DEF Init, TypeOK, Text
<1>2. \A s \in Recipes : recipes[s].by = NoRun
  BY DEF Init, Absent
<1> QED
  BY <1>1, <1>2 DEF TypeInv, Placed, Init

\* The block of an accepted page is never a run's.
AcceptedByUser == \A p \in Pages : blocks[AcceptedId(p)] \in {NoRun, ByUser}

\* The invariant with the three that depend on it.
Inv == TypeInv /\ GraphIsOneRun /\ StatusTellsRecipes /\ AcceptedByUser

LEMMA IdsListed ==
    /\ \A i \in Imports, n \in Slots : SectionId(i, n) \in SectionIds
    /\ \A i \in Imports, k \in Kinds, n \in Slots : BlockId(i, k, n) \in BlockIds
    /\ \A p \in Pages : AcceptedId(p) \in BlockIds
BY DEF SectionIds, BlockIds, GeneratedIds

LEMMA InitInv == ASSUME Init PROVE Inv
<1> USE CatalogueAssumption
<1>1. \A s \in Recipes : recipes[s].by = NoRun
  BY DEF Init, Absent
<1>2. /\ \A id \in SectionIds : sections[id] = NoRun
      /\ \A id \in BlockIds : blocks[id] = NoRun
  BY DEF Init
<1> QED
  BY <1>1, <1>2, InitTyped, IdsListed DEF Inv, GraphIsOneRun, StatusTellsRecipes, AcceptedByUser

\* A route leaves no row to a run that was not its own before.
LEMMA LibraryStepKeepsInv ==
    ASSUME Inv, LibraryStep
    PROVE  Inv'
<1> USE CatalogueAssumption DEF Inv
<1>1. UNCHANGED <<sourceVars, runVars>> /\ LibraryTypes
  BY DEF LibraryStep
<1>2. TypeOK'
  BY <1>1, SourceTyped, RunsTyped DEF LibraryTypes, TypeOK, sourceVars, runVars
<1>3. \A s \in Recipes : recipes'[s].by \in Runs =>
         recipes'[s].by = recipes[s].by /\ recipes'[s].from = recipes[s].from
  <2> TAKE s \in Recipes
  <2>1. RouteRow(s)
    BY DEF LibraryStep
  <2> QED
    BY <2>1 DEF RouteRow, Absent
<1>4. Placed'
  BY <1>1, <1>3 DEF TypeInv, Placed, sourceVars, runVars
<1>5. GraphIsOneRun'
  BY <1>1, <1>3 DEF GraphIsOneRun, sourceVars
<1>6. StatusTellsRecipes'
  BY <1>1, <1>3 DEF StatusTellsRecipes, sourceVars
<1>7. AcceptedByUser'
  BY <1>1 DEF AcceptedByUser, sourceVars
<1> QED
  BY <1>2, <1>4, <1>5, <1>6, <1>7 DEF TypeInv

LEMMA ReviewStepKeepsInv ==
    ASSUME Inv, ReviewStep
    PROVE  Inv'
<1> USE DEF Inv
<1>1. /\ SourceTypes
      /\ UNCHANGED <<recipes, cooked, leftovers, planned, drafts, sections, status, last,
                     phase, job, refresh, copy>>
      /\ \A id \in BlockIds : blocks'[id] \in {blocks[id], ByUser}
  BY DEF ReviewStep, libraryVars, runVars
<1>2. TypeOK'
  BY <1>1, LibraryTyped, RunsTyped DEF SourceTypes, TypeOK
<1>3. Placed'
  BY <1>1 DEF TypeInv, Placed
<1>4. GraphIsOneRun'
  BY <1>1, IdsListed DEF GraphIsOneRun
<1>5. StatusTellsRecipes'
  BY <1>1 DEF StatusTellsRecipes
<1>6. AcceptedByUser'
  BY <1>1, IdsListed DEF AcceptedByUser
<1> QED
  BY <1>2, <1>3, <1>4, <1>5, <1>6 DEF TypeInv

LEMMA QuietRunStepKeepsInv ==
    ASSUME Inv, QuietRunStep
    PROVE  Inv'
<1> USE DEF Inv
<1>1. /\ RunTypes
      /\ UNCHANGED <<recipes, cooked, leftovers, planned, drafts, pages, sections, blocks,
                     status, last>>
      /\ \A r \in Runs : phase[r] = "done" => phase'[r] = "done"
  BY DEF QuietRunStep, libraryVars, sourceVars
<1>2. TypeOK'
  BY <1>1, LibraryTyped, SourceTyped DEF RunTypes, TypeOK
<1>3. Placed'
  BY <1>1 DEF TypeInv, Placed, RunTypes
<1> QED
  BY <1>1, <1>2, <1>3 DEF TypeInv, GraphIsOneRun, StatusTellsRecipes, AcceptedByUser

\* The rows of the run's import are its own afterwards, the others' stay as
\* they were and so does what was said of them.
LEMMA CommitStepKeepsInv ==
    ASSUME Inv, NEW r \in Runs, NEW good \in SUBSET Recipes,
           NEW bad \in SUBSET (Recipes \ good),
           NEW secs \in SUBSET SectionIds, NEW blks \in SUBSET BlockIds,
           CommitStep(r, good, bad, secs, blks)
    PROVE  Inv'
<1> USE CatalogueAssumption DEF Inv
<1> DEFINE i == job[r]
<1>1. /\ i \in Imports /\ phase[r] = "loaded" /\ SourceTypes /\ RunTypes
      /\ ReplaceRecipes(r, good, bad)
      /\ last' = [last EXCEPT ![i] = r] /\ phase' = [phase EXCEPT ![r] = "done"]
      /\ status' = [status EXCEPT ![i] = StatusOf(good \cup bad, secs, blks)]
      /\ UNCHANGED <<drafts, job, refresh>>
  BY DEF CommitStep
<1>2. /\ recipes' \in [Recipes -> Recipe \cup {Absent}]
      /\ planned' \in SUBSET Recipes
      /\ UNCHANGED <<cooked, leftovers>>
      /\ \A s \in Recipes :
           \/ s \in good /\ recipes'[s].from = i /\ recipes'[s].by = r
           \/ recipes'[s] = Absent
           \/ recipes'[s] = recipes[s] /\ (Present(s) => recipes[s].from # i)
  BY <1>1, CommitOnRecipes
<1>3. TypeOK'
  BY <1>1, <1>2, LibraryTyped DEF SourceTypes, RunTypes, TypeOK
<1>4. /\ last'[i] = r /\ phase'[r] = "done"
      /\ \A j \in Imports : j # i => last'[j] = last[j] /\ status'[j] = status[j]
      /\ \A q \in Runs : q # r => phase'[q] = phase[q]
      /\ status'[i] = StatusOf(good \cup bad, secs, blks)
  BY <1>1, SourceTyped, RunsTyped
<1>5. \A s \in Recipes : recipes'[s].by \in Runs =>
        \/ s \in good /\ recipes'[s].from = i /\ recipes'[s].by = r
        \/ /\ recipes'[s] = recipes[s] /\ recipes[s].by \in Runs
           /\ recipes[s].from \in Imports /\ recipes[s].from # i
  BY <1>2, RecipeShape DEF Absent, TypeInv, Placed
<1>6. Placed'
  <2>1. \A s \in Recipes : recipes'[s].by \in Runs => recipes'[s].from \in Imports
    BY <1>1, <1>5
  <2>2. \A j \in Imports : last'[j] \in Runs => phase'[last'[j]] = "done"
    BY <1>4 DEF TypeInv, Placed
  <2> QED
    BY <1>1, <2>1, <2>2 DEF Placed, RunTypes
<1>7. GraphIsOneRun'
  <2>1. \A j \in Imports, n \in Slots :
          /\ sections'[SectionId(j, n)] \in {last'[j], NoRun}
          /\ \A k \in Kinds : blocks'[BlockId(j, k, n)] \in {last'[j], NoRun, ByUser}
    <3> TAKE j \in Imports, n \in Slots
    <3>1. CASE j = i
      BY <1>4, <3>1 DEF CommitStep
    <3>2. CASE j # i
      <4>1. /\ sections'[SectionId(j, n)] = sections[SectionId(j, n)]
            /\ \A k \in Kinds : blocks'[BlockId(j, k, n)] = blocks[BlockId(j, k, n)]
        BY <3>2 DEF CommitStep
      <4>2. last'[j] = last[j]
        BY <1>4, <3>2
      <4> QED
        BY <4>1, <4>2 DEF GraphIsOneRun
    <3> QED
      BY <3>1, <3>2
  <2>2. \A s \in Recipes : recipes'[s].by \in Runs => recipes'[s].by = last'[recipes'[s].from]
    BY <1>4, <1>5 DEF GraphIsOneRun
  <2> QED
    BY <2>1, <2>2 DEF GraphIsOneRun
<1>8. StatusTellsRecipes'
  <2>1. good # {} => StatusOf(good \cup bad, secs, blks) = "committed"
    BY DEF StatusOf
  <2>2. \A s \in Recipes : recipes'[s].by \in Runs => status'[recipes'[s].from] = "committed"
    BY <1>4, <1>5, <2>1 DEF StatusTellsRecipes
  <2> QED
    BY <2>2 DEF StatusTellsRecipes
<1>9. AcceptedByUser'
  BY DEF CommitStep, AcceptedByUser
<1> QED
  BY <1>3, <1>6, <1>7, <1>8, <1>9 DEF TypeInv

LEMMA StepInv == ASSUME Inv, [Next]_vars PROVE Inv'
<1>1. TypeInv
  BY DEF Inv
<1>2. CASE UNCHANGED vars
  BY <1>2 DEF Inv, TypeInv, TypeOK, Placed, GraphIsOneRun, StatusTellsRecipes, AcceptedByUser, Present,
              vars, libraryVars, sourceVars, runVars
<1> QED
  BY <1>1, <1>2, Steps, LibraryStepKeepsInv, ReviewStepKeepsInv, QuietRunStepKeepsInv,
     CommitStepKeepsInv

THEOREM Invariance == Spec => []Inv
<1>1. Init => Inv
  BY InitInv
<1>2. Inv /\ [Next]_vars => Inv'
  BY StepInv
<1> QED
  BY <1>1, <1>2, PTL DEF Spec

-----------------------------------------------------------------------------
(* What holds of every behaviour                                           *)

\* Every state has its type, whatever the routes and the runs do.
THEOREM TypeCorrect == Spec => []TypeOK
<1>1. Inv => TypeOK
  BY DEF Inv, TypeInv
<1> QED
  BY <1>1, Invariance, PTL

\* The generated sections, blocks and untouched recipes of an import all stem
\* from the run that committed last, for any number of runs under way.
THEOREM OneRun == Spec => []GraphIsOneRun
<1>1. Inv => GraphIsOneRun
  BY DEF Inv
<1> QED
  BY <1>1, Invariance, PTL

\* An import with a generated recipe has the status "committed".
THEOREM StatusTells == Spec => []StatusTellsRecipes
<1>1. Inv => StatusTellsRecipes
  BY DEF Inv
<1> QED
  BY <1>1, Invariance, PTL

\* What a step does to the library, whichever it is.
LEMMA LibraryFacts ==
    ASSUME TypeInv, [Next]_vars, NEW s \in Recipes
    PROVE  /\ Present(s) /\ recipes'[s] # Absent =>
                recipes'[s].made + cooked[s] = recipes[s].made + cooked'[s]
           /\ cooked'[s] >= cooked[s]
           /\ leftovers'[s] < leftovers[s] => recipes' = recipes
           /\ Present(s) /\ recipes'[s] = Absent => s \notin planned'
<1>1. /\ cooked[s] \in Nat /\ leftovers[s] \in Nat
      /\ Present(s) => recipes[s].made \in Nat
  BY LibraryTyped, RecipeShape
<1>0. \A x \in Recipe : x # Absent
  BY CatalogueAssumption DEF Recipe, Absent
<1>2. CASE LibraryStep
  <2>1. RouteRow(s) /\ (leftovers'[s] < leftovers[s] => recipes' = recipes)
    BY <1>2 DEF LibraryStep
  <2> QED
    BY <1>0, <1>1, <2>1 DEF RouteRow, Present
<1>3. CASE UNCHANGED <<recipes, cooked, leftovers, planned>>
  BY <1>1, <1>3 DEF Present
<1>4. ASSUME NEW r \in Runs, NEW good \in SUBSET Recipes,
             NEW bad \in SUBSET (Recipes \ good),
             NEW secs \in SUBSET SectionIds, NEW blks \in SUBSET BlockIds,
             CommitStep(r, good, bad, secs, blks)
      PROVE  /\ Present(s) /\ recipes'[s] # Absent =>
                  recipes'[s].made = recipes[s].made
             /\ cooked' = cooked /\ leftovers' = leftovers
             /\ Present(s) /\ recipes'[s] = Absent => s \notin planned'
  <2>1. phase[r] = "loaded" /\ ReplaceRecipes(r, good, bad)
    BY <1>4 DEF CommitStep
  <2> QED
    BY <1>0, <2>1, CommitOnRecipes DEF Present
<1> QED
  BY <1>1, <1>2, <1>3, <1>4, Steps DEF ReviewStep, QuietRunStep, libraryVars, vars

\* A recipe's times made and its cook log move together or not at all while
\* the recipe is there.
THEOREM MadeTracks == Spec => MadeTracksCookLog
<1>1. Inv /\ [Next]_vars =>
        [\A s \in Recipes :
           Present(s) /\ Present(s)' =>
              recipes'[s].made + cooked[s] = recipes[s].made + cooked'[s]]_vars
  BY LibraryFacts DEF Inv, Present
<1> QED
  BY <1>1, Invariance, PTL DEF Spec, MadeTracksCookLog

\* The history of what was cooked is never cut.
THEOREM HistoryIsKept == Spec => HistoryKept
<1>1. Inv /\ [Next]_vars =>
        [\A s \in Recipes :
           /\ cooked'[s] >= cooked[s]
           /\ leftovers'[s] < leftovers[s] => recipes' = recipes]_vars
  BY LibraryFacts DEF Inv
<1> QED
  BY <1>1, Invariance, PTL DEF Spec, HistoryKept

\* Nothing removes a recipe and leaves it on the meal plan.
THEOREM DeletedUnplanned == Spec => DeletedIsUnplanned
<1>1. Inv /\ [Next]_vars =>
        [\A s \in Recipes : Present(s) /\ ~Present(s)' => s \notin planned']_vars
  BY LibraryFacts DEF Inv, Present
<1> QED
  BY <1>1, Invariance, PTL DEF Spec, DeletedIsUnplanned

\* The only run that commits in a step is the one whose step it is.
LEMMA OneCommits ==
    ASSUME TypeInv, [Next]_vars, NEW q \in Runs, Commits(q)
    PROVE  \E good \in SUBSET Recipes, secs \in SUBSET SectionIds, blks \in SUBSET BlockIds :
              \E bad \in SUBSET (Recipes \ good) : CommitStep(q, good, bad, secs, blks)
<1>1. phase[q] = "loaded" /\ job[q] \in Imports /\ last'[job[q]] = q
  BY RunsTyped DEF Commits
<1>2. last[job[q]] # q
  BY <1>1 DEF TypeInv, Placed
<1>3. last' # last
  BY <1>1, <1>2
<1>4. PICK r \in Runs, good \in SUBSET Recipes, secs \in SUBSET SectionIds,
           blks \in SUBSET BlockIds :
        \E bad \in SUBSET (Recipes \ good) : CommitStep(r, good, bad, secs, blks)
  BY <1>3, Steps DEF LibraryStep, ReviewStep, QuietRunStep, vars, sourceVars
<1>5. last' = [last EXCEPT ![job[r]] = r]
  BY <1>4 DEF CommitStep
<1>6. q = r
  BY <1>1, <1>2, <1>5, SourceTyped
<1> QED
  BY <1>4, <1>6

\* The block of an accepted page stays the user's: no pattern of any run
\* matches its id, and no run writes a block of that id.
THEOREM AcceptedKeeps == Spec => AcceptedContentKept
<1>1. ASSUME Inv, [Next]_vars, NEW p \in Pages, blocks[AcceptedId(p)] # NoRun
      PROVE  blocks'[AcceptedId(p)] = ByUser
  <2>1. TypeInv /\ blocks[AcceptedId(p)] = ByUser
    BY <1>1 DEF Inv, AcceptedByUser
  <2>2. blocks'[AcceptedId(p)] \in {blocks[AcceptedId(p)], ByUser}
    BY <1>1, <2>1, Steps, IdsListed
       DEF LibraryStep, ReviewStep, QuietRunStep, CommitStep, vars, sourceVars
  <2> QED
    BY <2>1, <2>2
<1>2. Inv /\ [Next]_vars =>
        [\A p \in Pages :
           blocks[AcceptedId(p)] # NoRun => blocks'[AcceptedId(p)] = ByUser]_vars
  BY <1>1
<1> QED
  BY <1>2, Invariance, PTL DEF Spec, AcceptedContentKept

\* A run that started after an edit, without a refresh, never takes the edit.
THEOREM EditsOutlive == Spec => EditsOutliveLaterRuns
<1>1. ASSUME Inv, [Next]_vars, NEW p \in Pages,
             pages[p].text = "edited", pages'[p].text # "edited",
             NEW r \in Runs, Commits(r), ~refresh[r]
      PROVE  copy[r][p].text # "edited"
  <2>1. pages'[p] = pages[p] \/ pages'[p] \in Processed(r, p)
    BY <1>1, OneCommits DEF Inv, CommitStep
  <2>2. pages'[p] \in Processed(r, p)
    BY <1>1, <2>1
  <2>3. CASE Pending(r, p)
    BY <1>1, <2>3 DEF Pending
  <2>4. CASE ~Pending(r, p)
    BY <1>1, <2>2, <2>4 DEF Processed
  <2> QED
    BY <2>3, <2>4
<1>2. Inv /\ [Next]_vars =>
        [\A p \in Pages :
           pages[p].text = "edited" /\ pages'[p].text # "edited" =>
              \A r \in Runs : Commits(r) => refresh[r] \/ copy[r][p].text # "edited"]_vars
  BY <1>1
<1> QED
  BY <1>2, Invariance, PTL DEF Spec, EditsOutliveLaterRuns

\* A draft changes in the draft routes alone.
LEMMA DraftsElsewhere ==
    ASSUME TypeInv, [Next]_vars, drafts' # drafts
    PROVE  DraftRoutes
<1>1. ASSUME RecipeRoutes \/ PantryRoutes \/ MealPlanRoutes PROVE drafts' = drafts
  <2>1. CASE RecipeRoutes
    BY <2>1 DEF RecipeRoutes, CreateRecipe, UpdateRecipe, DeleteRecipe, MarkMade
  <2>2. CASE PantryRoutes \/ MealPlanRoutes
    BY <2>2 DEF PantryRoutes, EatLeftover, MealPlanRoutes, PlanMeal, UnplanMeal
  <2> QED
    BY <1>1, <2>1, <2>2
<1>2. ASSUME (\E p \in Pages : ReviewRoutes(p)) \/ BlockRoutes PROVE drafts' = drafts
  BY <1>2, ReviewRoutesAreReviewSteps, BlockRoutesAreReviewSteps DEF ReviewStep
<1>3. ASSUME NEW r \in Runs, NEW i \in Imports, RunSteps(r, i) PROVE drafts' = drafts
  BY <1>3, LoadOrGiveUp, CommitIsCommitStep DEF RunSteps, QuietRunStep, CommitStep
<1> QED
  BY <1>1, <1>2, <1>3 DEF Next, vars

\* Whoever finds a draft committed finds the user's recipe it was committed as.
THEOREM DraftCommits == Spec => DraftCommitsRecipe
<1>1. ASSUME Inv, [Next]_vars, NEW d \in Drafts,
             drafts'[d] # drafts[d], drafts'[d].status = "committed"
      PROVE  LET s == drafts'[d].recipe
             IN  recipes'[s] # Absent /\ recipes'[s].by = ByUser
  <2>1. TypeInv
    BY <1>1 DEF Inv
  <2>2. PICK c \in Drafts, s \in Recipes, m \in 0 .. MaxMade :
          \/ CreateDraft(c, s) \/ UpdateDraft(c, s)
          \/ \E f \in Imports \cup {NoImport} : CommitDraft(c, s, f, m)
    BY <1>1, <2>1, DraftsElsewhere DEF DraftRoutes
  <2>3. drafts \in [Drafts -> Draft \cup {NoDraft}]
    BY <2>1, LibraryTyped
  <2>4. CASE CreateDraft(c, s) \/ UpdateDraft(c, s)
    <3>1. drafts' = [drafts EXCEPT ![c] = [status |-> "draft_ready", recipe |-> s]]
      BY <2>4 DEF CreateDraft, UpdateDraft
    <3> QED
      BY <1>1, <2>3, <3>1
  <2>5. ASSUME NEW f \in Imports \cup {NoImport}, CommitDraft(c, s, f, m)
        PROVE  LET x == drafts'[d].recipe
               IN  recipes'[x] # Absent /\ recipes'[x].by = ByUser
    <3>1. /\ drafts' = [drafts EXCEPT ![c] = [status |-> "committed", recipe |-> s]]
          /\ UpsertRecipe(s, f, ByUser, MadeOr(s, m))
      BY <2>5 DEF CommitDraft
    <3>2. drafts'[d].recipe = s
      BY <1>1, <2>3, <3>1
    <3>3. MadeOr(s, m) \in Nat
      BY <2>1, RecipeShape, CatalogueAssumption DEF MadeOr
    <3>4. recipes'[s] \in Recipe /\ recipes'[s].by = ByUser
      BY <2>1, <3>1, <3>3, UpsertOneRow
    <3>5. recipes'[s] # Absent
      BY <3>4, CatalogueAssumption DEF Recipe, Absent
    <3> QED
      BY <3>2, <3>4, <3>5
  <2> QED
    BY <2>2, <2>4, <2>5
<1>2. Inv /\ [Next]_vars =>
        [\A d \in Drafts :
           drafts'[d] # drafts[d] /\ drafts'[d].status = "committed" =>
              LET s == drafts'[d].recipe
              IN  recipes'[s] # Absent /\ recipes'[s].by = ByUser]_vars
  BY <1>1
<1> QED
  BY <1>2, Invariance, PTL DEF Spec, DraftCommitsRecipe

=============================================================================
