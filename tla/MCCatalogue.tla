------------------------------ MODULE MCCatalogue ------------------------------
(***************************************************************************)
(* TLC instances of Catalogue.  The recipes and the review of sources meet *)
(* only in Commit, and exploring all of both together is out of reach: a   *)
(* behaviour is focused on one of them and keeps the other small.          *)
(***************************************************************************)
EXTENDS Catalogue, TLC

CONSTANTS i1, i2, p1, p2

VARIABLE focus  \* what the users of this behaviour do

\* One page in each import.
PageInEach == p1 :> i1 @@ p2 :> i2

\* Runs are interchangeable.
RunSymmetry == Permutations(Runs)

\* Users of recipes and drafts, and runs of both imports that extract recipes
\* but no sections and blocks, and skip what has a text.
LibraryNext ==
    \/ RecipeRoutes \/ PantryRoutes \/ MealPlanRoutes
    \/ DraftRoutes
    \/ \E r \in Runs :
         \/ \E i \in Imports : Load(r, i, FALSE)
         \/ GiveUp(r)
         \/ \E good \in SUBSET Recipes : \E bad \in SUBSET (Recipes \ good) :
               Commit(r, good, bad, {}, {})

\* Users who review the page and the blocks of one import, runs of it, and runs
\* of the other import, which hold a copy of its page too.  A review status
\* that is neither of these two is treated as they are.
SourcesNext ==
    \/ \E s \in {pages[p1].text, "edited", ""}, v \in {"pending", "ignored"} : PatchPage(p1, s, v)
    \/ AcceptPage(p1)
    \/ BlockRoutes
    \/ \E r \in Runs :
         \/ RunSteps(r, i1)
         \/ Load(r, i2, FALSE)

FocusedInit == Init /\ focus \in {"library", "sources"}

FocusedNext ==
    /\ \/ focus = "library" /\ LibraryNext
       \/ focus = "sources" /\ SourcesNext
    /\ UNCHANGED focus

FocusedSpec == FocusedInit /\ [][FocusedNext]_<<vars, focus>>

\* Nobody but the runs.
RunsInit == Init /\ focus = "runs"

RunsNext ==
    /\ \E r \in Runs, i \in Imports : RunSteps(r, i)
    /\ UNCHANGED focus

RunsSpec == RunsInit /\ [][RunsNext]_<<vars, focus>>

=============================================================================
