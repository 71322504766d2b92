----------------------------- MODULE MCWorkspace -----------------------------
(***************************************************************************)
(* TLC instances of Workspace: two recipes, of which one can be retitled   *)
(* to the file name of the other.  A behaviour spends one budget: on edits *)
(* of the text, or on runs and web clients.                                *)
(***************************************************************************)
EXTENDS Workspace

CONSTANTS a, b, fa, fb

Ingredient(n, w, h) ==
    [id |-> <<"ingredient", n>>, position |-> n, says |-> <<w>>, optional |-> FALSE,
     display |-> <<"shown", w>>, hidden |-> h]

Step(n, text) == [id |-> <<"step", n>>, position |-> n, text |-> text, hidden |-> None]

\* "apple pie" of the id cake and "apple" of the id pie-cake are one file.
FileNames ==
    [p \in {"pie", "apple"} \X {a, b} |->
        IF p \in {<<"pie", a>>, <<"apple", b>>} THEN fa ELSE fb]

Pie ==
    [id |-> a, title |-> "pie", category |-> None, pages |-> <<3, 4>>,
     ingredients |-> <<Ingredient(1, "flour", "weighed"), Ingredient(2, "fat", "priced")>>,
     steps |-> <<Step(1, <<Words(<<"bake">>)>>)>>,
     notes |-> <<"sour">>, made |-> 0]

\* The same under another title, with one ingredient and an open page range.
Retitled ==
    [Pie EXCEPT !.title = "apple", !.pages = <<3, None>>,
                !.ingredients = <<Ingredient(1, "flour", "weighed")>>]

\* Its one step is two paragraphs.
Jam ==
    [id |-> b, title |-> "pie", category |-> None, pages |-> <<None, None>>,
     ingredients |-> <<Ingredient(1, "plums", None)>>,
     steps |-> <<Step(1, <<Words(<<"boil">>), Blank, Words(<<"stir">>)>>)>>,
     notes |-> <<"set">>, made |-> 0]

NoteLess == [Pie EXCEPT !.notes = <<>>]

Plainer == {Pie, Retitled, Jam}
WithoutNotes == {NoteLess}

Typed ==
    {Item(<<"salt">>, FALSE), Item(<<>>, FALSE), Section("other"),
     Directive("ingredient", <<"ingredient", 2>>)}

Heads ==
    {Broken, FrontMatter(Retitled), FrontMatter(Jam),
     [id |-> None, title |-> None, category |-> None, pages |-> None]}

Budget(runs, faults, web, starts, edits) ==
    [runs |-> runs, faults |-> faults, web |-> web, starts |-> starts, edits |-> edits]

TwoEdits == Budget(1, 0, 0, 1, 2)

Plans ==
    {TwoEdits, Budget(1, 0, 1, 1, 1), Budget(2, 0, 1, 1, 0), Budget(1, 1, 1, 1, 0),
     Budget(2, 1, 0, 0, 0)}

OneRun == {Budget(1, 1, 1, 1, 0)}

\* Edits are of one recipe.
Begin ==
    /\ Init
    /\ left.edits > 0 => db = [i \in Ids |-> IF i = a THEN Pie ELSE Absent]

BoundedSpec == Begin /\ [][Next]_vars

=============================================================================
