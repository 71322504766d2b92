------------------------------- MODULE Workspace -------------------------------
(***************************************************************************)
(* recitopia-hx: a directory of `.cook` files that a run of                *)
(* materialize_workspace writes from the API, the language server that     *)
(* Helix runs in it, and the web clients that change the same recipes.     *)
(*                                                                         *)
(* A run reads the catalogue once and then writes for a while; the server  *)
(* reads the files once, when it starts, and holds the text of each open   *)
(* document; a save sends the recipe read out of that text, over the JSON  *)
(* the file was written with.  So three copies of a recipe (the store's,   *)
(* the file's, the editor's) drift apart, and a run may stop half way.     *)
(* Requests to the store are one transaction each.                         *)
(***************************************************************************)
EXTENDS CookDocument, FiniteSets

CONSTANTS
    Ids,        \* recipe ids
    Files,      \* file names in recipes/
    FileName,   \* slug_file: the name for a title and an id that have letters
    ItemFile,   \* "item.cook", the name for the others
    Library,    \* what web clients may put
    TypedLines, \* lines a user may type
    TypedHeads, \* what a user may make of the front matter
    PageIds,    \* recipe ids that index pages carry too (a tag, a category)
    Page,       \* an index page, for the server's index
    NoFile,     \* no file, no document
    Absent,     \* no recipe
    Saved,      \* what a user saved
    MaxMade,    \* bound: how often a recipe is made
    Budgets     \* bounds: runs and their failures, requests of web clients, starts
                \* of the server, edits in Helix

ASSUME WorkspaceAssumption ==
    /\ Page \notin Files
    /\ NoFile \notin Files
    /\ Page # NoFile
    /\ ItemFile \in Files
    /\ \A p \in DOMAIN FileName : FileName[p] \in Files
    /\ \A r \in Library : IsRecipe(r) /\ r.id \in Ids /\ r # Absent
    /\ \A l \in TypedLines : IsLine(l)

VARIABLES
    db,        \* the store's recipes
    stage,     \* how far the run has come
    fetched,   \* the recipes the run read
    todo,      \* those it has still to write
    links,     \* names linked in the cookbook and collection directories
    files,     \* the texts in recipes/
    written,   \* history: the recipe a run last wrote each file of, or Saved
    serving,   \* whether there is a language server
    documents, \* the texts the server holds of open documents
    index,     \* id_to_uri
    scanned,   \* history: the files that carried each id when the server started
    left       \* what is left of the budget

runVars    == <<stage, fetched, todo, links>>
diskVars   == <<files, written>>
serverVars == <<serving, documents, index, scanned>>
vars == <<db, runVars, diskVars, serverVars, left>>

Present(i) == db[i] # Absent
FetchedIds == {i \in Ids : fetched[i] # Absent}
\* recipe_file_name
FileOf(r) ==
    IF <<r.title, r.id>> \in DOMAIN FileName THEN FileName[<<r.title, r.id>>] ELSE ItemFile

\* recompute refuses empty lists and reversed pages, the primary keys refuse an
\* id used twice.
Accepts(r) ==
    /\ r.ingredients # <<>>
    /\ r.steps # <<>>
    /\ None \notin {r.pages[1], r.pages[2]} => r.pages[1] <= r.pages[2]
    /\ IsInjective([n \in DOMAIN r.ingredients |-> r.ingredients[n].id])
    /\ IsInjective([n \in DOMAIN r.steps |-> r.steps[n].id])

Init ==
    /\ db \in {s \in [Ids -> Library \cup {Absent}] :
                \A i \in Ids : s[i] # Absent => s[i].id = i /\ Accepts(s[i])}
    /\ stage = "idle"
    /\ fetched = [i \in Ids |-> Absent]
    /\ todo = {}
    /\ links = {}
    /\ files = [f \in Files |-> NoFile]
    /\ written = [f \in Files |-> Absent]
    /\ serving = FALSE
    /\ documents = [f \in Files |-> NoFile]
    /\ index = [i \in Ids |-> NoFile]
    /\ scanned = [i \in Ids |-> {}]
    /\ left \in Budgets

Spend(what) == left[what] > 0 /\ left' = [left EXCEPT ![what] = @ - 1]

-----------------------------------------------------------------------------
(* The store, and web clients                                              *)

\* Variant: a recipe that is not there is made.
PutOrCreate(r) ==
    /\ Accepts(r)
    /\ db' = [db EXCEPT ![r.id] = r]

\* Variant: times_made is taken from the request.
PutWithHistory(r) ==
    /\ Present(r.id)
    /\ Accepts(r)
    /\ db' = [db EXCEPT ![r.id] = r]

\* update_recipe: times_made is the store's.
Put(r) ==
    /\ Present(r.id)
    /\ Accepts(r)
    /\ db' = [db EXCEPT ![r.id] = [r EXCEPT !.made = db[r.id].made]]

\* POST /api/recipes
Create(r) ==
    /\ Spend("web")
    /\ ~ Present(r.id)
    /\ Accepts(r)
    /\ db' = [db EXCEPT ![r.id] = r]
    /\ UNCHANGED <<runVars, diskVars, serverVars>>

\* PUT /api/recipes/:id from the web client, and from the server in Save.
Update(r) ==
    /\ Spend("web")
    /\ Put(r)
    /\ UNCHANGED <<runVars, diskVars, serverVars>>

Delete(i) ==
    /\ Spend("web")
    /\ Present(i)
    /\ db' = [db EXCEPT ![i] = Absent]
    /\ UNCHANGED <<runVars, diskVars, serverVars>>

MarkMade(i) ==
    /\ Spend("web")
    /\ Present(i)
    /\ db[i].made < MaxMade
    /\ db' = [db EXCEPT ![i].made = @ + 1]
    /\ UNCHANGED <<runVars, diskVars, serverVars>>

-----------------------------------------------------------------------------
(* A run of materialize_workspace                                          *)

NamesOf(S) == {FileOf(fetched[i]) : i \in S}

Fetch ==
    /\ stage \in {"idle", "done", "failed"}
    /\ Spend("runs")
    /\ fetched' = db
    /\ stage' = "linking"
    /\ todo' = {}
    /\ UNCHANGED <<db, links, diskVars, serverVars>>

\* write_cookbook, for all of them: the links come before the files.
LinkCookbooks ==
    /\ stage = "linking"
    /\ links' = links \cup NamesOf(FetchedIds)
    /\ stage' = "writing"
    /\ todo' = FetchedIds
    /\ UNCHANGED <<db, fetched, diskVars, serverVars, left>>

\* Variant: a file that is there is left alone.
WriteFileOnce(f, r, text) ==
    IF files[f] = NoFile
    THEN files' = [files EXCEPT ![f] = text] /\ written' = [written EXCEPT ![f] = r]
    ELSE UNCHANGED diskVars

WriteFile(f, r, text) ==
    /\ files' = [files EXCEPT ![f] = text]
    /\ written' = [written EXCEPT ![f] = r]

\* write_recipe
WriteRecipe(i) ==
    /\ stage = "writing"
    /\ i \in todo
    /\ todo' = todo \ {i}
    /\ WriteFile(FileOf(fetched[i]), fetched[i], Write(fetched[i]))
    /\ UNCHANGED <<db, stage, fetched, links, serverVars, left>>

\* write_recipe_collections, and the end of the run.
LinkCollections ==
    /\ stage = "writing"
    /\ todo = {}
    /\ links' = links \cup NamesOf(FetchedIds)
    /\ stage' = "done"
    /\ UNCHANGED <<db, fetched, todo, diskVars, serverVars, left>>

\* What is there of a text when fs::write stops half way: within the front
\* matter, or after some of the lines.
Torn(text) ==
    {[meta |-> Other, body |-> <<>>], [meta |-> Broken, body |-> <<>>]}
    \cup {[text EXCEPT !.body = SubSeq(@, 1, n)] : n \in 0 .. Len(text.body) - 1}

\* A write fails or the run is killed.
LinkFails ==
    /\ stage = "linking"
    /\ Spend("faults")
    /\ \E S \in SUBSET FetchedIds : links' = links \cup NamesOf(S)
    /\ stage' = "failed"
    /\ UNCHANGED <<db, fetched, todo, diskVars, serverVars>>

WriteRecipeFails(i) ==
    /\ stage = "writing"
    /\ Spend("faults")
    /\ i \in todo
    /\ \E text \in Torn(Write(fetched[i])) :
         WriteFile(FileOf(fetched[i]), fetched[i], text)
    /\ stage' = "failed"
    /\ UNCHANGED <<db, fetched, todo, links, serverVars>>

-----------------------------------------------------------------------------
(* The language server                                                     *)

\* parse_metadata, and the recipe that index_document reads.
Carried(d) ==
    CASE d = NoFile \/ ~ IsCook(d) -> {}
      [] IsCook(d) /\ d.meta.id # None -> {d.meta.id}
      [] OTHER -> IF HasBase(d) THEN {BaseOf(d).id} ELSE {}

Carriers(i) == {f \in Files : files[f] # NoFile /\ i \in Carried(files[f])}

\* Variant: the index pages are read first.
ScannedPagesFirst(i, pages) ==
    CASE i \in pages -> {Page}
      [] i \notin pages /\ Carriers(i) # {} -> Carriers(i)
      [] OTHER -> {NoFile}

\* What may stand in the index for an id after scan_workspace, which reads
\* recipes/ before the index pages and lets the first stay.  A directory is
\* read in any order.
Scanned(i, pages) ==
    CASE Carriers(i) # {} -> Carriers(i)
      [] Carriers(i) = {} /\ i \in pages -> {Page}
      [] OTHER -> {NoFile}

\* initialize, also of a server started again.  A run may have left any of the
\* index pages.
Initialize ==
    /\ Spend("starts")
    /\ serving' = TRUE
    /\ \E pages \in SUBSET PageIds :
         /\ index' \in [Ids -> Files \cup {Page, NoFile}]
         /\ \A i \in Ids : index'[i] \in Scanned(i, pages)
    /\ scanned' = [i \in Ids |-> Carriers(i)]
    /\ documents' = [f \in Files |-> NoFile]
    /\ UNCHANGED <<db, runVars, diskVars>>

\* index_document
Indexed(target, ids) ==
    [i \in Ids |-> IF i \in ids /\ index[i] = NoFile THEN target ELSE index[i]]

\* did_open: Helix reads the file.
DidOpen(f) ==
    /\ serving
    /\ files[f] # NoFile
    /\ documents' = [documents EXCEPT ![f] = files[f]]
    /\ index' = Indexed(f, Carried(files[f]))
    /\ UNCHANGED <<db, runVars, diskVars, serving, scanned, left>>

\* did_open of the index page with this id.
DidOpenPage(i) ==
    /\ serving
    /\ i \in PageIds
    /\ index' = Indexed(Page, {i})
    /\ UNCHANGED <<db, runVars, diskVars, serving, documents, scanned, left>>

\* The texts one edit away.
Edited(d) ==
    LET lines == d.body
    IN  {[d EXCEPT !.body = RemoveAt(lines, n)] : n \in DOMAIN lines}
        \cup {[d EXCEPT !.body = InsertAt(lines, n, l)] :
                n \in DOMAIN lines, l \in TypedLines}
        \cup {[d EXCEPT !.body = [lines EXCEPT ![n] = lines[n + 1], ![n + 1] = lines[n]]] :
                n \in 1 .. Len(lines) - 1}
        \cup {[d EXCEPT !.meta = h] : h \in TypedHeads}

\* did_change
DidChange(f) ==
    /\ documents[f] # NoFile
    /\ Spend("edits")
    /\ \E d \in Edited(documents[f]) :
         /\ documents' = [documents EXCEPT ![f] = d]
         /\ index' = Indexed(f, Carried(d))
    /\ UNCHANGED <<db, runVars, diskVars, serving, scanned>>

\* Where definition sends the user, and what hover shows.
Definition(i) == index[i]

\* Helix writes the file before it tells the server.
SaveFile(f) ==
    /\ documents[f] # NoFile
    /\ files' = [files EXCEPT ![f] = documents[f]]
    /\ written' = [written EXCEPT ![f] = Saved]

\* did_save: the recipe read from the text is put.
SaveAccepted(f) ==
    /\ SaveFile(f)
    /\ HasBase(documents[f])
    /\ Put(Derived(documents[f]))
    /\ UNCHANGED <<runVars, serverVars, left>>

\* did_save: there is no recipe, the API refuses it, or the request is lost.
SaveRefused(f) ==
    /\ SaveFile(f)
    /\ UNCHANGED <<db, runVars, serverVars, left>>

-----------------------------------------------------------------------------
WebStep ==
    \/ \E r \in Library : Create(r) \/ Update(r)
    \/ \E i \in Ids : Delete(i) \/ MarkMade(i)

RunStep ==
    \/ Fetch
    \/ LinkCookbooks
    \/ LinkCollections
    \/ LinkFails
    \/ \E i \in Ids : WriteRecipe(i) \/ WriteRecipeFails(i)

ServerStep ==
    \/ Initialize
    \/ \E i \in Ids : DidOpenPage(i)
    \/ \E f \in Files : DidOpen(f) \/ DidChange(f) \/ SaveAccepted(f) \/ SaveRefused(f)

Next == WebStep \/ RunStep \/ ServerStep

Spec == Init /\ [][Next]_vars

-----------------------------------------------------------------------------
(* Properties                                                              *)

\* What the store holds it would accept, under its own id.
Sound(i, r) == IsRecipe(r) /\ r.id = i /\ Accepts(r)

TypeOK ==
    /\ \A i \in Ids : Present(i) => Sound(i, db[i])
    /\ \A i \in FetchedIds : Sound(i, fetched[i])
    /\ stage \in {"idle", "linking", "writing", "done", "failed"}
    /\ todo \subseteq FetchedIds
    /\ links \subseteq Files
    /\ index \in [Ids -> Files \cup {Page, NoFile}]
    /\ scanned \in [Ids -> SUBSET Files]
    /\ DOMAIN db = Ids /\ DOMAIN fetched = Ids
    /\ DOMAIN files = Files /\ DOMAIN written = Files /\ DOMAIN documents = Files
    /\ \A f \in Files : files[f] # NoFile => IsText(files[f])
    /\ \A f \in Files : documents[f] # NoFile => IsText(documents[f])

\* A step of one line of words.
IsParagraph(s) ==
    /\ s.text[1].kind = "words"
    /\ LET w == s.text[1].says
       IN  s.text = <<Words(w)>> /\ IsList(w) /\ w # <<>>

\* A recipe that its text can show: it has notes, its pages are both given, and
\* each step is a paragraph.
Plain(r) ==
    /\ r.notes # <<>>
    /\ r.pages = ShownPages(r.pages)
    /\ \A n \in DOMAIN r.ingredients : r.ingredients[n].position = n
    /\ \A n \in DOMAIN r.steps : r.steps[n].position = n /\ IsParagraph(r.steps[n])

\* A file nobody changed since a run wrote it, whole or cut short, saves the
\* recipe it was written of or none: what a run that failed leaves behind takes
\* no ingredient, step or page from the store.
UneditedSaveKeeps ==
    \A f \in Files :
        (written[f] \notin {Absent, Saved} /\ Plain(written[f]) /\ HasBase(files[f]))
            => Derived(files[f]) = written[f]

\* A recipe that was deleted, in the web client or since the file was written,
\* comes back only when a client posts it: no save of a document left over from
\* it, nor of one whose id was changed, makes it.
OnlyPostCreates ==
    [][\A i \in Ids :
         (db[i] = Absent /\ db'[i] # Absent)
            => \E r \in Library : r.id = i /\ Create(r)]_vars

\* However old the document, a save leaves the count of times made as it is.
SavesKeepHistory ==
    [][\A i \in Ids :
         (Present(i) /\ db'[i] # Absent /\ db'[i].made # db[i].made) => MarkMade(i)]_vars

\* What f holds is what the last run wrote there, or what a user saved since.
Intact(f, r) == written[f] = Saved \/ (written[f] = r /\ files[f] = Write(r))

\* When a run ends well, every recipe it read has a link and a whole file, also
\* over what earlier runs left; of recipes that share a file name one has it.
CompleteHasEveryRecipe ==
    stage = "done" =>
        \A i \in FetchedIds :
            LET f == FileOf(fetched[i])
            IN  /\ f \in links
                /\ \E j \in FetchedIds :
                     FileOf(fetched[j]) = f /\ Intact(f, fetched[j])

\* Going to the definition of an id that a recipe's file carried when the server
\* started leads to such a file: an index page with the same id, or a document
\* opened or edited since, does not take its place.
GotoFindsRecipes == \A i \in Ids : scanned[i] # {} => Definition(i) \in scanned[i]

\* The section a line is in.
InSection(d, n, s) ==
    \E m \in 1 .. n - 1 :
        /\ d.body[m].kind = "section" /\ d.body[m].to = s
        /\ \A k \in m + 1 .. n - 1 : d.body[k].kind # "section"

ItemLines(d) ==
    {n \in DOMAIN d.body : d.body[n].kind = "item" /\ InSection(d, n, "ingredients")}

\* The n-th line comes right after the directive of the base's k-th ingredient.
Names(d, base, n, k) == n > 1 /\ d.body[n - 1] = Directive("ingredient", base[k].id)

\* Every ingredient line comes right after the directive of one ingredient.
EachHasItsDirective(d, base) ==
    \A n \in ItemLines(d) : \E k \in DOMAIN base :
        /\ Names(d, base, n, k)
        /\ \A j \in DOMAIN base : base[j].id = base[k].id => j = k

\* A line without a name is read only if it is what its ingredient shows.
LinesRead(d, base) ==
    {n \in ItemLines(d) :
        \/ d.body[n].says # <<>>
        \/ \E k \in DOMAIN base :
             Names(d, base, n, k) /\ d.body[n] = Item(base[k].says, base[k].optional)}

Upto(S, n) == {m \in S : m <= n}

\* As long as the lines keep their directives, ingredients may be edited, moved
\* and removed: each line read is the ingredient its directive names, with what
\* no line shows of it, at the line's place.
DirectivesIdentify ==
    \A f \in Files :
        (documents[f] # NoFile /\ HasBase(documents[f]))
            => LET d     == documents[f]
                   base  == BaseOf(d).ingredients
                   lines == LinesRead(d, base)
                   list  == ReadIngredients(d, base)
               IN  EachHasItsDirective(d, base) =>
                     /\ Len(list) = Cardinality(lines)
                     /\ \A n \in lines, k \in DOMAIN base :
                          LET x == list[Cardinality(Upto(lines, n))]
                          IN  Names(d, base, n, k) =>
                                /\ x.id = base[k].id
                                /\ x.hidden = base[k].hidden
                                /\ x.says = d.body[n].says

\* The JSON at a file's end is, as the server's own message calls it, a block
\* comment: it is no part of the recipe's text.
BlockIsComment ==
    \A f \in Files :
        (files[f] # NoFile /\ HasBase(files[f]))
            => \A n \in DOMAIN Derived(files[f]).steps :
                 \A k \in DOMAIN Derived(files[f]).steps[n].text :
                   "json" \notin ToSet(Derived(files[f]).steps[n].text[k].says)

=============================================================================
