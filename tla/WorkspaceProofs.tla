---------------------------- MODULE WorkspaceProofs ----------------------------
(***************************************************************************)
(* What Workspace keeps for every library, every file name, whatever a     *)
(* user types, and any number of runs, saves and requests.                 *)
(***************************************************************************)
EXTENDS CookDocumentProofs

-----------------------------------------------------------------------------
(* Requests to the store                                                   *)

\* Whether a recipe is accepted is not a matter of how often it was made.
LEMMA MadeIsFree ==
    ASSUME NEW r, IsRecipe(r), NEW n
    PROVE  LET q == [r EXCEPT !.made = n]
           IN  /\ IsRecipe(q)
               /\ Accepts(r) => Accepts(q)
               /\ q.id = r.id
               /\ q.made = n
<1> DEFINE q == [r EXCEPT !.made = n]
<1>1. /\ q.id = r.id /\ q.title = r.title /\ q.category = r.category /\ q.pages = r.pages
      /\ q.ingredients = r.ingredients /\ q.steps = r.steps /\ q.notes = r.notes
      /\ q.made = n
    BY DEF IsRecipe
<1>2. q = [id |-> q.id, title |-> q.title, category |-> q.category, pages |-> q.pages,
           ingredients |-> q.ingredients, steps |-> q.steps, notes |-> q.notes,
           made |-> q.made]
    BY DEF IsRecipe
<1> HIDE DEF q
<1> QED
    BY <1>1, <1>2 DEF IsRecipe, Accepts, q

LEMMA NamesAreFiles == ASSUME NEW r PROVE FileOf(r) \in Files
    BY WorkspaceAssumption DEF FileOf

\* The store's part of a step.
Stored ==
    \/ UNCHANGED db
    \/ \E r : IsRecipe(r) /\ Put(r)
    \/ \E r \in Library : Create(r)
    \/ \E i \in Ids : Delete(i) \/ MarkMade(i)

\* The texts on disk and in the server are such as the parser takes.
Texts ==
    /\ \A f \in Files : files[f] # NoFile => IsText(files[f])
    /\ \A f \in Files : documents[f] # NoFile => IsText(documents[f])

\* Every step does to the store nothing, or one request.
LEMMA StepsStore == ASSUME Texts, [Next]_vars PROVE Stored
<1>1. CASE UNCHANGED vars
    BY <1>1 DEF vars, Stored
<1>2. ASSUME NEW r \in Library, Update(r) PROVE Stored
    BY <1>2, WorkspaceAssumption DEF Update, Stored
<1>3. ASSUME NEW f \in Files, SaveAccepted(f) PROVE Stored
  <2>1. IsText(documents[f]) /\ HasBase(documents[f])
    BY <1>3 DEF SaveAccepted, SaveFile, Texts
  <2>2. IsRecipe(Derived(documents[f]))
    BY <2>1, DerivedIsRecipe
  <2> QED
    BY <1>3, <2>2 DEF SaveAccepted, Stored
<1>4. CASE RunStep
    BY <1>4 DEF RunStep, Fetch, LinkCookbooks, LinkCollections, LinkFails, WriteRecipe,
                WriteRecipeFails, Stored
<1>5. ASSUME NEW f \in Files, DidOpen(f) \/ DidChange(f) \/ SaveRefused(f) PROVE Stored
    BY <1>5 DEF DidOpen, DidChange, SaveRefused, Stored
<1>6. CASE Initialize
    BY <1>6 DEF Initialize, Stored
<1>7. ASSUME NEW i \in Ids, DidOpenPage(i) PROVE Stored
    BY <1>7 DEF DidOpenPage, Stored
<1> QED
    BY <1>1, <1>2, <1>3, <1>4, <1>5, <1>6, <1>7 DEF Next, WebStep, ServerStep, Stored

-----------------------------------------------------------------------------
(* The state                                                               *)

LEMMA TextsInit == Init => Texts
    BY DEF Init, Texts

LEMMA TypeInit == Init => TypeOK
<1> SUFFICES ASSUME Init PROVE TypeOK
    OBVIOUS
<1>1. ASSUME NEW i \in Ids, Present(i) PROVE Sound(i, db[i])
  <2>1. db[i] \in Library
    BY <1>1 DEF Init, Present
  <2> QED
    BY <1>1, <2>1, WorkspaceAssumption DEF Init, Present, Sound
<1>2. FetchedIds = {}
    BY DEF Init, FetchedIds
<1> QED
    BY <1>1, <1>2, TextsInit DEF Init, TypeOK, Texts

\* What the store may hold.
Store(s) == DOMAIN s = Ids /\ \A i \in Ids : s[i] # Absent => Sound(i, s[i])

LEMMA StoreStep == ASSUME Store(db), Stored PROVE Store(db')
<1>1. CASE UNCHANGED db
    BY <1>1 DEF Store
<1>2. ASSUME NEW r, IsRecipe(r), Put(r) PROVE Store(db')
  <2> DEFINE n == db[r.id].made
             q == [r EXCEPT !.made = n]
  <2>1. IsRecipe(q) /\ Accepts(q) /\ q.id = r.id
    BY <1>2, MadeIsFree DEF Put
  <2>2. db' = [db EXCEPT ![r.id] = q]
    BY <1>2 DEF Put
  <2> HIDE DEF q
  <2>3. Sound(r.id, q)
    BY <2>1 DEF Sound
  <2> QED
    BY <2>2, <2>3 DEF Store
<1>3. ASSUME NEW r \in Library, Create(r) PROVE Store(db')
  <2>1. Sound(r.id, r)
    BY <1>3, WorkspaceAssumption DEF Create, Sound
  <2> QED
    BY <1>3, <2>1 DEF Create, Store
<1>4. ASSUME NEW i \in Ids, Delete(i) PROVE Store(db')
    BY <1>4 DEF Delete, Store
<1>5. ASSUME NEW i \in Ids, MarkMade(i) PROVE Store(db')
  <2> DEFINE q == [db[i] EXCEPT !.made = @ + 1]
  <2>1. Sound(i, db[i])
    BY <1>5 DEF MarkMade, Present, Store
  <2>2. IsRecipe(q) /\ Accepts(q) /\ q.id = db[i].id
    BY <2>1, MadeIsFree DEF Sound
  <2>3. db' = [db EXCEPT ![i] = q]
    BY <1>5 DEF MarkMade
  <2> HIDE DEF q
  <2>4. Sound(i, q)
    BY <2>1, <2>2 DEF Sound
  <2> QED
    BY <2>3, <2>4 DEF Store
<1> QED
    BY <1>1, <1>2, <1>3, <1>4, <1>5 DEF Stored

\* The rest of the types.
Shape ==
    /\ \A i \in FetchedIds : Sound(i, fetched[i])
    /\ stage \in {"idle", "linking", "writing", "done", "failed"}
    /\ todo \subseteq FetchedIds
    /\ links \subseteq Files
    /\ index \in [Ids -> Files \cup {Page, NoFile}]
    /\ scanned \in [Ids -> SUBSET Files]
    /\ DOMAIN fetched = Ids
    /\ DOMAIN files = Files
    /\ DOMAIN written = Files
    /\ DOMAIN documents = Files

LEMMA TypeParts == TypeOK <=> Store(db) /\ Shape /\ Texts
    BY DEF TypeOK, Store, Shape, Texts, Present

LEMMA LinksAreFiles == ASSUME NEW S PROVE NamesOf(S) \subseteq Files
    BY NamesAreFiles DEF NamesOf

LEMMA IndexedType ==
    ASSUME Shape, NEW t \in Files \cup {Page}, NEW ids
    PROVE  Indexed(t, ids) \in [Ids -> Files \cup {Page, NoFile}]
    BY DEF Shape, Indexed

LEMMA RunShape == ASSUME Shape, Store(db), RunStep PROVE Shape'
<1>1. CASE Fetch
    BY <1>1 DEF Fetch, Shape, Store, FetchedIds, diskVars, serverVars
<1>2. CASE LinkCookbooks
    BY <1>2, LinksAreFiles DEF LinkCookbooks, Shape, FetchedIds, diskVars, serverVars
<1>3. CASE LinkCollections
    BY <1>3, LinksAreFiles DEF LinkCollections, Shape, FetchedIds, diskVars, serverVars
<1>4. CASE LinkFails
    BY <1>4, LinksAreFiles DEF LinkFails, Shape, FetchedIds, diskVars, serverVars
<1>5. ASSUME NEW i \in Ids, WriteRecipe(i) PROVE Shape'
    BY <1>5 DEF WriteRecipe, WriteFile, Shape, FetchedIds, serverVars
<1>6. ASSUME NEW i \in Ids, WriteRecipeFails(i) PROVE Shape'
    BY <1>6 DEF WriteRecipeFails, WriteFile, Shape, FetchedIds, serverVars
<1> QED
    BY <1>1, <1>2, <1>3, <1>4, <1>5, <1>6 DEF RunStep

LEMMA ServerShape == ASSUME Shape, ServerStep PROVE Shape'
<1>1. CASE Initialize
  <2>1. \A i \in Ids : Carriers(i) \subseteq Files
    BY DEF Carriers
  <2>2. scanned' \in [Ids -> SUBSET Files]
    BY <1>1, <2>1 DEF Initialize
  <2> QED
    BY <1>1, <2>2 DEF Initialize, Shape, FetchedIds, runVars, diskVars
<1>2. ASSUME NEW i \in Ids, DidOpenPage(i) PROVE Shape'
    BY <1>2, IndexedType DEF DidOpenPage, Shape, FetchedIds, runVars, diskVars
<1>3. ASSUME NEW f \in Files, DidOpen(f) PROVE Shape'
    BY <1>3, IndexedType DEF DidOpen, Shape, FetchedIds, runVars, diskVars
<1>4. ASSUME NEW f \in Files, DidChange(f) PROVE Shape'
  <2>1. PICK d : /\ documents' = [documents EXCEPT ![f] = d]
                 /\ index' = Indexed(f, Carried(d))
    BY <1>4 DEF DidChange
  <2> QED
    BY <1>4, <2>1, IndexedType DEF DidChange, Shape, FetchedIds, runVars, diskVars
<1>5. ASSUME NEW f \in Files, SaveAccepted(f) \/ SaveRefused(f) PROVE Shape'
    BY <1>5 DEF SaveAccepted, SaveRefused, SaveFile, Shape, FetchedIds, runVars, serverVars
<1> QED
    BY <1>1, <1>2, <1>3, <1>4, <1>5 DEF ServerStep

\* An edit leaves a text.
LEMMA EditedIsText ==
    ASSUME NEW d, IsText(d), NEW e \in Edited(d)
    PROVE  IsText(e)
<1> DEFINE lines == d.body
           S     == ToSet(lines) \cup TypedLines
<1>1. /\ lines \in Seq(S)
      /\ Len(lines) \in Nat
      /\ DOMAIN lines = 1 .. Len(lines)
    BY DEF IsText, IsList
<1>2. \A l \in S : IsLine(l)
    BY WorkspaceAssumption DEF IsText, ToSet
<1>3. d = [meta |-> d.meta, body |-> lines]
    BY DEF IsText
<1> HIDE DEF S, lines
<1>4. ASSUME NEW body \in Seq(S), e = [meta |-> e.meta, body |-> body] PROVE IsText(e)
  <2>1. e.body = body
    BY <1>4
  <2>2. IsList(body)
    BY ListOf
  <2>3. \A n \in DOMAIN body : body[n] \in S
    BY <1>4
  <2> QED
    BY <1>2, <1>4, <2>1, <2>2, <2>3 DEF IsText
<1>5. ASSUME NEW n \in 1 .. Len(lines), e = [d EXCEPT !.body = RemoveAt(lines, n)]
      PROVE  IsText(e)
  <2>1. RemoveAt(lines, n) \in Seq(S)
    BY <1>1 DEF RemoveAt
  <2>2. e = [meta |-> d.meta, body |-> RemoveAt(lines, n)]
    BY <1>3, <1>5
  <2> QED
    BY <1>4, <2>1, <2>2
<1>6. ASSUME NEW n \in 1 .. Len(lines), NEW l \in TypedLines,
             e = [d EXCEPT !.body = InsertAt(lines, n, l)]
      PROVE  IsText(e)
  <2>1. InsertAt(lines, n, l) \in Seq(S)
    <3>1. l \in S
      BY DEF S
    <3> QED
      BY <1>1, <3>1 DEF InsertAt
  <2>2. e = [meta |-> d.meta, body |-> InsertAt(lines, n, l)]
    BY <1>3, <1>6
  <2> QED
    BY <1>4, <2>1, <2>2
<1>7. ASSUME NEW n \in 1 .. Len(lines) - 1,
             e = [d EXCEPT !.body = [lines EXCEPT ![n] = lines[n + 1],
                                                  ![n + 1] = lines[n]]]
      PROVE  IsText(e)
  <2> DEFINE body == [lines EXCEPT ![n] = lines[n + 1], ![n + 1] = lines[n]]
  <2>1. body \in Seq(S)
    BY <1>1
  <2>2. e = [meta |-> d.meta, body |-> body]
    BY <1>3, <1>7
  <2> HIDE DEF body
  <2> QED
    BY <1>4, <2>1, <2>2
<1>8. ASSUME NEW h, e = [d EXCEPT !.meta = h] PROVE IsText(e)
  <2>1. e = [meta |-> h, body |-> lines]
    BY <1>3, <1>8
  <2> QED
    BY <1>1, <1>4, <2>1
<1> QED
  <2>1. Edited(d) =
          {[d EXCEPT !.body = RemoveAt(lines, n)] : n \in DOMAIN lines}
          \cup {[d EXCEPT !.body = InsertAt(lines, n, l)] :
                  n \in DOMAIN lines, l \in TypedLines}
          \cup {[d EXCEPT !.body = [lines EXCEPT ![n] = lines[n + 1],
                                                 ![n + 1] = lines[n]]] :
                  n \in 1 .. Len(lines) - 1}
          \cup {[d EXCEPT !.meta = h] : h \in TypedHeads}
    BY DEF Edited, lines
  <2> QED
    BY <1>1, <1>5, <1>6, <1>7, <1>8, <2>1

LEMMA TextsStep == ASSUME Shape, Texts, [Next]_vars PROVE Texts'
<1>1. ASSUME UNCHANGED <<files, documents>> PROVE Texts'
    BY <1>1 DEF Texts
<1>2. CASE UNCHANGED vars \/ WebStep \/ Fetch \/ LinkCookbooks \/ LinkCollections \/ LinkFails
    BY <1>1, <1>2 DEF vars, WebStep, Create, Update, Delete, MarkMade, Fetch, LinkCookbooks,
                      LinkCollections, LinkFails, diskVars, serverVars
<1>3. ASSUME NEW i \in Ids, WriteRecipe(i) PROVE Texts'
  <2>1. Sound(i, fetched[i])
    BY <1>3 DEF WriteRecipe, Shape
  <2>2. IsText(Write(fetched[i]))
    BY <2>1, WrittenBase DEF Sound
  <2> QED
    BY <1>3, <2>2 DEF WriteRecipe, WriteFile, Texts, Shape, serverVars
<1>4. ASSUME NEW i \in Ids, WriteRecipeFails(i) PROVE Texts'
  <2>1. Sound(i, fetched[i])
    BY <1>4 DEF WriteRecipeFails, Shape
  <2>2. PICK text \in Torn(Write(fetched[i])) :
          WriteFile(FileOf(fetched[i]), fetched[i], text)
    BY <1>4 DEF WriteRecipeFails
  <2>3. IsText(text)
    BY <2>1, TornHoldsNone DEF Sound
  <2> QED
    BY <1>4, <2>2, <2>3 DEF WriteRecipeFails, WriteFile, Texts, Shape, serverVars
<1>5. CASE Initialize
    BY <1>5 DEF Initialize, Texts, diskVars
<1>6. ASSUME NEW i \in Ids, DidOpenPage(i) PROVE Texts'
    BY <1>1, <1>6 DEF DidOpenPage, diskVars
<1>7. ASSUME NEW f \in Files, DidOpen(f) PROVE Texts'
    BY <1>7 DEF DidOpen, Texts, Shape, diskVars
<1>8. ASSUME NEW f \in Files, DidChange(f) PROVE Texts'
  <2>1. PICK d \in Edited(documents[f]) : documents' = [documents EXCEPT ![f] = d]
    BY <1>8 DEF DidChange
  <2>2. IsText(d)
    BY <1>8, EditedIsText DEF DidChange, Texts
  <2> QED
    BY <1>8, <2>1, <2>2 DEF DidChange, Texts, Shape, diskVars
<1>9. ASSUME NEW f \in Files, SaveAccepted(f) \/ SaveRefused(f) PROVE Texts'
    BY <1>9 DEF SaveAccepted, SaveRefused, SaveFile, Texts, Shape, serverVars
<1> QED
    BY <1>2, <1>3, <1>4, <1>5, <1>6, <1>7, <1>8, <1>9 DEF Next, RunStep, ServerStep

LEMMA TypeStep == TypeOK /\ [Next]_vars => TypeOK'
<1> SUFFICES ASSUME TypeOK, [Next]_vars PROVE TypeOK'
    OBVIOUS
<1>1. Store(db) /\ Shape /\ Texts
    BY TypeParts
<1>2. Store(db') /\ Texts'
    BY <1>1, StepsStore, StoreStep, TextsStep
<1>3. ASSUME UNCHANGED vars \/ WebStep PROVE Shape'
    BY <1>1, <1>3 DEF vars, WebStep, Create, Update, Delete, MarkMade, runVars, diskVars,
                      serverVars, Shape, FetchedIds
<1>4. Shape'
    BY <1>1, <1>3, RunShape, ServerShape DEF Next
<1> QED
    BY <1>2, <1>4 DEF TypeOK, Store, Shape, Texts, Present

\* The store holds only what it would accept, files and documents only texts with
\* whole recipes, the server only names of files.
THEOREM TypeCorrect == Spec => []TypeOK
    BY TypeInit, TypeStep, PTL DEF Spec

-----------------------------------------------------------------------------
(* Saves and the store                                                     *)

\* A step of the store makes a recipe that was not there only by Create.
LEMMA OnlyCreateAdds ==
    ASSUME Store(db), Stored, NEW i \in Ids, db[i] = Absent, db'[i] # Absent
    PROVE  \E r \in Library : r.id = i /\ Create(r)
<1>1. ASSUME NEW r, Put(r) PROVE FALSE
    BY <1>1 DEF Put, Store, Present
<1>2. ASSUME NEW r \in Library, Create(r) PROVE r.id = i
    BY <1>2 DEF Create, Store
<1>3. ASSUME NEW j \in Ids, Delete(j) \/ MarkMade(j) PROVE FALSE
    BY <1>3 DEF Delete, MarkMade, Store, Present
<1> QED
    BY <1>1, <1>2, <1>3 DEF Stored

AddedByPost ==
    \A i \in Ids :
        (db[i] = Absent /\ db'[i] # Absent) => \E r \in Library : r.id = i /\ Create(r)

\* No save brings back a recipe that was deleted, whatever its document became.
THEOREM PostCreates == Spec => OnlyPostCreates
<1>1. TypeOK /\ [Next]_vars => [AddedByPost]_vars
    BY TypeParts, StepsStore, OnlyCreateAdds DEF AddedByPost
<1> QED
    BY <1>1, TypeCorrect, PTL DEF Spec, OnlyPostCreates, AddedByPost

\* A step of the store changes a count only by MarkMade.
LEMMA OnlyMarkingCounts ==
    ASSUME Store(db), Stored, NEW i \in Ids, Present(i), db'[i] # Absent,
           db'[i].made # db[i].made
    PROVE  MarkMade(i)
<1>1. ASSUME NEW r, IsRecipe(r), Put(r) PROVE FALSE
  <2>1. [r EXCEPT !.made = db[r.id].made].made = db[r.id].made
    BY <1>1, MadeIsFree
  <2> QED
    BY <1>1, <2>1 DEF Put, Store, Present
<1>2. ASSUME NEW r \in Library, Create(r) PROVE FALSE
    BY <1>2 DEF Create, Store, Present
<1>3. ASSUME NEW j \in Ids, Delete(j) PROVE FALSE
    BY <1>3 DEF Delete, Store, Present
<1>4. ASSUME NEW j \in Ids, MarkMade(j) PROVE j = i
    BY <1>4 DEF MarkMade, Store, Present
<1> QED
    BY <1>1, <1>2, <1>3, <1>4 DEF Stored

CountedByMark ==
    \A i \in Ids :
        (Present(i) /\ db'[i] # Absent /\ db'[i].made # db[i].made) => MarkMade(i)

\* No save, of however old a document, sets back how often a recipe was made.
THEOREM HistoryStays == Spec => SavesKeepHistory
<1>1. TypeOK /\ [Next]_vars => [CountedByMark]_vars
    BY TypeParts, StepsStore, OnlyMarkingCounts DEF CountedByMark
<1> QED
    BY <1>1, TypeCorrect, PTL DEF Spec, SavesKeepHistory, CountedByMark

-----------------------------------------------------------------------------
(* A run that ended well                                                   *)

\* A recipe of the run has its link and a file.
Finished(i) ==
    LET f == FileOf(fetched[i])
    IN  /\ f \in links
        /\ \E j \in FetchedIds : FileOf(fetched[j]) = f /\ Intact(f, fetched[j])

Linked == \A i \in FetchedIds : FileOf(fetched[i]) \in links

\* What the run has behind it at each stage.
Progress ==
    /\ stage \in {"writing", "done"} => Linked
    /\ stage \in {"writing", "done"} => \A i \in FetchedIds \ todo : Finished(i)
    /\ stage = "done" => todo = {}

LEMMA ProgressInit == Init => Progress
    BY DEF Init, Progress

\* Files and names as they were leave what is finished so.
LEMMA FinishedStays ==
    ASSUME NEW i, Finished(i), UNCHANGED <<fetched, diskVars>>, links \subseteq links'
    PROVE  Finished(i)'
    BY DEF Finished, FetchedIds, Intact, diskVars

\* A user's save of any file leaves every recipe with one.
LEMMA FinishedSaved ==
    ASSUME Shape, NEW i, Finished(i), NEW f \in Files, SaveFile(f),
           UNCHANGED <<fetched, links>>
    PROVE  Finished(i)'
<1>1. PICK j \in FetchedIds :
        FileOf(fetched[j]) = FileOf(fetched[i]) /\ Intact(FileOf(fetched[i]), fetched[j])
    BY DEF Finished
<1>2. Intact(FileOf(fetched[i]), fetched[j])'
    BY <1>1 DEF SaveFile, Intact, Shape
<1> QED
    BY <1>1, <1>2 DEF Finished, FetchedIds

LEMMA ProgressWrite ==
    ASSUME Shape, Progress, NEW i \in Ids, WriteRecipe(i)
    PROVE  Progress'
<1> DEFINE f == FileOf(fetched[i])
<1>1. i \in FetchedIds /\ f \in Files /\ Linked
    BY NamesAreFiles DEF WriteRecipe, Shape, Progress
<1>2. Linked'
    BY <1>1 DEF WriteRecipe, Linked, FetchedIds
<1>3. Intact(f, fetched[i])'
    BY <1>1 DEF WriteRecipe, WriteFile, Intact, Shape
<1>4. ASSUME NEW k \in FetchedIds, k \notin todo' PROVE Finished(k)'
  <2>1. CASE FileOf(fetched[k]) = f
    BY <1>1, <1>3, <2>1 DEF WriteRecipe, Finished, FetchedIds, Linked
  <2>2. CASE FileOf(fetched[k]) # f
    <3>1. k \notin todo /\ Finished(k)
      BY <1>4, <2>2 DEF WriteRecipe, Progress
    <3>2. PICK j \in FetchedIds :
            FileOf(fetched[j]) = FileOf(fetched[k]) /\ Intact(FileOf(fetched[k]), fetched[j])
      BY <3>1 DEF Finished
    <3>3. Intact(FileOf(fetched[k]), fetched[j])'
      BY <2>2, <3>2 DEF WriteRecipe, WriteFile, Intact, Shape
    <3> QED
      BY <3>1, <3>2, <3>3 DEF WriteRecipe, Finished, FetchedIds
  <2> QED
    BY <2>1, <2>2
<1> QED
    BY <1>2, <1>4 DEF WriteRecipe, Progress, FetchedIds

LEMMA ProgressStep == TypeOK /\ Progress /\ [Next]_vars => Progress'
<1> SUFFICES ASSUME Shape, Progress, [Next]_vars PROVE Progress'
    BY TypeParts
<1>1. ASSUME UNCHANGED <<runVars, diskVars>> PROVE Progress'
    BY <1>1, FinishedStays DEF runVars, Progress, Linked, FetchedIds
<1>2. CASE UNCHANGED vars \/ WebStep
    BY <1>1, <1>2 DEF vars, WebStep, Create, Update, Delete, MarkMade
<1>3. CASE Fetch \/ LinkFails
    BY <1>3 DEF Fetch, LinkFails, Progress
<1>4. CASE LinkCookbooks
    BY <1>4 DEF LinkCookbooks, Progress, Linked, NamesOf, FetchedIds
<1>5. CASE LinkCollections
    BY <1>5, FinishedStays DEF LinkCollections, Progress, Linked, FetchedIds
<1>6. ASSUME NEW i \in Ids, WriteRecipe(i) \/ WriteRecipeFails(i) PROVE Progress'
    BY <1>6, ProgressWrite DEF WriteRecipeFails, Progress
<1>7. ASSUME NEW f \in Files, DidOpen(f) \/ DidChange(f) PROVE Progress'
    BY <1>1, <1>7 DEF DidOpen, DidChange
<1>8. ASSUME NEW f \in Files, SaveAccepted(f) \/ SaveRefused(f) PROVE Progress'
    BY <1>8, FinishedSaved DEF SaveAccepted, SaveRefused, runVars, Progress, Linked, FetchedIds
<1>9. CASE Initialize
    BY <1>1, <1>9 DEF Initialize
<1>10. ASSUME NEW i \in Ids, DidOpenPage(i) PROVE Progress'
    BY <1>1, <1>10 DEF DidOpenPage
<1> QED
    BY <1>2, <1>3, <1>4, <1>5, <1>6, <1>7, <1>8, <1>9, <1>10 DEF Next, RunStep, ServerStep

LEMMA ProgressCompletes == Progress => CompleteHasEveryRecipe
    BY DEF Progress, Finished, CompleteHasEveryRecipe

\* When a run ends well, every recipe it read has a link and a whole file.
THEOREM CompleteWritten == Spec => []CompleteHasEveryRecipe
    BY ProgressInit, ProgressStep, ProgressCompletes, TypeCorrect, PTL DEF Spec

-----------------------------------------------------------------------------
(* The server's index                                                      *)

LEMMA GotoInit == Init => GotoFindsRecipes
    BY DEF Init, GotoFindsRecipes

\* What is in the index stays there.
LEMMA IndexKept ==
    ASSUME Shape, GotoFindsRecipes, NEW t, NEW ids, index' = Indexed(t, ids),
           UNCHANGED scanned
    PROVE  GotoFindsRecipes'
    BY WorkspaceAssumption DEF GotoFindsRecipes, Definition, Indexed, Shape

LEMMA GotoStep == TypeOK /\ GotoFindsRecipes /\ [Next]_vars => GotoFindsRecipes'
<1> SUFFICES ASSUME Shape, GotoFindsRecipes, [Next]_vars PROVE GotoFindsRecipes'
    BY TypeParts
<1>1. ASSUME UNCHANGED <<index, scanned>> PROVE GotoFindsRecipes'
    BY <1>1 DEF GotoFindsRecipes, Definition
<1>2. CASE UNCHANGED vars \/ WebStep \/ RunStep
    BY <1>1, <1>2 DEF vars, WebStep, Create, Update, Delete, MarkMade, RunStep, Fetch,
                      LinkCookbooks, LinkCollections, LinkFails, WriteRecipe,
                      WriteRecipeFails, serverVars
<1>3. CASE Initialize
    BY <1>3 DEF Initialize, Scanned, GotoFindsRecipes, Definition
<1>4. ASSUME NEW i \in Ids, DidOpenPage(i) PROVE GotoFindsRecipes'
    BY <1>4, IndexKept DEF DidOpenPage
<1>5. ASSUME NEW f \in Files, DidOpen(f) \/ DidChange(f) PROVE GotoFindsRecipes'
    BY <1>5, IndexKept DEF DidOpen, DidChange
<1>6. ASSUME NEW f \in Files, SaveAccepted(f) \/ SaveRefused(f) PROVE GotoFindsRecipes'
    BY <1>1, <1>6 DEF SaveAccepted, SaveRefused, serverVars
<1> QED
    BY <1>2, <1>3, <1>4, <1>5, <1>6 DEF Next, ServerStep

\* An id that a recipe's file carried at the scan leads to such a file for as
\* long as the server lives.
THEOREM GotoFinds == Spec => []GotoFindsRecipes
    BY GotoInit, GotoStep, TypeCorrect, PTL DEF Spec

-----------------------------------------------------------------------------
(* Files nobody changed                                                    *)

\* A file that no user saved is the whole text of a recipe, or a part of it.
WrittenBy(f, r) ==
    /\ IsRecipe(r)
    /\ Accepts(r)
    /\ files[f] = Write(r) \/ files[f] \in Torn(Write(r))

FilesAsWritten ==
    \A f \in Files : written[f] \in {Absent, Saved} \/ WrittenBy(f, written[f])

LEMMA FilesInit == Init => FilesAsWritten
    BY DEF Init, FilesAsWritten

LEMMA FilesStep == TypeOK /\ FilesAsWritten /\ [Next]_vars => FilesAsWritten'
<1> SUFFICES ASSUME Shape, FilesAsWritten, [Next]_vars PROVE FilesAsWritten'
    BY TypeParts
<1>1. ASSUME UNCHANGED diskVars PROVE FilesAsWritten'
    BY <1>1 DEF diskVars, FilesAsWritten, WrittenBy
<1>2. CASE UNCHANGED vars \/ WebStep \/ Fetch \/ LinkCookbooks \/ LinkCollections \/ LinkFails
    BY <1>1, <1>2 DEF vars, WebStep, Create, Update, Delete, MarkMade, Fetch, LinkCookbooks,
                      LinkCollections, LinkFails
<1>3. ASSUME NEW i \in Ids, WriteRecipe(i) PROVE FilesAsWritten'
  <2>1. IsRecipe(fetched[i]) /\ Accepts(fetched[i])
    BY <1>3 DEF WriteRecipe, Shape, Sound
  <2> QED
    BY <1>3, <2>1 DEF WriteRecipe, WriteFile, FilesAsWritten, WrittenBy, Shape
<1>4. ASSUME NEW i \in Ids, WriteRecipeFails(i) PROVE FilesAsWritten'
  <2>1. IsRecipe(fetched[i]) /\ Accepts(fetched[i])
    BY <1>4 DEF WriteRecipeFails, Shape, Sound
  <2>2. PICK text \in Torn(Write(fetched[i])) :
          WriteFile(FileOf(fetched[i]), fetched[i], text)
    BY <1>4 DEF WriteRecipeFails
  <2> QED
    BY <2>1, <2>2 DEF WriteFile, FilesAsWritten, WrittenBy, Shape
<1>5. CASE Initialize
    BY <1>1, <1>5 DEF Initialize
<1>6. ASSUME NEW i \in Ids, DidOpenPage(i) PROVE FilesAsWritten'
    BY <1>1, <1>6 DEF DidOpenPage
<1>7. ASSUME NEW f \in Files, DidOpen(f) \/ DidChange(f) PROVE FilesAsWritten'
    BY <1>1, <1>7 DEF DidOpen, DidChange
<1>8. ASSUME NEW f \in Files, SaveAccepted(f) \/ SaveRefused(f) PROVE FilesAsWritten'
    BY <1>8 DEF SaveAccepted, SaveRefused, SaveFile, FilesAsWritten, WrittenBy, Shape
<1> QED
    BY <1>2, <1>3, <1>4, <1>5, <1>6, <1>7, <1>8 DEF Next, RunStep, ServerStep

LEMMA FilesKeep == FilesAsWritten => UneditedSaveKeeps
<1> SUFFICES ASSUME FilesAsWritten, NEW f \in Files, written[f] \notin {Absent, Saved},
                    Plain(written[f]), HasBase(files[f])
             PROVE  Derived(files[f]) = written[f]
    BY DEF UneditedSaveKeeps
<1>1. WrittenBy(f, written[f])
    BY DEF FilesAsWritten
<1>2. files[f] = Write(written[f])
    BY <1>1, TornHoldsNone DEF WrittenBy
<1> QED
    BY <1>1, <1>2, RoundTrip DEF WrittenBy

\* Whatever runs left behind, whole or cut short, an untouched file saves the
\* recipe it was written of or none.
THEOREM UneditedKept == Spec => []UneditedSaveKeeps
    BY FilesInit, FilesStep, FilesKeep, TypeCorrect, PTL DEF Spec

-----------------------------------------------------------------------------
(* Documents whose lines kept their directives                             *)

LEMMA TextsIdentify == TypeOK => DirectivesIdentify
<1> SUFFICES ASSUME TypeOK, NEW f \in Files, documents[f] # NoFile, HasBase(documents[f]),
                    EachHasItsDirective(documents[f], BaseOf(documents[f]).ingredients)
             PROVE  LET d     == documents[f]
                        base  == BaseOf(d).ingredients
                        lines == LinesRead(d, base)
                        list  == ReadIngredients(d, base)
                    IN  /\ Len(list) = Cardinality(lines)
                        /\ \A n \in lines, k \in DOMAIN base :
                             LET x == list[Cardinality(Upto(lines, n))]
                             IN  Names(d, base, n, k) =>
                                   /\ x.id = base[k].id
                                   /\ x.hidden = base[k].hidden
                                   /\ x.says = d.body[n].says
    BY DEF DirectivesIdentify
<1> DEFINE d    == documents[f]
           base == BaseOf(d).ingredients
<1>1. IsText(d)
    BY DEF TypeOK
<1>2. IsList(d.body)
    BY <1>1 DEF IsText
<1>3. IsList(base) /\ \A k \in DOMAIN base : IsIngredient(base[k])
    BY <1>1, BaseIsRecipe DEF IsRecipe
<1>4. /\ Len(ReadIngredients(d, base)) = Cardinality(LinesRead(d, base))
      /\ \A n \in LinesRead(d, base) : EntryOf(d, base, ReadIngredients(d, base), n)
    BY <1>2, <1>3, TextIdentifies
<1> QED
    BY <1>4 DEF EntryOf

\* For any text and any edits of it: an ingredient line under its directive is
\* that ingredient, with what no line shows, at the line's place.
THEOREM DirectivesKept == Spec => []DirectivesIdentify
    BY TextsIdentify, TypeCorrect, PTL

=============================================================================
