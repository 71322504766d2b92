------------------------------ MODULE UploadsProofs ------------------------------
(***************************************************************************)
(* Proofs about Uploads.                                                   *)
(*                                                                         *)
(* The inductive invariant says where each request stands (Standing), that *)
(* every image a request is done with has its file in full (Kept), that    *)
(* only imports have pages (Owned), and that what an archive lists so far  *)
(* are the images the walk has passed, numbered (Counted).                 *)
(***************************************************************************)
EXTENDS Uploads, FiniteSetTheorems, TLAPS

\* Where a request stands, by its program counter and its kind.
StandingOf(u) ==
    /\ Len(sent[u]) <= MaxPages
    /\ at[u] <= Len(sent[u])
    /\ pc[u] = "idle" => at[u] = 0 /\ kind[u] = "none"
    /\ pc[u] # "done" => reply[u] \in {"none", "lost"}
    /\ pc[u] \in {"streaming", "storing", "writing"} =>
          kind[u] \in {"archive", "image"} /\ Len(listing[u]) <= at[u]
    /\ pc[u] = "streaming" => at[u] = 0 /\ kind[u] = "archive"
    /\ pc[u] = "writing" => AtImage(u)
    /\ pc[u] = "checking" => kind[u] = "image" /\ at[u] = 1
    /\ pc[u] = "persisting" => kind[u] \in {"archive", "set"}
    /\ kind[u] = "image" => \E x \in Images : sent[u] = <<x>>
    /\ kind[u] = "image" /\ reply[u] = "ok" => at[u] = 1

Standing == \A u \in Uploads : StandingOf(u)

\* No file is ever partial, and what a request has handled is in its file.
KeptOf(u) ==
    /\ \A n \in 1 .. at[u] : sent[u][n] # NoImage => files[sent[u][n]] = "whole"
    /\ \A n \in DOMAIN listing[u] :
          listing[u][n].image # NoHash => files[listing[u][n].image] = "whole"

SeenBy(v) ==
    /\ vpc[v] \in {"looking", "encoding", "reading"} => vimage[v] \in Images
    /\ vpc[v] = "reading" => derived[vimage[v]] # "none"

Kept ==
    /\ \A x \in Images : files[x] # "partial" /\ derived[x] # "partial"
    /\ \A u \in Uploads : KeptOf(u)
    /\ \A v \in Viewers : SeenBy(v)
    /\ PagesHaveFiles

\* Pages belong to imports, and imports to requests that are done.
OwnedBy(u) ==
    /\ u \in imports => pc[u] = "done" /\ kind[u] # "image" /\ reply[u] \in {"ok", "lost"}
    /\ u \notin imports => \A n \in Index : rows[<<u, n>>] = NoImage
    /\ reply[u] = "ok" => kind[u] = "image" \/ u \in imports

Owned == \A u \in Uploads : OwnedBy(u)

IInv == TypeOK /\ Standing /\ Kept

-----------------------------------------------------------------------------
(* Types                                                                   *)

LEMMA ConstantsTyped ==
    /\ MaxPages \in Nat \ {0}
    /\ NoImage \notin Images
    /\ NoHash \notin Images \cup {NoImage}
    /\ \A a \in Archives : a \in Seq(Entry) /\ Len(a) <= MaxPages
    /\ 1 \in Index
BY UploadsAssumption DEF Entry, Index

\* Everybody's types but the viewers'.
StoreTypes ==
    /\ cookbook \in BOOLEAN
    /\ imports \in SUBSET Uploads
    /\ rows \in [Uploads \X Index -> Entry \cup {NoHash}]

UploadTypes ==
    /\ kind \in [Uploads -> {"none", "archive", "image", "set"}]
    /\ sent \in [Uploads -> Seq(Entry)]
    /\ at \in [Uploads -> Nat]
    /\ listing \in [Uploads -> Seq(Listed)]
    /\ pc \in [Uploads -> Working \cup {"idle", "done"}]
    /\ reply \in [Uploads -> Replies]

ViewTypes ==
    /\ vpc \in [Viewers -> {"idle", "looking", "encoding", "reading", "plain"}]
    /\ vimage \in [Viewers -> Entry \cup {NoHash}]

FileTypes == files \in [Images -> File] /\ derived \in [Images -> File]

LEMMA TypesSplit ==
    /\ TypeOK <=> StoreTypes /\ UploadTypes /\ ViewTypes /\ FileTypes
    /\ TypeOK' <=> StoreTypes' /\ UploadTypes' /\ ViewTypes' /\ FileTypes'
BY DEF TypeOK, StoreTypes, UploadTypes, ViewTypes, FileTypes

\* The current entry of a request at an image is an image, and its page fits.
LEMMA CurrentTyped ==
    ASSUME TypeOK, Standing, NEW u \in Uploads, AtImage(u),
           pc[u] \in {"storing", "writing"}
    PROVE  /\ Current(u) \in Images
           /\ WithPage(u) \in Seq(Listed)
           /\ Len(WithPage(u)) = Len(listing[u]) + 1
           /\ \A n \in DOMAIN listing[u] : WithPage(u)[n] = listing[u][n]
           /\ WithPage(u)[Len(listing[u]) + 1] = [index |-> Len(listing[u]) + 1, image |-> Current(u)]
<1>1. sent[u] \in Seq(Entry) /\ at[u] \in Nat /\ listing[u] \in Seq(Listed)
  BY DEF TypeOK
<1>2. at[u] + 1 \in 1 .. Len(sent[u])
  BY <1>1 DEF AtImage
<1>3. Current(u) \in Images
  BY <1>1, <1>2 DEF AtImage, Current, Entry
<1>4. Len(listing[u]) <= at[u] /\ Len(sent[u]) <= MaxPages
  BY DEF Standing, StandingOf
<1>5. Len(listing[u]) + 1 \in Index
  BY <1>1, <1>2, <1>4, ConstantsTyped DEF Index
<1>6. [index |-> Len(listing[u]) + 1, image |-> Current(u)] \in Listed
  BY <1>3, <1>5 DEF Listed
<1> HIDE DEF Listed, Current
<1> QED
  BY <1>1, <1>3, <1>6 DEF WithPage


\* What the steps of a request that neither store nor persist have in common.
Turn ==
    /\ UNCHANGED <<storeVars, files, derived, kind, sent, listing, viewVars>>
    /\ UploadTypes'

StoreStep(u) ==
    /\ pc[u] \in {"storing", "writing"} /\ AtImage(u)
    /\ files[Current(u)] # "none" \/ files'[Current(u)] = "whole"
    /\ files' = files \/ files' = [files EXCEPT ![Current(u)] = "whole"]
    /\ Stored(u)
    /\ UNCHANGED <<storeVars, derived, kind, sent, viewVars>>

\* The three ways to have an image in its file.
LEMMA Storing ==
    ASSUME IInv, NEW u \in Uploads,
           \/ FindFile(u) \/ Publish(u)
           \/ WriteFails(u) /\ files[Current(u)] # "none"
    PROVE  StoreStep(u)
<1>1. CASE FindFile(u)
  BY <1>1 DEF FindFile, StoreStep
<1>2. CASE Publish(u)
  <2>1. AtImage(u) /\ pc[u] = "writing"
    BY <1>2 DEF Publish, IInv, Standing, StandingOf
  <2>2. Current(u) \in Images
    BY <2>1, CurrentTyped DEF IInv
  <2>3. files'[Current(u)] = "whole"
    BY <1>2, <2>2 DEF Publish, IInv, TypeOK
  <2> QED
    BY <1>2, <2>1, <2>3 DEF Publish, StoreStep
<1>3. CASE WriteFails(u) /\ files[Current(u)] # "none"
  <2>1. AtImage(u) /\ pc[u] = "writing"
    BY <1>3 DEF WriteFails, IInv, Standing, StandingOf
  <2> QED
    BY <1>3, <2>1 DEF WriteFails, StoreStep
<1> QED
  BY <1>1, <1>2, <1>3

LEMMA UploadStepsSplit ==
    ASSUME IInv, NEW u \in Uploads, UploadSteps(u)
    PROVE  Turn \/ StoreStep(u) \/ Persist(u)
<1>1. UploadTypes
  BY TypesSplit DEF IInv
<1>2. CASE Stream(u) \/ HangUp(u)
  BY <1>1, <1>2 DEF Stream, HangUp, Answer, Turn, UploadTypes, Working, Replies
<1>3. CASE PassOver(u)
  BY <1>1, <1>3 DEF PassOver, Turn, UploadTypes, Working, Replies
<1>4. CASE RefuseRepeated(u) \/ RefuseEntry(u)
  BY <1>1, <1>4 DEF RefuseRepeated, RefuseEntry, Answer, Turn, UploadTypes, Working, Replies
<1>5. CASE FindFile(u) \/ Publish(u) \/ (WriteFails(u) /\ files[Current(u)] # "none")
  BY <1>5, Storing
<1>6. CASE BeginWrite(u)
  BY <1>1, <1>6 DEF BeginWrite, Turn, UploadTypes, Working, Replies
<1>7. CASE WriteFails(u) /\ files[Current(u)] = "none"
  BY <1>1, <1>7 DEF WriteFails, Answer, Turn, UploadTypes, Working, Replies
<1>8. CASE StoredAll(u)
  BY <1>1, <1>8 DEF StoredAll, Await, Answer, Turn, UploadTypes, Working, Replies
<1>9. CASE Check(u)
  BY <1>1, <1>9 DEF Check, Answer, Turn, UploadTypes, Working, Replies
<1>10. CASE PersistRefused(u) \/ PersistFails(u)
  BY <1>1, <1>10 DEF PersistRefused, PersistFails, Answer, Turn, UploadTypes, Working, Replies
<1> QED
  BY <1>2, <1>3, <1>4, <1>5, <1>6, <1>7, <1>8, <1>9, <1>10 DEF UploadSteps


\* A row after the upserts is one of the request's pages or what it was.
LEMMA RowsOfCases ==
    ASSUME TypeOK, NEW u \in Uploads, NEW id \in Uploads \X Index
    PROVE  LET new == RowsOf(u, Len(listing[u]))
           IN  \/ new[id] = rows[id]
               \/ /\ id[1] = u
                  /\ \E m \in DOMAIN listing[u] :
                       /\ listing[u][m].index = id[2]
                       /\ new[id] = listing[u][m].image
<1> DEFINE S == LastWith(u, Len(listing[u]), id[2])
           m == CHOOSE k \in S : TRUE
<1>1. listing[u] \in Seq(Listed)
  BY DEF TypeOK
<1>2. CASE id[1] = u /\ S # {}
  <2>1. m \in S
    BY <1>2
  <2>2. RowsOf(u, Len(listing[u]))[id] = listing[u][m].image
    BY <1>2 DEF RowsOf
  <2> HIDE DEF m
  <2>3. m \in 1 .. Len(listing[u]) /\ listing[u][m].index = id[2]
    BY <2>1 DEF LastWith
  <2>4. m \in DOMAIN listing[u]
    BY <1>1, <2>3
  <2> QED
    BY <1>2, <2>2, <2>3, <2>4
<1>3. CASE ~(id[1] = u /\ S # {})
  BY <1>3 DEF RowsOf
<1> QED
  BY <1>2, <1>3

LEMMA RowsOfTyped ==
    ASSUME TypeOK, NEW u \in Uploads
    PROVE  RowsOf(u, Len(listing[u])) \in [Uploads \X Index -> Entry \cup {NoHash}]
<1>1. \A m \in DOMAIN listing[u] : listing[u][m].image \in Entry \cup {NoHash}
  <2>1. listing[u] \in Seq(Listed)
    BY DEF TypeOK
  <2>2. ASSUME NEW m \in DOMAIN listing[u] PROVE listing[u][m] \in Listed
    BY <2>1
  <2> QED
    BY <2>2 DEF Listed, Entry
<1>2. \A id \in Uploads \X Index : RowsOf(u, Len(listing[u]))[id] \in Entry \cup {NoHash}
  <2> SUFFICES ASSUME NEW id \in Uploads \X Index
               PROVE  RowsOf(u, Len(listing[u]))[id] \in Entry \cup {NoHash}
    OBVIOUS
  <2>1. rows[id] \in Entry \cup {NoHash}
    BY DEF TypeOK
  <2> QED
    BY <1>1, <2>1, RowsOfCases
<1> QED
  BY <1>2 DEF RowsOf

LEMMA InitInv == Init => IInv /\ Owned
<1> SUFFICES ASSUME Init PROVE IInv /\ Owned
  OBVIOUS
<1> USE ConstantsTyped DEF Init
<1>1. TypeOK
  <2>1. StoreTypes
    BY DEF StoreTypes, Entry
  <2>2. UploadTypes
    BY DEF UploadTypes, Replies
  <2>3. ViewTypes /\ FileTypes
    BY DEF ViewTypes, FileTypes, Entry, File
  <2> QED
    BY <2>1, <2>2, <2>3, TypesSplit
<1>2. ASSUME NEW u \in Uploads PROVE StandingOf(u)
  BY DEF StandingOf
<1>3. Kept
  BY DEF Kept, KeptOf, SeenBy, PagesHaveFiles
<1>4. ASSUME NEW u \in Uploads PROVE OwnedBy(u)
  BY DEF OwnedBy
<1> QED
  BY <1>1, <1>2, <1>3, <1>4 DEF IInv, Standing, Owned

\* The arrival of a request with what it sends and lists.
ArriveStep(u, k, entries, pages) ==
    /\ Arrive(u, k, entries, pages)
    /\ entries \in Seq(Entry) /\ Len(entries) <= MaxPages
    /\ pages \in Seq(Listed)
    /\ \/ k = "archive" /\ pages = <<>>
       \/ k = "image" /\ pages = <<>> /\ \E x \in Images : entries = <<x>>
       \/ k = "set" /\ entries = <<>>
    /\ \A n \in DOMAIN pages : pages[n].image \in Known \cup {NoHash}
    /\ \/ k = "archive" /\ pc' = [pc EXCEPT ![u] = "streaming"] /\ UNCHANGED reply
       \/ k = "archive" /\ Answer(u, "failed")
       \/ k = "image" /\ pc' = [pc EXCEPT ![u] = "storing"] /\ UNCHANGED reply
       \/ k = "set" /\ pc' = [pc EXCEPT ![u] = "persisting"] /\ UNCHANGED reply

LEMMA ArrivalsAreArriveSteps ==
    ASSUME IInv, NEW u \in Uploads, Arrivals(u)
    PROVE  \E k, entries, pages : ArriveStep(u, k, entries, pages)
<1>1. CASE \E entries \in Archives : StartArchive(u, entries)
  <2>1. PICK entries \in Archives : StartArchive(u, entries)
    BY <1>1
  <2>2. entries \in Seq(Entry) /\ Len(entries) <= MaxPages
    BY ConstantsTyped
  <2>3. ArriveStep(u, "archive", entries, <<>>)
    BY <2>1, <2>2 DEF StartArchive, ArriveStep
  <2> QED
    BY <2>3
<1>2. CASE \E x \in Images : StartImage(u, x)
  <2>1. PICK x \in Images : StartImage(u, x)
    BY <1>2
  <2>2. <<x>> \in Seq(Entry) /\ Len(<<x>>) = 1 /\ 1 <= MaxPages
    BY ConstantsTyped DEF Entry
  <2>3. ArriveStep(u, "image", <<x>>, <<>>)
    BY <2>1, <2>2 DEF StartImage, ArriveStep
  <2> QED
    BY <2>3
<1>3. CASE \E n \in Index : \E pages \in [1 .. n -> [index : Index, image : Known \cup {NoHash}]] :
             StartSet(u, pages)
  <2>0. PICK n \in Index :
          \E pages \in [1 .. n -> [index : Index, image : Known \cup {NoHash}]] : StartSet(u, pages)
    BY <1>3
  <2>1. PICK pages \in [1 .. n -> [index : Index, image : Known \cup {NoHash}]] : StartSet(u, pages)
    BY <2>0
  <2>2. Known \subseteq Images
    BY DEF Known
  <2>3. pages \in [1 .. n -> Listed]
    BY <2>2 DEF Listed
  <2>4. n \in Nat
    BY ConstantsTyped DEF Index
  <2>5. pages \in Seq(Listed)
    BY <2>3, <2>4
  <2>6. \A m \in DOMAIN pages : pages[m].image \in Known \cup {NoHash}
    BY <2>1
  <2>7. ArriveStep(u, "set", <<>>, pages)
    BY <2>1, <2>5, <2>6, ConstantsTyped DEF StartSet, ArriveStep
  <2> QED
    BY <2>7
<1> QED
  BY <1>1, <1>2, <1>3 DEF Arrivals

LEMMA TypesStep == IInv /\ [Next]_vars => TypeOK'
<1> SUFFICES ASSUME IInv, [Next]_vars PROVE TypeOK'
  OBVIOUS
<1>1. StoreTypes /\ UploadTypes /\ ViewTypes /\ FileTypes
  BY TypesSplit DEF IInv
<1>2. CASE CreateCookbook
  BY <1>1, <1>2, TypesSplit DEF CreateCookbook, uploadVars, viewVars, StoreTypes, UploadTypes, ViewTypes, FileTypes
<1>3. ASSUME NEW u \in Uploads, Arrivals(u)
      PROVE  TypeOK'
  <2>1. PICK k, entries, pages : ArriveStep(u, k, entries, pages)
    BY <1>3, ArrivalsAreArriveSteps
  <2>2. UploadTypes'
    BY <1>1, <2>1 DEF ArriveStep, Arrive, Answer, UploadTypes, Working, Replies
  <2>3. StoreTypes' /\ ViewTypes' /\ FileTypes'
    BY <1>1, <2>1 DEF ArriveStep, Arrive, storeVars, viewVars, StoreTypes, ViewTypes, FileTypes
  <2> QED
    BY <2>2, <2>3, TypesSplit
<1>4. ASSUME NEW u \in Uploads, UploadSteps(u)
      PROVE  TypeOK'
  <2>1. CASE Turn
    BY <1>1, <2>1, TypesSplit DEF Turn, storeVars, viewVars, StoreTypes, ViewTypes, FileTypes
  <2>2. CASE StoreStep(u)
    <3>1. WithPage(u) \in Seq(Listed)
      BY <2>2, CurrentTyped DEF StoreStep, IInv
    <3>2. UploadTypes'
      BY <1>1, <2>2, <3>1 DEF StoreStep, Stored, UploadTypes, Working, Replies
    <3>3. StoreTypes' /\ ViewTypes'
      BY <1>1, <2>2 DEF StoreStep, storeVars, viewVars, StoreTypes, ViewTypes
    <3>4. FileTypes'
      BY <1>1, <2>2 DEF StoreStep, FileTypes, File
    <3> QED
      BY <3>2, <3>3, <3>4, TypesSplit
  <2>3. CASE Persist(u)
    <3>1. StoreTypes'
      BY <1>1, <2>3, RowsOfTyped DEF Persist, StoreTypes, IInv
    <3>2. UploadTypes'
      BY <1>1, <2>3 DEF Persist, Answer, UploadTypes, Working, Replies
    <3>3. ViewTypes' /\ FileTypes'
      BY <1>1, <2>3 DEF Persist, viewVars, ViewTypes, FileTypes
    <3> QED
      BY <3>1, <3>2, <3>3, TypesSplit
  <2> QED
    BY <1>4, <2>1, <2>2, <2>3, UploadStepsSplit
<1>5. ASSUME NEW v \in Viewers, ViewSteps(v)
      PROVE  TypeOK'
  <2>1. StoreTypes' /\ UploadTypes'
    BY <1>1, <1>5 DEF ViewSteps, Look, FindDerivative, BeginEncode, PublishDerivative,
       EncodeFails, Served, View, storeVars, uploadVars, StoreTypes, UploadTypes
  <2>2. FileTypes'
    BY <1>1, <1>5 DEF ViewSteps, Look, FindDerivative, BeginEncode, PublishDerivative,
       EncodeFails, Served, View, FileTypes, File
  <2>3. \A id \in Uploads \X Index : rows[id] \in Entry \cup {NoHash}
    BY <1>1 DEF StoreTypes
  <2>4. ViewTypes'
    <3>1. CASE \E id \in Uploads \X Index : Look(v, id)
      BY <1>1, <2>3, <3>1 DEF Look, View, ViewTypes
    <3>2. CASE FindDerivative(v) \/ BeginEncode(v) \/ PublishDerivative(v)
      BY <1>1, <3>2 DEF FindDerivative, BeginEncode, PublishDerivative, View, ViewTypes
    <3>3. CASE EncodeFails(v) \/ Served(v)
      BY <1>1, <3>3 DEF EncodeFails, Served, View, ViewTypes, Entry
    <3> QED
      BY <1>5, <3>1, <3>2, <3>3 DEF ViewSteps
  <2> QED
    BY <2>1, <2>2, <2>4, TypesSplit
<1>6. CASE Crash
  BY <1>1, <1>6, TypesSplit DEF Crash, storeVars, StoreTypes, UploadTypes, ViewTypes, FileTypes, Entry, Working, Replies
<1>7. CASE UNCHANGED vars
  BY <1>1, <1>7, TypesSplit DEF vars, storeVars, uploadVars, viewVars, StoreTypes, UploadTypes, ViewTypes, FileTypes
<1> QED
  BY <1>2, <1>3, <1>4, <1>5, <1>6, <1>7 DEF Next


-----------------------------------------------------------------------------
(* Where requests stand                                                    *)

Same(w) ==
    /\ kind'[w] = kind[w] /\ sent'[w] = sent[w] /\ at'[w] = at[w]
    /\ listing'[w] = listing[w] /\ pc'[w] = pc[w] /\ reply'[w] = reply[w]

LEMMA SameStands ==
    ASSUME NEW w \in Uploads, StandingOf(w), Same(w)
    PROVE  StandingOf(w)'
BY DEF StandingOf, Same, AtImage, Current, Seen

LEMMA OthersSame ==
    ASSUME IInv, NEW u \in Uploads, NEW w \in Uploads, w # u,
           Arrivals(u) \/ UploadSteps(u)
    PROVE  Same(w)
<1>1. UploadTypes
  BY TypesSplit DEF IInv
<1>2. CASE Arrivals(u)
  <2>1. PICK k, entries, pages : ArriveStep(u, k, entries, pages)
    BY <1>2, ArrivalsAreArriveSteps
  <2> QED
    BY <1>1, <2>1 DEF ArriveStep, Arrive, Answer, UploadTypes, Same
<1>3. CASE Stream(u) \/ HangUp(u) \/ PassOver(u) \/ RefuseRepeated(u) \/ RefuseEntry(u)
  BY <1>1, <1>3 DEF Stream, HangUp, PassOver, RefuseRepeated, RefuseEntry, Answer, UploadTypes, Same
<1>4. CASE FindFile(u) \/ BeginWrite(u) \/ Publish(u) \/ WriteFails(u)
  BY <1>1, <1>4 DEF FindFile, BeginWrite, Publish, WriteFails, Stored, Answer, UploadTypes, Same
<1>5. CASE StoredAll(u) \/ Check(u)
  BY <1>1, <1>5 DEF StoredAll, Check, Await, Answer, UploadTypes, Same
<1>6. CASE PersistRefused(u) \/ PersistFails(u) \/ Persist(u)
  BY <1>1, <1>6 DEF PersistRefused, PersistFails, Persist, Answer, UploadTypes, Same
<1> QED
  BY <1>2, <1>3, <1>4, <1>5, <1>6 DEF UploadSteps

\* A request of which no upload step is left.
LEMMA OneOfThem ==
    ASSUME NEW u \in Uploads, UploadSteps(u)
    PROVE  \/ Stream(u) \/ HangUp(u) \/ PassOver(u)
           \/ RefuseRepeated(u) \/ RefuseEntry(u)
           \/ FindFile(u) \/ BeginWrite(u) \/ Publish(u) \/ WriteFails(u)
           \/ StoredAll(u) \/ Check(u) \/ PersistRefused(u) \/ PersistFails(u)
           \/ Persist(u)
BY DEF UploadSteps

\* A step that leaves what the request sent and lists, and ends it.
Ends(u) ==
    /\ kind'[u] = kind[u] /\ sent'[u] = sent[u] /\ at'[u] = at[u]
    /\ listing'[u] = listing[u]
    /\ pc'[u] = "done"
    /\ reply'[u] = "ok" /\ kind[u] = "image" => at[u] = 1

LEMMA EndsStands ==
    ASSUME NEW u \in Uploads, StandingOf(u), Ends(u)
    PROVE  StandingOf(u)'
BY DEF StandingOf, Ends

LEMMA StandingStep == IInv /\ [Next]_vars => Standing'
<1> SUFFICES ASSUME IInv, [Next]_vars, NEW w \in Uploads PROVE StandingOf(w)'
  BY DEF Standing
<1> USE ConstantsTyped
<1>1. UploadTypes
  BY TypesSplit DEF IInv
<1>2. StandingOf(w)
  BY DEF IInv, Standing
<1>3. ASSUME NEW u \in Uploads, Arrivals(u) \/ UploadSteps(u), u # w
      PROVE  StandingOf(w)'
  BY <1>2, <1>3, OthersSame, SameStands
<1>4. ASSUME Arrivals(w)
      PROVE  StandingOf(w)'
  <2>1. PICK k, entries, pages : ArriveStep(w, k, entries, pages)
    BY <1>4, ArrivalsAreArriveSteps
  <2>2. pc[w] = "idle" /\ at[w] = 0 /\ reply[w] \in {"none", "lost"}
    BY <1>2, <2>1 DEF StandingOf, ArriveStep, Arrive
  <2>3. /\ kind'[w] = k /\ sent'[w] = entries /\ listing'[w] = pages /\ at'[w] = 0
    BY <1>1, <2>1, <2>2 DEF ArriveStep, Arrive, UploadTypes
  <2>4. Len(entries) <= MaxPages /\ 0 <= Len(entries) /\ Len(<<>>) = 0
    BY <2>1 DEF ArriveStep
  <2>5. \/ k = "archive" /\ pages = <<>> /\ pc'[w] \in {"streaming", "done"}
        \/ k = "image" /\ pages = <<>> /\ pc'[w] = "storing" /\ \E x \in Images : entries = <<x>>
        \/ k = "set" /\ pc'[w] = "persisting"
    BY <1>1, <2>1 DEF ArriveStep, Answer, UploadTypes
  <2>6. /\ pc'[w] # "done" => reply'[w] \in {"none", "lost"}
        /\ reply'[w] # "ok"
    BY <1>1, <2>1, <2>2 DEF ArriveStep, Answer, UploadTypes
  <2> QED
    BY <2>3, <2>4, <2>5, <2>6 DEF StandingOf
<1>5. ASSUME UploadSteps(w)
      PROVE  StandingOf(w)'
  <2>1. CASE Stream(w)
    BY <1>1, <1>2, <2>1 DEF Stream, Answer, UploadTypes, StandingOf
  <2>2. CASE HangUp(w)
    BY <1>1, <1>2, <2>2 DEF HangUp, UploadTypes, StandingOf, AtImage, Current, Seen
  <2>3. CASE PassOver(w)
    BY <1>1, <1>2, <2>3 DEF PassOver, UploadTypes, StandingOf
  <2>4. CASE RefuseRepeated(w) \/ RefuseEntry(w)
    <3>1. Ends(w)
      BY <1>1, <2>4 DEF RefuseRepeated, RefuseEntry, Answer, UploadTypes, Ends
    <3> QED
      BY <1>2, <3>1, EndsStands
  <2>5. CASE BeginWrite(w)
    BY <1>1, <1>2, <2>5 DEF BeginWrite, UploadTypes, StandingOf, AtImage, Current, Seen
  <2>6. CASE FindFile(w) \/ Publish(w) \/ WriteFails(w)
    <3>1. CASE StoreStep(w)
      <4>1. Len(WithPage(w)) = Len(listing[w]) + 1
        BY <3>1, CurrentTyped DEF StoreStep, IInv
      <4>2. /\ at[w] < Len(sent[w]) /\ Len(listing[w]) <= at[w]
            /\ kind[w] \in {"archive", "image"} /\ reply[w] \in {"none", "lost"}
        BY <1>2, <3>1 DEF StoreStep, StandingOf, AtImage
      <4>3. /\ kind'[w] = kind[w] /\ sent'[w] = sent[w] /\ at'[w] = at[w] + 1
            /\ listing'[w] = WithPage(w) /\ pc'[w] = "storing" /\ reply'[w] = reply[w]
        BY <1>1, <3>1 DEF StoreStep, Stored, UploadTypes
      <4>4. at[w] \in Nat /\ Len(sent[w]) \in Nat /\ Len(listing[w]) \in Nat
        BY <1>1 DEF UploadTypes
      <4> QED
        BY <1>2, <4>1, <4>2, <4>3, <4>4 DEF StandingOf
    <3>2. CASE WriteFails(w) /\ files[Current(w)] = "none"
      <4>1. Ends(w)
        BY <1>1, <1>2, <3>2 DEF WriteFails, Answer, UploadTypes, Ends
      <4> QED
        BY <1>2, <4>1, EndsStands
    <3>3. StoreStep(w) \/ (WriteFails(w) /\ files[Current(w)] = "none")
      BY <2>6, Storing
    <3> QED
      BY <3>1, <3>2, <3>3
  <2>7. CASE StoredAll(w)
    BY <1>1, <1>2, <2>7 DEF StoredAll, Await, Answer, UploadTypes, StandingOf
  <2>8. CASE Check(w)
    <3>1. Ends(w)
      BY <1>1, <1>2, <2>8 DEF Check, Answer, UploadTypes, StandingOf, Ends
    <3> QED
      BY <1>2, <3>1, EndsStands
  <2>9. CASE PersistRefused(w) \/ PersistFails(w) \/ Persist(w)
    <3>1. kind[w] # "image"
      BY <1>2, <2>9 DEF PersistRefused, PersistFails, Persist, StandingOf
    <3>2. Ends(w)
      BY <1>1, <2>9, <3>1 DEF PersistRefused, PersistFails, Persist, Answer, UploadTypes, Ends
    <3> QED
      BY <1>2, <3>2, EndsStands
  <2> QED
    BY <1>5, <2>1, <2>2, <2>3, <2>4, <2>5, <2>6, <2>7, <2>8, <2>9, OneOfThem
<1>6. CASE Crash
  <2>1. Same(w) \/ Ends(w)
    BY <1>1, <1>6 DEF Crash, UploadTypes, Same, Ends
  <2> QED
    BY <1>2, <2>1, SameStands, EndsStands
<1>7. CASE CreateCookbook \/ (\E v \in Viewers : ViewSteps(v)) \/ UNCHANGED vars
  <2>1. UNCHANGED uploadVars
    BY <1>7 DEF CreateCookbook, ViewSteps, Look, FindDerivative, BeginEncode,
       PublishDerivative, EncodeFails, Served, View, vars
  <2>2. Same(w)
    BY <2>1 DEF uploadVars, Same
  <2> QED
    BY <1>2, <2>2, SameStands
<1> QED
  BY <1>3, <1>4, <1>5, <1>6, <1>7 DEF Next


-----------------------------------------------------------------------------
(* Files                                                                   *)

\* Files that are there stay, and none becomes partial.
FilesGrow ==
    \A x \in Images :
        /\ files[x] = "whole" => files'[x] = "whole"
        /\ files'[x] # "partial"
        /\ derived[x] # "none" => derived'[x] # "none"
        /\ derived'[x] # "partial"

LEMMA FilesStep == IInv /\ [Next]_vars => FilesGrow
<1> SUFFICES ASSUME IInv, [Next]_vars PROVE FilesGrow
  OBVIOUS
<1>1. FileTypes /\ UploadTypes /\ ViewTypes
  BY TypesSplit DEF IInv
<1>2. \A x \in Images : files[x] # "partial" /\ derived[x] # "partial"
  BY DEF IInv, Kept
<1>3. CASE UNCHANGED <<files, derived>>
  BY <1>2, <1>3 DEF FilesGrow
<1>4. ASSUME NEW u \in Uploads, Arrivals(u) PROVE UNCHANGED <<files, derived>>
  BY <1>4 DEF Arrivals, StartArchive, StartImage, StartSet, Arrive
<1>5. ASSUME NEW u \in Uploads, UploadSteps(u) PROVE FilesGrow
  <2>1. CASE Turn \/ Persist(u)
    BY <1>3, <2>1 DEF Turn, Persist
  <2>2. CASE StoreStep(u)
    BY <1>1, <1>2, <2>2 DEF StoreStep, FileTypes, FilesGrow
  <2> QED
    BY <1>5, <2>1, <2>2, UploadStepsSplit
<1>6. ASSUME NEW v \in Viewers, ViewSteps(v) PROVE FilesGrow
  BY <1>1, <1>2, <1>6 DEF ViewSteps, Look, FindDerivative, BeginEncode, PublishDerivative,
     EncodeFails, Served, View, FileTypes, FilesGrow
<1>7. CASE CreateCookbook \/ Crash \/ UNCHANGED vars
  BY <1>3, <1>7 DEF CreateCookbook, Crash, vars
<1> QED
  BY <1>3, <1>4, <1>5, <1>6, <1>7 DEF Next

LEMMA SameKept ==
    ASSUME TypeOK, NEW w \in Uploads, KeptOf(w), FilesGrow, at[w] <= Len(sent[w]),
           kind'[w] = kind[w] /\ sent'[w] = sent[w] /\ at'[w] = at[w] /\ listing'[w] = listing[w]
    PROVE  KeptOf(w)'
<1>1. sent[w] \in Seq(Entry) /\ at[w] \in Nat /\ listing[w] \in Seq(Listed)
  BY DEF TypeOK
<1>2. ASSUME NEW n \in 1 .. at[w], sent[w][n] # NoImage PROVE files'[sent[w][n]] = "whole"
  <2>1. sent[w][n] \in Images
    BY <1>1, <1>2 DEF Entry
  <2> QED
    BY <1>2, <2>1 DEF KeptOf, FilesGrow
<1>3. ASSUME NEW n \in DOMAIN listing[w], listing[w][n].image # NoHash
      PROVE  files'[listing[w][n].image] = "whole"
  <2>1. listing[w][n] \in Listed
    BY <1>1
  <2>2. listing[w][n].image \in Images
    BY <1>3, <2>1 DEF Listed
  <2> QED
    BY <1>3, <2>2 DEF KeptOf, FilesGrow
<1> QED
  BY <1>2, <1>3 DEF KeptOf

\* A page image that was answered "ok" is in its file.
LEMMA KnownKept ==
    ASSUME IInv, NEW x \in Known
    PROVE  x \in Images /\ files[x] = "whole"
<1>1. PICK u \in Uploads : kind[u] = "image" /\ reply[u] = "ok" /\ sent[u] = <<x>>
  BY DEF Known
<1>2. at[u] = 1
  BY <1>1 DEF IInv, Standing, StandingOf
<1>3. x \in Images
  BY DEF Known
<1>4. sent[u][1] = x /\ 1 \in 1 .. at[u]
  BY <1>1, <1>2
<1> QED
  BY <1>3, <1>4, ConstantsTyped DEF IInv, Kept, KeptOf

LEMMA KeptOfStep ==
    ASSUME IInv, [Next]_vars, NEW w \in Uploads
    PROVE  KeptOf(w)'
<1>1. UploadTypes /\ TypeOK
  BY TypesSplit DEF IInv
<1>2. KeptOf(w) /\ StandingOf(w)
  BY DEF IInv, Kept, Standing
<1>3. FilesGrow
  BY FilesStep
<1>4. at[w] <= Len(sent[w])
  BY <1>2 DEF StandingOf
<1>5. CASE kind'[w] = kind[w] /\ sent'[w] = sent[w] /\ at'[w] = at[w] /\ listing'[w] = listing[w]
  BY <1>1, <1>2, <1>3, <1>4, <1>5, SameKept
<1>6. ASSUME NEW u \in Uploads, Arrivals(u) \/ UploadSteps(u), u # w
      PROVE  KeptOf(w)'
  BY <1>5, <1>6, OthersSame DEF Same
<1>7. ASSUME Arrivals(w)
      PROVE  KeptOf(w)'
  <2>1. PICK k, entries, pages : ArriveStep(w, k, entries, pages)
    BY <1>7, ArrivalsAreArriveSteps
  <2>2. at'[w] = 0 /\ listing'[w] = pages
    BY <1>1, <1>2, <2>1 DEF ArriveStep, Arrive, Answer, StandingOf, UploadTypes
  <2>3. ASSUME NEW n \in DOMAIN pages, pages[n].image # NoHash
        PROVE  files'[pages[n].image] = "whole"
    <3>1. pages[n].image \in Known
      BY <2>1, <2>3 DEF ArriveStep
    <3> QED
      BY <1>3, <3>1, KnownKept DEF FilesGrow
  <2> QED
    BY <2>2, <2>3 DEF KeptOf
<1>8. ASSUME UploadSteps(w)
      PROVE  KeptOf(w)'
  <2>1. CASE PassOver(w)
    <3>1. at'[w] = at[w] + 1 /\ sent'[w] = sent[w] /\ listing'[w] = listing[w]
      BY <1>1, <2>1 DEF PassOver, UploadTypes
    <3>2. sent[w][at[w] + 1] = NoImage
      BY <2>1 DEF PassOver, Current
    <3>3. at[w] \in Nat /\ sent[w] \in Seq(Entry) /\ listing[w] \in Seq(Listed)
      BY <1>1 DEF UploadTypes
    <3>4. files' = files
      BY <2>1 DEF PassOver
    <3> QED
      BY <1>2, <3>1, <3>2, <3>3, <3>4 DEF KeptOf
  <2>2. CASE StoreStep(w)
    <3>1. /\ at'[w] = at[w] + 1 /\ sent'[w] = sent[w] /\ listing'[w] = WithPage(w)
          /\ at[w] \in Nat /\ sent[w] \in Seq(Entry) /\ listing[w] \in Seq(Listed)
          /\ at[w] + 1 <= Len(sent[w])
      BY <1>1, <2>2 DEF StoreStep, Stored, UploadTypes, AtImage
    <3>2. Current(w) \in Images
      BY <2>2, CurrentTyped DEF StoreStep, IInv
    <3>3. files'[Current(w)] = "whole"
      <4>1. files[Current(w)] # "partial" /\ files[Current(w)] \in File
        BY <1>1, <3>2 DEF IInv, Kept, TypeOK
      <4> QED
        BY <1>3, <2>2, <3>2, <4>1 DEF StoreStep, FilesGrow, File
    <3>4. ASSUME NEW n \in 1 .. at[w] + 1, sent[w][n] # NoImage
          PROVE  files'[sent[w][n]] = "whole"
      <4>1. CASE n = at[w] + 1
        BY <3>3, <4>1 DEF Current
      <4>2. CASE n # at[w] + 1
        <5>1. n \in 1 .. at[w]
          BY <3>1, <4>2
        <5>2. sent[w][n] \in Images
          BY <3>1, <3>4, <5>1 DEF Entry
        <5> QED
          BY <1>2, <1>3, <3>4, <5>1, <5>2 DEF KeptOf, FilesGrow
      <4> QED
        BY <4>1, <4>2
    <3>5. ASSUME NEW n \in DOMAIN WithPage(w), WithPage(w)[n].image # NoHash
          PROVE  files'[WithPage(w)[n].image] = "whole"
      <4>1. /\ WithPage(w) \in Seq(Listed)
            /\ Len(WithPage(w)) = Len(listing[w]) + 1
            /\ \A m \in DOMAIN listing[w] : WithPage(w)[m] = listing[w][m]
            /\ WithPage(w)[Len(listing[w]) + 1] =
                 [index |-> Len(listing[w]) + 1, image |-> Current(w)]
        BY <1>1, <2>2, CurrentTyped DEF StoreStep, IInv
      <4>2. CASE n = Len(listing[w]) + 1
        BY <3>3, <4>1, <4>2
      <4>3. CASE n # Len(listing[w]) + 1
        <5>1. n \in DOMAIN listing[w]
          BY <3>1, <3>5, <4>1, <4>3
        <5>2. listing[w][n] \in Listed
          BY <3>1, <5>1
        <5>3. listing[w][n].image \in Images /\ files[listing[w][n].image] = "whole"
          BY <1>2, <3>5, <4>1, <5>1, <5>2 DEF Listed, KeptOf
        <5> QED
          BY <1>3, <4>1, <5>1, <5>3 DEF FilesGrow
      <4> QED
        BY <4>2, <4>3
    <3> QED
      BY <3>1, <3>4, <3>5 DEF KeptOf
  <2>3. CASE Stream(w) \/ HangUp(w) \/ RefuseRepeated(w) \/ RefuseEntry(w) \/ BeginWrite(w)
    BY <1>5, <2>3 DEF Stream, HangUp, RefuseRepeated, RefuseEntry, BeginWrite
  <2>4. CASE StoredAll(w) \/ Check(w) \/ PersistRefused(w) \/ PersistFails(w) \/ Persist(w)
    BY <1>5, <2>4 DEF StoredAll, Check, PersistRefused, PersistFails, Persist
  <2>5. CASE FindFile(w) \/ Publish(w) \/ (WriteFails(w) /\ files[Current(w)] # "none")
    BY <2>2, <2>5, Storing
  <2>6. CASE WriteFails(w) /\ files[Current(w)] = "none"
    BY <1>5, <2>6 DEF WriteFails
  <2> QED
    BY <1>8, <2>1, <2>3, <2>4, <2>5, <2>6, OneOfThem
<1>9. CASE CreateCookbook \/ Crash \/ (\E v \in Viewers : ViewSteps(v)) \/ UNCHANGED vars
  <2>1. UNCHANGED <<kind, sent, at, listing>>
    BY <1>9 DEF CreateCookbook, Crash, ViewSteps, Look, FindDerivative, BeginEncode,
       PublishDerivative, EncodeFails, Served, View, vars, uploadVars
  <2> QED
    BY <1>5, <2>1
<1> QED
  BY <1>6, <1>7, <1>8, <1>9 DEF Next


\* Only the transaction of an import writes rows.
LEMMA RowsStep ==
    ASSUME IInv, [Next]_vars
    PROVE  \/ UNCHANGED <<rows, imports>>
           \/ \E u \in Uploads : Persist(u)
<1>1. ASSUME NEW u \in Uploads, Arrivals(u) PROVE UNCHANGED <<rows, imports>>
  BY <1>1 DEF Arrivals, StartArchive, StartImage, StartSet, Arrive, storeVars
<1>2. ASSUME NEW u \in Uploads, UploadSteps(u)
      PROVE  UNCHANGED <<rows, imports>> \/ Persist(u)
  BY <1>2, UploadStepsSplit DEF Turn, StoreStep, storeVars
<1>3. ASSUME NEW v \in Viewers, ViewSteps(v) PROVE UNCHANGED <<rows, imports>>
  BY <1>3 DEF ViewSteps, Look, FindDerivative, BeginEncode, PublishDerivative,
     EncodeFails, Served, View, storeVars
<1>4. CASE CreateCookbook \/ Crash \/ UNCHANGED vars
  BY <1>4 DEF CreateCookbook, Crash, vars, storeVars
<1> QED
  BY <1>1, <1>2, <1>3, <1>4 DEF Next

LEMMA PagesStep == IInv /\ [Next]_vars => PagesHaveFiles'
<1> SUFFICES ASSUME IInv, [Next]_vars, NEW id \in Uploads \X Index, rows'[id] \in Images
             PROVE  files'[rows'[id]] = "whole"
  BY DEF PagesHaveFiles
<1>1. FilesGrow
  BY FilesStep
<1>2. TypeOK /\ PagesHaveFiles
  BY DEF IInv, Kept
<1>3. CASE rows'[id] = rows[id]
  <2>1. rows[id] \in Images
    BY <1>3
  <2> QED
    BY <1>1, <1>2, <1>3, <2>1 DEF PagesHaveFiles, FilesGrow
<1>4. ASSUME NEW u \in Uploads, Persist(u), rows'[id] # rows[id]
      PROVE  files'[rows'[id]] = "whole"
  <2>1. rows' = RowsOf(u, Len(listing[u])) /\ files' = files
    BY <1>4 DEF Persist
  <2>2. PICK m \in DOMAIN listing[u] : rows'[id] = listing[u][m].image
    BY <1>2, <1>4, <2>1, RowsOfCases
  <2> QED
    BY <2>1, <2>2, ConstantsTyped DEF IInv, Kept, KeptOf
<1> QED
  BY <1>3, <1>4, RowsStep

LEMMA SeenStep ==
    ASSUME IInv, [Next]_vars, NEW v \in Viewers
    PROVE  SeenBy(v)'
<1>1. ViewTypes /\ FileTypes /\ StoreTypes
  BY TypesSplit DEF IInv
<1>2. SeenBy(v) /\ FilesGrow
  BY FilesStep DEF IInv, Kept
<1>3. CASE vpc'[v] = vpc[v] /\ vimage'[v] = vimage[v]
  BY <1>2, <1>3 DEF SeenBy, FilesGrow
<1>4. ASSUME NEW u \in Uploads, Arrivals(u) PROVE UNCHANGED viewVars
  BY <1>4 DEF Arrivals, StartArchive, StartImage, StartSet, Arrive
<1>5. ASSUME NEW u \in Uploads, UploadSteps(u) PROVE UNCHANGED viewVars
  BY <1>5, UploadStepsSplit DEF Turn, StoreStep, Persist
<1>6. ASSUME NEW w \in Viewers, ViewSteps(w), w # v
      PROVE  vpc'[v] = vpc[v] /\ vimage'[v] = vimage[v]
  BY <1>1, <1>6 DEF ViewSteps, Look, FindDerivative, BeginEncode, PublishDerivative,
     EncodeFails, Served, View, ViewTypes
<1>7. ASSUME ViewSteps(v) PROVE SeenBy(v)'
  <2>1. CASE \E id \in Uploads \X Index : Look(v, id)
    <3>1. PICK id \in Uploads \X Index : Look(v, id)
      BY <2>1
    <3>2. vpc'[v] = "looking" => rows[id] \in Images
      BY <1>1, <3>1 DEF Look, View, StoreTypes, ViewTypes, Entry
    <3>3. vpc'[v] \in {"looking", "plain"} /\ vimage'[v] = rows[id]
      BY <1>1, <3>1 DEF Look, View, ViewTypes
    <3> QED
      BY <3>2, <3>3 DEF SeenBy
  <2>2. CASE FindDerivative(v) \/ BeginEncode(v)
    BY <1>1, <1>2, <2>2 DEF FindDerivative, BeginEncode, View, ViewTypes, SeenBy
  <2>3. CASE PublishDerivative(v)
    BY <1>1, <1>2, <2>3 DEF PublishDerivative, View, ViewTypes, FileTypes, SeenBy
  <2>4. CASE EncodeFails(v)
    BY <1>1, <1>2, <2>4 DEF EncodeFails, View, ViewTypes, SeenBy
  <2>5. CASE Served(v)
    BY <1>1, <1>2, <2>5 DEF Served, View, ViewTypes, SeenBy
  <2> QED
    BY <1>7, <2>1, <2>2, <2>3, <2>4, <2>5 DEF ViewSteps
<1>8. CASE Crash
  BY <1>8 DEF Crash, SeenBy
<1>9. CASE CreateCookbook \/ UNCHANGED vars
  BY <1>3, <1>9 DEF CreateCookbook, vars, viewVars
<1> QED
  BY <1>3, <1>4, <1>5, <1>6, <1>7, <1>8, <1>9 DEF Next, viewVars

LEMMA IInvStep == IInv /\ [Next]_vars => IInv'
<1> SUFFICES ASSUME IInv, [Next]_vars PROVE IInv'
  OBVIOUS
<1>1. \A x \in Images : files'[x] # "partial" /\ derived'[x] # "partial"
  BY FilesStep DEF FilesGrow
<1>2. Kept'
  BY <1>1, KeptOfStep, SeenStep, PagesStep DEF Kept
<1> QED
  BY <1>2, TypesStep, StandingStep DEF IInv

\* Every variable keeps its type, whatever requests, images and archives
\* there are.
THEOREM TypeCorrect == Spec => []TypeOK
<1>1. Init => IInv
  BY InitInv
<1>2. IInv /\ [Next]_vars => IInv'
  BY IInvStep
<1>3. IInv => TypeOK
  BY DEF IInv
<1> QED
  BY <1>1, <1>2, <1>3, PTL DEF Spec

\* A page in the catalogue has its image in full (atomic_write and the order
\* of storing and persisting), through races, failures and crashes.
THEOREM PagesKept == Spec => []PagesHaveFiles
<1>1. Init => IInv
  BY InitInv
<1>2. IInv /\ [Next]_vars => IInv'
  BY IInvStep
<1>3. IInv => PagesHaveFiles
  BY DEF IInv, Kept
<1> QED
  BY <1>1, <1>2, <1>3, PTL DEF Spec

\* Whoever reads a derivative (avif_derivative) reads a finished one.
THEOREM DerivativesFinished == Spec => []DerivativesWhole
<1>1. Init => IInv
  BY InitInv
<1>2. IInv /\ [Next]_vars => IInv'
  BY IInvStep
<1>3. IInv => DerivativesWhole
  <2> SUFFICES ASSUME IInv, NEW v \in Viewers, vpc[v] = "reading"
               PROVE  derived[vimage[v]] = "whole"
    BY DEF DerivativesWhole
  <2>1. vimage[v] \in Images /\ derived[vimage[v]] # "none"
    BY DEF IInv, Kept, SeenBy
  <2>2. derived[vimage[v]] # "partial" /\ derived[vimage[v]] \in File
    BY <2>1 DEF IInv, Kept, TypeOK
  <2> QED
    BY <2>1, <2>2 DEF File
<1> QED
  BY <1>1, <1>2, <1>3, PTL DEF Spec

-----------------------------------------------------------------------------
(* Rows                                                                    *)

LEMMA SameOwned ==
    ASSUME NEW w \in Uploads, OwnedBy(w), kind'[w] = kind[w],
           pc'[w] = pc[w] \/ pc'[w] = "done",
           reply'[w] = reply[w] \/ (w \notin imports /\ (reply'[w] = "ok" => kind[w] = "image")),
           w \in imports' <=> w \in imports,
           \A n \in Index : rows'[<<w, n>>] = rows[<<w, n>>]
    PROVE  OwnedBy(w)'
BY DEF OwnedBy

\* What a transaction leaves of other requests' rows.
LEMMA PersistRows ==
    ASSUME IInv, Owned, NEW u \in Uploads, Persist(u)
    PROVE  /\ imports' = imports \cup {u}
           /\ u \notin imports
           /\ \A id \in Uploads \X Index :
                /\ id[1] # u => rows'[id] = rows[id]
                /\ rows[id] # NoImage => rows'[id] = rows[id]
<1>1. imports' = imports \cup {u} /\ rows' = RowsOf(u, Len(listing[u])) /\ pc[u] = "persisting"
  BY DEF Persist
<1>2. u \notin imports
  BY <1>1 DEF Owned, OwnedBy
<1>3. ASSUME NEW id \in Uploads \X Index
      PROVE  /\ id[1] # u => rows'[id] = rows[id]
             /\ rows[id] # NoImage => rows'[id] = rows[id]
  <2>1. id[1] # u => rows'[id] = rows[id]
    BY <1>1, RowsOfCases DEF IInv
  <2>2. id[1] = u => rows[id] = NoImage
    <3>1. id = <<id[1], id[2]>> /\ id[2] \in Index
      OBVIOUS
    <3> QED
      BY <1>2, <3>1 DEF Owned, OwnedBy
  <2> QED
    BY <2>1, <2>2
<1> QED
  BY <1>1, <1>2, <1>3

LEMMA OwnedStep ==
    ASSUME IInv, Owned, [Next]_vars, NEW w \in Uploads
    PROVE  OwnedBy(w)'
<1>1. UploadTypes
  BY TypesSplit DEF IInv
<1>2. OwnedBy(w) /\ StandingOf(w)
  BY DEF Owned, IInv, Standing
<1>3. ASSUME NEW u \in Uploads, Persist(u), u # w
      PROVE  /\ w \in imports' <=> w \in imports
             /\ \A n \in Index : rows'[<<w, n>>] = rows[<<w, n>>]
  BY <1>3, PersistRows
<1>4. ASSUME ~ \E u \in Uploads : Persist(u)
      PROVE  /\ w \in imports' <=> w \in imports
             /\ \A n \in Index : rows'[<<w, n>>] = rows[<<w, n>>]
  BY <1>4, RowsStep
<1>5. ASSUME NEW u \in Uploads, Arrivals(u) \/ UploadSteps(u), u # w
      PROVE  OwnedBy(w)'
  <2>1. Same(w)
    BY <1>5, OthersSame
  <2>2. ~Persist(w)
    <3>1. SUFFICES ASSUME Persist(w) PROVE FALSE
      OBVIOUS
    <3>2. pc'[w] = "done" /\ pc[w] = "persisting"
      BY <1>1, <3>1 DEF Persist, Answer, UploadTypes
    <3> QED
      BY <2>1, <3>2 DEF Same
  <2> QED
    BY <1>2, <1>3, <1>4, <2>1, <2>2, SameOwned DEF Same
<1>6. ASSUME Arrivals(w)
      PROVE  OwnedBy(w)'
  <2>1. PICK k, entries, pages : ArriveStep(w, k, entries, pages)
    BY <1>6, ArrivalsAreArriveSteps
  <2>2. w \notin imports /\ UNCHANGED <<imports, rows>>
    BY <1>2, <2>1 DEF ArriveStep, Arrive, storeVars, OwnedBy
  <2>3. reply'[w] # "ok"
    BY <1>1, <1>2, <2>1 DEF ArriveStep, Arrive, Answer, StandingOf, UploadTypes
  <2> QED
    BY <1>2, <2>2, <2>3 DEF OwnedBy
<1>7. ASSUME UploadSteps(w), ~Persist(w)
      PROVE  OwnedBy(w)'
  <2>1. /\ UNCHANGED <<imports, rows>> /\ kind'[w] = kind[w]
    BY <1>7, UploadStepsSplit DEF Turn, StoreStep, storeVars
  <2>2. pc[w] \in Working
    BY <1>7, OneOfThem DEF Stream, HangUp, PassOver, RefuseRepeated, RefuseEntry, FindFile,
       BeginWrite, Publish, WriteFails, StoredAll, Check, PersistRefused, PersistFails, Working
  <2>3. w \notin imports
    BY <1>2, <2>2 DEF OwnedBy, Working
  <2>4. reply[w] # "ok"
    BY <1>2, <2>2 DEF StandingOf, Working
  <2>5. reply'[w] = "ok" => kind[w] = "image"
    <3>1. CASE Check(w)
      BY <1>2, <3>1 DEF Check, StandingOf
    <3>2. CASE Stream(w) \/ HangUp(w) \/ PassOver(w) \/ RefuseRepeated(w) \/ RefuseEntry(w)
      BY <1>1, <2>4, <3>2 DEF Stream, HangUp, PassOver, RefuseRepeated, RefuseEntry, Answer, UploadTypes
    <3>3. CASE FindFile(w) \/ BeginWrite(w) \/ Publish(w) \/ WriteFails(w)
      BY <1>1, <2>4, <3>3 DEF FindFile, BeginWrite, Publish, WriteFails, Stored, Answer, UploadTypes
    <3>4. CASE StoredAll(w) \/ PersistRefused(w) \/ PersistFails(w)
      BY <1>1, <2>4, <3>4 DEF StoredAll, PersistRefused, PersistFails, Await, Answer, UploadTypes
    <3> QED
      BY <1>7, <3>1, <3>2, <3>3, <3>4, OneOfThem
  <2> QED
    BY <1>2, <2>1, <2>3, <2>5 DEF OwnedBy
<1>8. ASSUME Persist(w)
      PROVE  OwnedBy(w)'
  <2>1. /\ w \in imports' /\ kind'[w] = kind[w] /\ kind[w] # "image"
        /\ pc'[w] = "done" /\ reply'[w] \in {"ok", "lost"}
    BY <1>1, <1>2, <1>8 DEF Persist, Answer, UploadTypes, StandingOf
  <2> QED
    BY <2>1 DEF OwnedBy
<1>9. CASE Crash
  <2>1. UNCHANGED <<imports, rows, kind>>
    BY <1>9 DEF Crash, storeVars
  <2>2. (pc'[w] = pc[w] /\ reply'[w] = reply[w]) \/ (pc[w] \in Working /\ reply'[w] = "lost")
    BY <1>9 DEF Crash
  <2> QED
    BY <1>2, <2>1, <2>2 DEF OwnedBy, Working
<1>10. CASE CreateCookbook \/ (\E v \in Viewers : ViewSteps(v)) \/ UNCHANGED vars
  <2>1. UNCHANGED <<imports, rows, kind, pc, reply>>
    BY <1>10 DEF CreateCookbook, ViewSteps, Look, FindDerivative, BeginEncode,
       PublishDerivative, EncodeFails, Served, View, vars, storeVars, uploadVars
  <2> QED
    BY <1>2, <2>1 DEF OwnedBy
<1> QED
  BY <1>5, <1>6, <1>7, <1>8, <1>9, <1>10 DEF Next

LEMMA RowsInv ==
    /\ Init => IInv /\ Owned
    /\ IInv /\ Owned /\ [Next]_vars => (IInv /\ Owned)'
<1>1. ASSUME IInv, Owned, [Next]_vars PROVE Owned'
  BY <1>1, OwnedStep DEF Owned
<1> QED
  BY <1>1, InitInv, IInvStep

\* An answer tells whether the import exists, and what is no import has no
\* pages (create_cookbook_source_import is one transaction).
THEOREM AnswersTrue == Spec => []AnswersAreTrue
<1>1. IInv /\ Owned => AnswersAreTrue
  BY DEF Owned, OwnedBy, AnswersAreTrue
<1> QED
  BY <1>1, RowsInv, PTL DEF Spec

\* No two pages have one image, however requests race (the check inside the
\* transaction, not the one at upload).
THEOREM Unique == Spec => []ImagesUnique
<1>1. Init => IInv /\ ImagesUnique
  BY InitInv, ConstantsTyped DEF Init, ImagesUnique
<1>2. IInv /\ ImagesUnique /\ [Next]_vars => IInv' /\ ImagesUnique'
  <2> SUFFICES ASSUME IInv, ImagesUnique, [Next]_vars,
                      NEW id1 \in Uploads \X Index, NEW id2 \in Uploads \X Index,
                      rows'[id1] = rows'[id2], rows'[id1] \in Images
               PROVE  id1 = id2
    BY IInvStep DEF ImagesUnique
  <2>1. CASE UNCHANGED rows
    BY <2>1 DEF ImagesUnique
  <2>2. ASSUME NEW u \in Uploads, Persist(u) PROVE id1 = id2
    <3>1. rows' = RowsOf(u, Len(listing[u])) /\ ~Duplicate(u)
      BY <2>2 DEF Persist
    <3>2. ASSUME NEW a \in Uploads \X Index, NEW m \in DOMAIN listing[u],
                 rows[a] = listing[u][m].image, rows[a] \in Images
          PROVE  FALSE
      BY <3>1, <3>2, ConstantsTyped DEF Duplicate, HasPage
    <3>3. ASSUME NEW m \in DOMAIN listing[u], NEW n \in DOMAIN listing[u],
                 listing[u][m].image = listing[u][n].image, listing[u][m].image \in Images
          PROVE  m = n
      BY <3>1, <3>3, ConstantsTyped DEF Duplicate, Repeats
    <3>4. \/ rows'[id1] = rows[id1]
          \/ /\ id1[1] = u
             /\ \E m \in DOMAIN listing[u] :
                  listing[u][m].index = id1[2] /\ rows'[id1] = listing[u][m].image
      BY <3>1, RowsOfCases DEF IInv
    <3>5. \/ rows'[id2] = rows[id2]
          \/ /\ id2[1] = u
             /\ \E m \in DOMAIN listing[u] :
                  listing[u][m].index = id2[2] /\ rows'[id2] = listing[u][m].image
      BY <3>1, RowsOfCases DEF IInv
    <3>6. CASE rows'[id1] = rows[id1] /\ rows'[id2] = rows[id2]
      BY <3>6 DEF ImagesUnique
    <3>7. CASE id1[1] = u /\ id2[1] = u /\ id1[2] = id2[2]
      BY <3>7
    <3> QED
      BY <3>2, <3>3, <3>4, <3>5, <3>6, <3>7
  <2> QED
    BY <2>1, <2>2, RowsStep
<1> QED
  BY <1>1, <1>2, PTL DEF Spec

\* A conflict is never the fault of what a failed upload left behind.
THEOREM ConflictsTrue == Spec => []ConflictIsTrue
<1> DEFINE ConflictOf(w) ==
             reply[w] = "conflict" =>
               \/ Repeats(w)
               \/ \E m, n \in DOMAIN sent[w] :
                    m # n /\ sent[w][m] = sent[w][n] /\ sent[w][n] # NoImage
               \/ \E id \in Uploads \X Index : id[1] # w /\ rows[id] \in Mine(w)
<1>1. Init => ConflictIsTrue
  BY DEF Init, ConflictIsTrue
<1>2. IInv /\ Owned /\ ConflictIsTrue /\ [Next]_vars => ConflictIsTrue'
  <2> SUFFICES ASSUME IInv, Owned, ConflictIsTrue, [Next]_vars,
                      NEW w \in Uploads, reply'[w] = "conflict"
               PROVE  ConflictOf(w)'
    BY DEF ConflictIsTrue
  <2>1. UploadTypes /\ StandingOf(w) /\ OwnedBy(w)
    BY TypesSplit DEF IInv, Standing, Owned
  <2>2. \A id \in Uploads \X Index : rows[id] # NoImage => rows'[id] = rows[id]
    BY RowsStep, PersistRows
  <2>3. NoImage \notin Mine(w)
    BY ConstantsTyped DEF Mine
  <2>4. CASE reply[w] = "conflict" /\ sent'[w] = sent[w] /\ listing'[w] = listing[w]
    <3>1. ConflictOf(w)
      BY DEF ConflictIsTrue
    <3>2. Mine(w)' = Mine(w) /\ (Repeats(w)' <=> Repeats(w))
      BY <2>4 DEF Mine, Repeats
    <3> QED
      BY <2>2, <2>3, <2>4, <3>1, <3>2
  <2>5. ASSUME NEW u \in Uploads, Arrivals(u) PROVE ConflictOf(w)'
    <3>1. PICK k, entries, pages : ArriveStep(u, k, entries, pages)
      BY <2>5, ArrivalsAreArriveSteps
    <3>2. CASE u # w
      <4>1. Same(w)
        BY <2>5, <3>2, OthersSame
      <4> QED
        BY <2>4, <4>1 DEF Same
    <3>3. CASE u = w
      BY <2>1, <3>1, <3>3 DEF ArriveStep, Arrive, Answer, UploadTypes, StandingOf
    <3> QED
      BY <3>2, <3>3
  <2>6. ASSUME NEW u \in Uploads, UploadSteps(u), u # w PROVE ConflictOf(w)'
    <3>1. Same(w)
      BY <2>6, OthersSame
    <3> QED
      BY <2>4, <3>1 DEF Same
  <2>7. ASSUME UploadSteps(w) PROVE ConflictOf(w)'
    <3>1. reply[w] # "conflict" /\ w \notin imports /\ pc[w] \in Working
      <4>1. pc[w] \in Working
        BY <2>7, OneOfThem DEF Stream, HangUp, PassOver, RefuseRepeated, RefuseEntry, FindFile,
           BeginWrite, Publish, WriteFails, StoredAll, Check, PersistRefused, PersistFails,
           Persist, Working
      <4> QED
        BY <2>1, <4>1 DEF StandingOf, OwnedBy, Working
    <3>2. ASSUME NEW id \in Uploads \X Index, rows[id] # NoImage PROVE id[1] # w
      <4>1. id = <<id[1], id[2]>> /\ id[2] \in Index
        OBVIOUS
      <4> QED
        BY <2>1, <3>1, <3>2, <4>1 DEF OwnedBy
    <3>3. CASE RefuseRepeated(w)
      <4>1. /\ at[w] < Len(sent[w]) /\ at[w] \in Nat /\ sent[w] \in Seq(Entry)
            /\ sent' = sent
        BY <2>1, <3>3 DEF RefuseRepeated, UploadTypes
      <4>2. PICK n \in 1 .. at[w] : sent[w][at[w] + 1] = sent[w][n] /\ sent[w][n] # NoImage
        BY <3>3 DEF RefuseRepeated, Current, Seen
      <4>3. n \in DOMAIN sent[w] /\ at[w] + 1 \in DOMAIN sent[w] /\ n # at[w] + 1
        BY <4>1, <4>2
      <4> QED
        BY <4>1, <4>2, <4>3
    <3>4. CASE Check(w)
      <4>1. HasPage(sent[w][1]) /\ UNCHANGED <<rows, sent, listing>> /\ kind[w] = "image"
        BY <2>1, <3>1, <3>4 DEF Check, Answer, UploadTypes, StandingOf, storeVars
      <4>2. PICK x \in Images : sent[w] = <<x>>
        BY <2>1, <4>1 DEF StandingOf
      <4>3. x \in Mine(w) /\ x # NoImage
        BY <4>2, ConstantsTyped DEF Mine
      <4>4. PICK id \in Uploads \X Index : rows[id] = x
        BY <4>1, <4>2 DEF HasPage
      <4>5. id[1] # w
        BY <3>2, <4>3, <4>4
      <4>6. Mine(w)' = Mine(w)
        BY <4>1 DEF Mine
      <4> QED
        BY <4>1, <4>3, <4>4, <4>5, <4>6
    <3>5. CASE PersistRefused(w)
      <4>1. Duplicate(w) /\ UNCHANGED <<rows, sent, listing>>
        BY <2>1, <3>1, <3>5 DEF PersistRefused, Answer, UploadTypes, storeVars
      <4>2. Mine(w)' = Mine(w) /\ (Repeats(w)' <=> Repeats(w))
        BY <4>1 DEF Mine, Repeats
      <4>3. ASSUME NEW n \in DOMAIN listing[w], listing[w][n].image # NoHash,
                   HasPage(listing[w][n].image)
            PROVE  \E id \in Uploads \X Index : id[1] # w /\ rows[id] \in Mine(w)
        <5>1. listing[w][n].image \in Images
          <6>1. listing[w] \in Seq(Listed)
            BY <2>1 DEF UploadTypes
          <6>2. listing[w][n] \in Listed
            BY <6>1, <4>3
          <6> QED
            BY <4>3, <6>2 DEF Listed
        <5>2. listing[w][n].image \in Mine(w) /\ listing[w][n].image # NoImage
          BY <5>1, ConstantsTyped DEF Mine
        <5>3. PICK id \in Uploads \X Index : rows[id] = listing[w][n].image
          BY <4>3 DEF HasPage
        <5> QED
          BY <3>2, <5>2, <5>3
      <4> QED
        BY <4>1, <4>2, <4>3 DEF Duplicate
    <3>6. CASE Stream(w) \/ HangUp(w) \/ PassOver(w) \/ RefuseEntry(w)
      BY <2>1, <3>1, <3>6 DEF Stream, HangUp, PassOver, RefuseEntry, Answer, UploadTypes
    <3>7. CASE FindFile(w) \/ BeginWrite(w) \/ Publish(w) \/ WriteFails(w)
      BY <2>1, <3>1, <3>7 DEF FindFile, BeginWrite, Publish, WriteFails, Stored, Answer, UploadTypes
    <3>8. CASE StoredAll(w) \/ PersistFails(w) \/ Persist(w)
      BY <2>1, <3>1, <3>8 DEF StoredAll, PersistFails, Persist, Await, Answer, UploadTypes
    <3> QED
      BY <2>7, <3>3, <3>4, <3>5, <3>6, <3>7, <3>8, OneOfThem
  <2>8. CASE Crash
    BY <2>4, <2>8 DEF Crash
  <2>9. CASE CreateCookbook \/ (\E v \in Viewers : ViewSteps(v)) \/ UNCHANGED vars
    <3>1. UNCHANGED <<sent, listing, reply>>
      BY <2>9 DEF CreateCookbook, ViewSteps, Look, FindDerivative, BeginEncode,
         PublishDerivative, EncodeFails, Served, View, vars, uploadVars
    <3> QED
      BY <2>4, <3>1
  <2> QED
    BY <2>5, <2>6, <2>7, <2>8, <2>9 DEF Next
<1> QED
  BY <1>1, <1>2, RowsInv, PTL DEF Spec

-----------------------------------------------------------------------------
(* The order of an archive's pages                                         *)

\* What an archive's request lists while the walk goes on, and still does when
\* it comes to persist.
CountedOf(u) ==
    kind[u] = "archive" =>
        /\ Len(listing[u]) = Cardinality(ImagesUpTo(u, at[u]))
        /\ \A n \in DOMAIN listing[u] : listing[u][n].index = n
        /\ \A m \in ImagesUpTo(u, at[u]) :
              listing[u][Cardinality(ImagesUpTo(u, m))].image = sent[u][m]
        /\ pc[u] = "persisting" => at[u] = Len(sent[u])

Counted == \A u \in Uploads : CountedOf(u)

LEMMA ImagesCounted ==
    ASSUME NEW u \in Uploads, NEW n \in Nat
    PROVE  /\ IsFiniteSet(ImagesUpTo(u, n))
           /\ Cardinality(ImagesUpTo(u, n)) \in Nat
<1>1. IsFiniteSet(1 .. n)
  BY FS_Interval
<1> QED
  BY <1>1, FS_Subset, FS_CardinalityType DEF ImagesUpTo

\* No entry, no image; one entry more, one image more or none.
LEMMA NextCounted ==
    ASSUME NEW u \in Uploads, NEW n \in Nat
    PROVE  /\ ImagesUpTo(u, 0) = {} /\ Cardinality(ImagesUpTo(u, 0)) = 0
           /\ sent[u][n + 1] = NoImage => ImagesUpTo(u, n + 1) = ImagesUpTo(u, n)
           /\ sent[u][n + 1] # NoImage =>
                 /\ ImagesUpTo(u, n + 1) = ImagesUpTo(u, n) \cup {n + 1}
                 /\ Cardinality(ImagesUpTo(u, n + 1)) = Cardinality(ImagesUpTo(u, n)) + 1
<1>1. ImagesUpTo(u, 0) = {}
  BY DEF ImagesUpTo
<1>2. ASSUME sent[u][n + 1] = NoImage PROVE ImagesUpTo(u, n + 1) = ImagesUpTo(u, n)
  BY <1>2 DEF ImagesUpTo
<1>3. ASSUME sent[u][n + 1] # NoImage
      PROVE  /\ ImagesUpTo(u, n + 1) = ImagesUpTo(u, n) \cup {n + 1}
             /\ Cardinality(ImagesUpTo(u, n + 1)) = Cardinality(ImagesUpTo(u, n)) + 1
  <2>1. ImagesUpTo(u, n + 1) = ImagesUpTo(u, n) \cup {n + 1}
    BY <1>3 DEF ImagesUpTo
  <2>2. n + 1 \notin ImagesUpTo(u, n)
    BY DEF ImagesUpTo
  <2> QED
    BY <2>1, <2>2, ImagesCounted, FS_AddElement
<1> QED
  BY <1>1, <1>2, <1>3, FS_EmptySet

\* The page of an image is one of those up to it.
LEMMA PageBounded ==
    ASSUME NEW u \in Uploads, NEW n \in Nat, NEW m \in ImagesUpTo(u, n)
    PROVE  /\ m \in 1 .. n
           /\ Cardinality(ImagesUpTo(u, m)) \in 1 .. Cardinality(ImagesUpTo(u, n))
           /\ Cardinality(ImagesUpTo(u, m)) <= n
<1>1. m \in 1 .. n /\ m \in ImagesUpTo(u, m) /\ ImagesUpTo(u, m) \subseteq ImagesUpTo(u, n)
  BY DEF ImagesUpTo
<1>2. m \in Nat
  BY <1>1
<1>3. /\ IsFiniteSet(ImagesUpTo(u, n)) /\ Cardinality(ImagesUpTo(u, n)) \in Nat
      /\ IsFiniteSet(ImagesUpTo(u, m)) /\ Cardinality(ImagesUpTo(u, m)) \in Nat
  BY <1>2, ImagesCounted
<1>4. Cardinality(ImagesUpTo(u, m)) <= Cardinality(ImagesUpTo(u, n))
  BY <1>1, <1>3, FS_Subset
<1>5. Cardinality(ImagesUpTo(u, m)) # 0
  BY <1>1, <1>3, FS_EmptySet
<1>6. Cardinality(ImagesUpTo(u, m)) <= m
  <2>1. IsFiniteSet(1 .. m) /\ Cardinality(1 .. m) = m
    BY <1>2, FS_Interval
  <2>2. ImagesUpTo(u, m) \in SUBSET (1 .. m)
    BY DEF ImagesUpTo
  <2> QED
    BY <2>1, <2>2, FS_Subset
<1> QED
  BY <1>1, <1>2, <1>3, <1>4, <1>5, <1>6

\* It is a page an import may have.
LEMMA PageIsIndex ==
    ASSUME TypeOK, Standing, NEW u \in Uploads, NEW m \in ImagesUpTo(u, Len(sent[u]))
    PROVE  Cardinality(ImagesUpTo(u, m)) \in Index
<1>1. Len(sent[u]) \in Nat /\ Len(sent[u]) <= MaxPages
  BY DEF TypeOK, Standing, StandingOf
<1>2. /\ Cardinality(ImagesUpTo(u, m)) \in 1 .. Cardinality(ImagesUpTo(u, Len(sent[u])))
      /\ Cardinality(ImagesUpTo(u, m)) <= Len(sent[u])
  BY <1>1, PageBounded
<1> QED
  BY <1>1, <1>2, ImagesCounted, ConstantsTyped DEF Index

LEMMA SameCounted ==
    ASSUME NEW w \in Uploads, CountedOf(w),
           kind'[w] = kind[w] /\ sent'[w] = sent[w] /\ at'[w] = at[w] /\ listing'[w] = listing[w],
           pc'[w] = "persisting" => pc[w] = "persisting" \/ at[w] = Len(sent[w])
    PROVE  CountedOf(w)'
BY DEF CountedOf, ImagesUpTo

LEMMA PassedCounted ==
    ASSUME IInv, NEW w \in Uploads, CountedOf(w), PassOver(w)
    PROVE  CountedOf(w)'
<1>1. UploadTypes
  BY TypesSplit DEF IInv
<1>2. /\ kind'[w] = kind[w] /\ sent'[w] = sent[w] /\ at'[w] = at[w] + 1
      /\ listing'[w] = listing[w] /\ pc'[w] = "storing" /\ at[w] \in Nat
  BY <1>1 DEF PassOver, UploadTypes
<1>3. ImagesUpTo(w, at[w] + 1) = ImagesUpTo(w, at[w])
  BY <1>2, NextCounted DEF PassOver, Current
<1>4. \A n : ImagesUpTo(w, n)' = ImagesUpTo(w, n)
  BY <1>2 DEF ImagesUpTo
<1> QED
  BY <1>2, <1>3, <1>4 DEF CountedOf

LEMMA StoredCounted ==
    ASSUME IInv, NEW w \in Uploads, CountedOf(w), StoreStep(w)
    PROVE  CountedOf(w)'
<1>1. UploadTypes
  BY TypesSplit DEF IInv
<1> DEFINE k == Len(listing[w]) + 1
           upTo(n) == ImagesUpTo(w, n)
<1>2. /\ kind'[w] = kind[w] /\ sent'[w] = sent[w] /\ at'[w] = at[w] + 1
      /\ listing'[w] = WithPage(w) /\ pc'[w] = "storing" /\ at[w] \in Nat
      /\ listing[w] \in Seq(Listed) /\ Current(w) # NoImage
  BY <1>1 DEF StoreStep, Stored, AtImage, UploadTypes
<1>3. /\ WithPage(w) \in Seq(Listed) /\ Len(WithPage(w)) = k
      /\ \A n \in DOMAIN listing[w] : WithPage(w)[n] = listing[w][n]
      /\ WithPage(w)[k] = [index |-> k, image |-> Current(w)]
  BY CurrentTyped DEF StoreStep, IInv
<1>4. \A n : ImagesUpTo(w, n)' = ImagesUpTo(w, n)
  BY <1>2 DEF ImagesUpTo
<1>5. /\ upTo(at[w] + 1) = upTo(at[w]) \cup {at[w] + 1}
      /\ Cardinality(upTo(at[w] + 1)) = Cardinality(upTo(at[w])) + 1
  BY <1>2, NextCounted DEF Current
<1>6. SUFFICES ASSUME kind[w] = "archive"
               PROVE  /\ k = Cardinality(upTo(at[w] + 1))
                      /\ \A n \in DOMAIN WithPage(w) : WithPage(w)[n].index = n
                      /\ \A m \in upTo(at[w] + 1) :
                            WithPage(w)[Cardinality(upTo(m))].image = sent[w][m]
  BY <1>2, <1>3, <1>4 DEF CountedOf
<1>7. /\ Len(listing[w]) = Cardinality(upTo(at[w]))
      /\ \A n \in DOMAIN listing[w] : listing[w][n].index = n
      /\ \A m \in upTo(at[w]) : listing[w][Cardinality(upTo(m))].image = sent[w][m]
  BY <1>6 DEF CountedOf
<1>8. ASSUME NEW n \in DOMAIN WithPage(w) PROVE WithPage(w)[n].index = n
  BY <1>2, <1>3, <1>7, <1>8
<1>9. ASSUME NEW m \in upTo(at[w] + 1)
      PROVE  WithPage(w)[Cardinality(upTo(m))].image = sent[w][m]
  <2>1. CASE m = at[w] + 1
    BY <1>3, <1>5, <1>7, <2>1 DEF Current
  <2>2. CASE m \in upTo(at[w])
    <3>1. Cardinality(upTo(m)) \in 1 .. Len(listing[w])
      BY <1>2, <1>7, <2>2, PageBounded
    <3>2. Cardinality(upTo(m)) \in DOMAIN listing[w]
      BY <1>2, <3>1
    <3> QED
      BY <1>3, <1>7, <2>2, <3>2
  <2> QED
    BY <1>5, <1>9, <2>1, <2>2
<1> QED
  BY <1>5, <1>7, <1>8, <1>9

LEMMA CountedStep ==
    ASSUME IInv, Counted, [Next]_vars, NEW w \in Uploads
    PROVE  CountedOf(w)'
<1>1. UploadTypes /\ CountedOf(w) /\ StandingOf(w)
  BY TypesSplit DEF IInv, Counted, Standing
<1>2. ASSUME NEW u \in Uploads, Arrivals(u) \/ UploadSteps(u), u # w
      PROVE  CountedOf(w)'
  BY <1>1, <1>2, OthersSame, SameCounted DEF Same
<1>3. ASSUME Arrivals(w)
      PROVE  CountedOf(w)'
  <2>1. PICK k, entries, pages : ArriveStep(w, k, entries, pages)
    BY <1>3, ArrivalsAreArriveSteps
  <2>2. /\ kind'[w] = k /\ listing'[w] = pages /\ at'[w] = 0
        /\ k = "archive" => pages = <<>> /\ pc'[w] \in {"streaming", "done"}
    BY <1>1, <2>1 DEF ArriveStep, Arrive, Answer, UploadTypes, StandingOf
  <2>3. ImagesUpTo(w, 0)' = {}
    BY DEF ImagesUpTo
  <2>4. Len(<<>>) = 0 /\ DOMAIN <<>> = {} /\ Cardinality({}) = 0
    BY FS_EmptySet
  <2> QED
    BY <2>2, <2>3, <2>4 DEF CountedOf
<1>4. ASSUME UploadSteps(w)
      PROVE  CountedOf(w)'
  <2>1. CASE PassOver(w)
    BY <1>1, <2>1, PassedCounted
  <2>2. CASE FindFile(w) \/ Publish(w) \/ (WriteFails(w) /\ files[Current(w)] # "none")
    BY <1>1, <2>2, Storing, StoredCounted
  <2>3. CASE Stream(w) \/ HangUp(w) \/ RefuseRepeated(w) \/ RefuseEntry(w) \/ BeginWrite(w)
    BY <1>1, <2>3, SameCounted DEF Stream, HangUp, RefuseRepeated, RefuseEntry, BeginWrite,
       Answer, UploadTypes
  <2>4. CASE StoredAll(w)
    <3>1. at[w] = Len(sent[w])
      BY <2>4 DEF StoredAll
    <3> QED
      BY <1>1, <2>4, <3>1, SameCounted DEF StoredAll
  <2>5. CASE WriteFails(w) /\ files[Current(w)] = "none"
    BY <1>1, <2>5, SameCounted DEF WriteFails, Answer, UploadTypes
  <2>6. CASE Check(w) \/ PersistRefused(w) \/ PersistFails(w) \/ Persist(w)
    BY <1>1, <2>6, SameCounted DEF Check, PersistRefused, PersistFails, Persist, Answer, UploadTypes
  <2> QED
    BY <1>4, <2>1, <2>2, <2>3, <2>4, <2>5, <2>6, OneOfThem
<1>5. CASE Crash
  BY <1>1, <1>5, SameCounted DEF Crash, UploadTypes
<1>6. CASE CreateCookbook \/ (\E v \in Viewers : ViewSteps(v)) \/ UNCHANGED vars
  <2>1. UNCHANGED uploadVars
    BY <1>6 DEF CreateCookbook, ViewSteps, Look, FindDerivative, BeginEncode,
       PublishDerivative, EncodeFails, Served, View, vars
  <2> QED
    BY <1>1, <2>1, SameCounted DEF uploadVars
<1> QED
  BY <1>2, <1>3, <1>4, <1>5, <1>6 DEF Next

\* With indexes that differ, each page of the request gets its row.
LEMMA RowsInOrder ==
    ASSUME TypeOK, NEW u \in Uploads, NEW k \in Index,
           \A n \in DOMAIN listing[u] : listing[u][n].index = n
    PROVE  RowsOf(u, Len(listing[u]))[<<u, k>>] =
             IF k \in DOMAIN listing[u] THEN listing[u][k].image ELSE rows[<<u, k>>]
<1> DEFINE S == LastWith(u, Len(listing[u]), k)
<1>1. listing[u] \in Seq(Listed) /\ DOMAIN listing[u] = 1 .. Len(listing[u])
  BY DEF TypeOK
<1>2. S = IF k \in DOMAIN listing[u] THEN {k} ELSE {}
  BY <1>1 DEF LastWith
<1>3. CASE k \in DOMAIN listing[u]
  <2>1. (CHOOSE m \in S : TRUE) = k
    BY <1>2, <1>3
  <2>2. ASSUME NEW x \in Uploads \X Index, x[1] = u, x[2] = k
        PROVE  RowsOf(u, Len(listing[u]))[x] = listing[u][CHOOSE m \in S : TRUE].image
    BY <1>2, <1>3, <2>2 DEF RowsOf
  <2> HIDE DEF S
  <2> QED
    BY <1>3, <2>1, <2>2
<1>4. CASE k \notin DOMAIN listing[u]
  <2>1. ASSUME NEW x \in Uploads \X Index, x[1] = u, x[2] = k
        PROVE  RowsOf(u, Len(listing[u]))[x] = rows[x]
    BY <1>2, <1>4, <2>1 DEF RowsOf
  <2> QED
    BY <1>4, <2>1
<1> QED
  BY <1>3, <1>4

OrderedBy(u) ==
    (u \in imports /\ kind[u] = "archive") =>
        /\ \A m \in ImagesUpTo(u, Len(sent[u])) :
              rows[<<u, Cardinality(ImagesUpTo(u, m))>>] = sent[u][m]
        /\ \A n \in Index :
              n > Cardinality(ImagesUpTo(u, Len(sent[u]))) => rows[<<u, n>>] = NoImage

LEMMA OrderIsOrderedBy == TypeOK => (ArchiveInOrder <=> \A u \in Uploads : OrderedBy(u))
BY DEF ArchiveInOrder, OrderedBy, TypeOK

LEMMA PersistOrders ==
    ASSUME IInv, Owned, Counted, NEW u \in Uploads, Persist(u)
    PROVE  OrderedBy(u)'
<1>1. UploadTypes /\ TypeOK /\ CountedOf(u)
  BY TypesSplit DEF IInv, Counted
<1>2. /\ sent'[u] = sent[u] /\ kind'[u] = kind[u] /\ pc[u] = "persisting"
      /\ rows' = RowsOf(u, Len(listing[u])) /\ u \notin imports
  BY PersistRows DEF Persist
<1>3. \A n : ImagesUpTo(u, n)' = ImagesUpTo(u, n)
  BY <1>2 DEF ImagesUpTo
<1>4. SUFFICES ASSUME kind[u] = "archive"
               PROVE  /\ \A m \in ImagesUpTo(u, Len(sent[u])) :
                           rows'[<<u, Cardinality(ImagesUpTo(u, m))>>] = sent[u][m]
                      /\ \A n \in Index :
                           n > Cardinality(ImagesUpTo(u, Len(sent[u])))
                             => rows'[<<u, n>>] = NoImage
  BY <1>2, <1>3 DEF OrderedBy
<1>5. /\ Len(listing[u]) = Cardinality(ImagesUpTo(u, Len(sent[u])))
      /\ \A n \in DOMAIN listing[u] : listing[u][n].index = n
      /\ \A m \in ImagesUpTo(u, Len(sent[u])) :
            listing[u][Cardinality(ImagesUpTo(u, m))].image = sent[u][m]
  BY <1>1, <1>2, <1>4 DEF CountedOf
<1>6. listing[u] \in Seq(Listed) /\ DOMAIN listing[u] = 1 .. Len(listing[u]) /\ Len(sent[u]) \in Nat
  BY <1>1 DEF UploadTypes
<1>7. ASSUME NEW m \in ImagesUpTo(u, Len(sent[u]))
      PROVE  rows'[<<u, Cardinality(ImagesUpTo(u, m))>>] = sent[u][m]
  <2>1. Cardinality(ImagesUpTo(u, m)) \in DOMAIN listing[u]
    BY <1>5, <1>6, PageBounded
  <2>2. Cardinality(ImagesUpTo(u, m)) \in Index
    BY <1>1, PageIsIndex DEF IInv
  <2> QED
    BY <1>1, <1>2, <1>5, <2>1, <2>2, RowsInOrder
<1>8. ASSUME NEW n \in Index, n > Cardinality(ImagesUpTo(u, Len(sent[u])))
      PROVE  rows'[<<u, n>>] = NoImage
  <2>1. n \notin DOMAIN listing[u]
    BY <1>5, <1>6, <1>8 DEF Index
  <2> QED
    BY <1>1, <1>2, <1>5, <2>1, RowsInOrder DEF Owned, OwnedBy
<1> QED
  BY <1>7, <1>8

\* An import's request is over, so what it sent is there for good.
LEMMA SettledStays ==
    ASSUME IInv, Owned, [Next]_vars, NEW w \in Uploads, w \in imports
    PROVE  kind'[w] = kind[w] /\ sent'[w] = sent[w]
<1>1. pc[w] = "done"
  BY DEF Owned, OwnedBy
<1>2. ASSUME NEW u \in Uploads, Arrivals(u) PROVE kind'[w] = kind[w] /\ sent'[w] = sent[w]
  <2>1. u # w
    BY <1>1, <1>2 DEF Arrivals, StartArchive, StartImage, StartSet, Arrive
  <2> QED
    BY <1>2, <2>1, OthersSame DEF Same
<1>3. ASSUME NEW u \in Uploads, UploadSteps(u) PROVE UNCHANGED <<kind, sent>>
  BY <1>3, UploadStepsSplit DEF Turn, StoreStep, Persist
<1>4. CASE CreateCookbook \/ Crash \/ (\E v \in Viewers : ViewSteps(v)) \/ UNCHANGED vars
  BY <1>4 DEF CreateCookbook, Crash, ViewSteps, Look, FindDerivative, BeginEncode,
     PublishDerivative, EncodeFails, Served, View, vars, uploadVars
<1> QED
  BY <1>2, <1>3, <1>4 DEF Next

LEMMA OrderedStep ==
    ASSUME IInv, Owned, Counted, [Next]_vars, NEW w \in Uploads, OrderedBy(w)
    PROVE  OrderedBy(w)'
<1>1. CASE Persist(w)
  BY <1>1, PersistOrders
<1>2. CASE ~Persist(w)
  <2>1. /\ w \in imports' <=> w \in imports
        /\ \A n \in Index : rows'[<<w, n>>] = rows[<<w, n>>]
    BY <1>2, RowsStep, PersistRows
  <2>2. w \in imports => kind'[w] = kind[w] /\ sent'[w] = sent[w]
    BY SettledStays
  <2>3. \A m \in ImagesUpTo(w, Len(sent[w])) : Cardinality(ImagesUpTo(w, m)) \in Index
    BY PageIsIndex DEF IInv
  <2>4. w \in imports => \A n : ImagesUpTo(w, n)' = ImagesUpTo(w, n)
    BY <2>2 DEF ImagesUpTo
  <2> QED
    BY <2>1, <2>2, <2>3, <2>4 DEF OrderedBy
<1> QED
  BY <1>1, <1>2

\* The pages of an archive are its images in its order, numbered without a gap
\* (walk_archive counts what it stores, and the import is one transaction).
THEOREM ArchiveOrdered == Spec => []ArchiveInOrder
<1>1. Init => Counted /\ ArchiveInOrder
  BY DEF Init, Counted, CountedOf, ArchiveInOrder
<1>2. IInv /\ Owned /\ Counted /\ [Next]_vars => Counted'
  BY CountedStep DEF Counted
<1>3. IInv /\ Owned /\ Counted /\ ArchiveInOrder /\ [Next]_vars => ArchiveInOrder'
  <2> SUFFICES ASSUME IInv, Owned, Counted, ArchiveInOrder, [Next]_vars
               PROVE  ArchiveInOrder'
    OBVIOUS
  <2>1. \A u \in Uploads : OrderedBy(u)'
    BY OrderedStep, OrderIsOrderedBy DEF IInv
  <2>2. TypeOK'
    BY TypesStep
  <2> QED
    BY <2>1, <2>2 DEF ArchiveInOrder, OrderedBy, TypeOK
<1> QED
  BY <1>1, <1>2, <1>3, RowsInv, PTL DEF Spec

=============================================================================
