-------------------------------- MODULE Uploads --------------------------------
(***************************************************************************)
(* How page images get into the catalogue: the archive, page-image and     *)
(* image-set routes (http.rs), the content-addressed image files they      *)
(* leave (assets.rs), the transaction that makes an import of them         *)
(* (duckdb_write.rs), and the page-image route that serves them with an    *)
(* AVIF derivative encoded on first use.                                   *)
(*                                                                         *)
(* Requests interleave wherever a handler awaits or a blocking task does   *)
(* file work; the store's mutex makes each store operation one action.  A  *)
(* client may hang up, any file operation and any transaction may fail,    *)
(* and the server may crash.  An image stands for its bytes, so for its    *)
(* hash and its file (one that arrives under two extensions has two, which *)
(* the model takes for one); an upload for its request and the import id   *)
(* the route generates.  A page of an image set has the hash this server   *)
(* answered for its image, or no hash.  There is one cookbook.             *)
(***************************************************************************)
EXTENDS Naturals, Sequences, FiniteSets

CONSTANTS
    Uploads,   \* upload requests
    Images,    \* image contents
    NoImage,   \* no image; in an archive an entry the walk passes over
    NoHash,    \* the image of a page that came without a hash
    Viewers,   \* requests for a page's image
    Archives,  \* the archives clients send: sequences of images and NoImage
    MaxPages   \* bound: pages of an import

ASSUME UploadsAssumption ==
    /\ NoImage \notin Images
    /\ NoHash \notin Images \cup {NoImage}
    /\ Archives \subseteq Seq(Images \cup {NoImage})
    /\ \A a \in Archives : Len(a) <= MaxPages
    /\ MaxPages \in Nat \ {0}

VARIABLES
    cookbook,  \* whether the cookbook has been created
    files,     \* the file of each image in cookbook-images
    derived,   \* its AVIF file in derived
    imports,   \* cookbook_imports
    rows,      \* cookbook_pages: the image of page n of an import, or NoHash
    kind,      \* which route an upload uses
    sent,      \* the entries of its archive, or its one image
    at,        \* how many of them the blocking task is done with
    listing,   \* the pages of its source import: their image_index and image
    pc,        \* where the request or its blocking task is
    reply,     \* what the client was told ("failed" is any error that is not a
               \* conflict), "lost" once it is not connected
    vpc,       \* where a viewer is
    vimage     \* the image of the page it looks at

storeVars  == <<cookbook, imports, rows>>
uploadVars == <<kind, sent, at, listing, pc, reply>>
viewVars   == <<vpc, vimage>>
vars == <<storeVars, files, derived, uploadVars, viewVars>>

Index   == 1 .. MaxPages
Entry   == Images \cup {NoImage}
File    == {"none", "partial", "whole"}
Listed  == [index : Index, image : Images \cup {NoHash}]
Working == {"streaming", "storing", "writing", "checking", "persisting"}
Replies == {"none", "ok", "conflict", "failed", "lost"}

\* Page images whose clients hold the path and hash the route answered with.
Known ==
    {x \in Images : \E u \in Uploads :
        kind[u] = "image" /\ reply[u] = "ok" /\ sent[u] = <<x>>}

TypeOK ==
    /\ cookbook \in BOOLEAN
    /\ files \in [Images -> File]
    /\ derived \in [Images -> File]
    /\ imports \in SUBSET Uploads
    /\ rows \in [Uploads \X Index -> Entry \cup {NoHash}]
    /\ kind \in [Uploads -> {"none", "archive", "image", "set"}]
    /\ sent \in [Uploads -> Seq(Entry)]
    /\ at \in [Uploads -> Nat]
    /\ listing \in [Uploads -> Seq(Listed)]
    /\ pc \in [Uploads -> Working \cup {"idle", "done"}]
    /\ reply \in [Uploads -> Replies]
    /\ vpc \in [Viewers -> {"idle", "looking", "encoding", "reading", "plain"}]
    /\ vimage \in [Viewers -> Entry \cup {NoHash}]

Init ==
    /\ cookbook = FALSE
    /\ files = [x \in Images |-> "none"]
    /\ derived = [x \in Images |-> "none"]
    /\ imports = {}
    /\ rows = [id \in Uploads \X Index |-> NoImage]
    /\ kind = [u \in Uploads |-> "none"]
    /\ sent = [u \in Uploads |-> <<>>]
    /\ at = [u \in Uploads |-> 0]
    /\ listing = [u \in Uploads |-> <<>>]
    /\ pc = [u \in Uploads |-> "idle"]
    /\ reply = [u \in Uploads |-> "none"]
    /\ vpc = [v \in Viewers |-> "idle"]
    /\ vimage = [v \in Viewers |-> NoImage]

-----------------------------------------------------------------------------
(* Requests begin and end                                                  *)

\* POST /api/cookbooks; a second one is a conflict.
CreateCookbook ==
    /\ ~cookbook
    /\ cookbook' = TRUE
    /\ UNCHANGED <<imports, rows, files, derived, uploadVars, viewVars>>

\* The handler returns; whoever hung up learns nothing.
Answer(u, a) ==
    /\ pc' = [pc EXCEPT ![u] = "done"]
    /\ reply' = [reply EXCEPT ![u] = IF @ = "lost" THEN "lost" ELSE a]

\* Between two awaited tasks the handler runs on only for a client that is
\* there.
Await(u, next) ==
    /\ pc' = [pc EXCEPT ![u] = IF reply[u] = "lost" THEN "done" ELSE next]
    /\ UNCHANGED reply

Arrive(u, k, entries, pages) ==
    /\ pc[u] = "idle"
    /\ kind' = [kind EXCEPT ![u] = k]
    /\ sent' = [sent EXCEPT ![u] = entries]
    /\ listing' = [listing EXCEPT ![u] = pages]
    /\ UNCHANGED <<storeVars, files, derived, at, viewVars>>

\* POST /api/cookbook-imports/archive: the cookbook must exist before the body
\* is read.  Otherwise, or without a proper length, or if the store or the
\* directory fails, the client gets an error.
StartArchive(u, entries) ==
    /\ Arrive(u, "archive", entries, <<>>)
    /\ \/ cookbook /\ pc' = [pc EXCEPT ![u] = "streaming"] /\ UNCHANGED reply
       \/ Answer(u, "failed")

\* POST /api/cookbook-page-images
StartImage(u, x) ==
    /\ Arrive(u, "image", <<x>>, <<>>)
    /\ pc' = [pc EXCEPT ![u] = "storing"]
    /\ UNCHANGED reply

\* POST /api/cookbook-imports/image-set; nothing asks that the pages have a
\* hash or that their indexes differ.
StartSet(u, pages) ==
    /\ Arrive(u, "set", <<>>, pages)
    /\ pc' = [pc EXCEPT ![u] = "persisting"]
    /\ UNCHANGED reply

\* stream_archive_body: the whole body is on disk, or its length is wrong or a
\* write failed.
Stream(u) ==
    /\ pc[u] = "streaming"
    /\ \/ pc' = [pc EXCEPT ![u] = "storing"] /\ UNCHANGED reply
       \/ Answer(u, "failed")
    /\ UNCHANGED <<storeVars, files, derived, kind, sent, at, listing, viewVars>>

\* The client goes away: nothing more can be read from it, but a task that has
\* begun to block runs to its end.
HangUp(u) ==
    /\ pc[u] \in Working
    /\ reply' = [reply EXCEPT ![u] = "lost"]
    /\ pc' = [pc EXCEPT ![u] = IF @ = "streaming" THEN "done" ELSE @]
    /\ UNCHANGED <<storeVars, files, derived, kind, sent, at, listing, viewVars>>

\* The server stops and starts again: files and tables are what is left.
Crash ==
    /\ pc' = [u \in Uploads |-> IF pc[u] \in Working THEN "done" ELSE pc[u]]
    /\ reply' = [u \in Uploads |-> IF pc[u] \in Working THEN "lost" ELSE reply[u]]
    /\ vpc' = [v \in Viewers |-> "idle"]
    /\ vimage' = [v \in Viewers |-> NoImage]
    /\ UNCHANGED <<storeVars, files, derived, kind, sent, at, listing>>

-----------------------------------------------------------------------------
(* Storing images under their hash                                         *)

\* The entry the walk is at, and the images it has passed.
Current(u) == sent[u][at[u] + 1]
Seen(u) == {sent[u][n] : n \in 1 .. at[u]}

AtImage(u) ==
    /\ at[u] < Len(sent[u])
    /\ Current(u) # NoImage
    /\ Current(u) \notin Seen(u)

\* Variant: the index counts every entry of the archive.
WithPageByEntry(u) ==
    Append(listing[u], [index |-> at[u] + 1, image |-> Current(u)])

\* An archive's images become pages 1, 2, ... in its order.
WithPage(u) ==
    Append(listing[u], [index |-> Len(listing[u]) + 1, image |-> Current(u)])

\* The image is in its file: on to the next entry.
Stored(u) ==
    /\ pc' = [pc EXCEPT ![u] = "storing"]
    /\ at' = [at EXCEPT ![u] = @ + 1]
    /\ listing' = [listing EXCEPT ![u] = WithPage(u)]
    /\ UNCHANGED reply

\* walk_archive passes over directories and other files.
PassOver(u) ==
    /\ pc[u] = "storing"
    /\ at[u] < Len(sent[u])
    /\ Current(u) = NoImage
    /\ at' = [at EXCEPT ![u] = @ + 1]
    /\ UNCHANGED <<storeVars, files, derived, kind, sent, listing, pc,
                   reply, viewVars>>

\* The archive has the image twice; what was stored of it stays.
RefuseRepeated(u) ==
    /\ pc[u] = "storing"
    /\ at[u] < Len(sent[u])
    /\ Current(u) \in Seen(u) \ {NoImage}
    /\ Answer(u, "conflict")
    /\ UNCHANGED <<storeVars, files, derived, kind, sent, at, listing, viewVars>>

\* An entry the walk refuses (a link, an unsafe path, too large, cut off) or
\* whose extracted copy fails, or a page image that cannot be decoded.
RefuseEntry(u) ==
    /\ pc[u] = "storing"
    /\ at[u] < Len(sent[u])
    /\ Answer(u, "failed")
    /\ UNCHANGED <<storeVars, files, derived, kind, sent, at, listing, viewVars>>

\* atomic_write: the file is there already.
FindFile(u) ==
    /\ pc[u] = "storing"
    /\ AtImage(u)
    /\ files[Current(u)] # "none"
    /\ Stored(u)
    /\ UNCHANGED <<storeVars, files, derived, kind, sent, viewVars>>

\* Variant: the bytes go to the file itself.
BeginWriteInPlace(u) ==
    /\ pc[u] = "storing"
    /\ AtImage(u)
    /\ files[Current(u)] = "none"
    /\ pc' = [pc EXCEPT ![u] = "writing"]
    /\ files' = [files EXCEPT ![Current(u)] = "partial"]
    /\ UNCHANGED <<storeVars, derived, kind, sent, at, listing, reply,
                   viewVars>>

\* It is not: the bytes go to a temporary file nobody else knows.
BeginWrite(u) ==
    /\ pc[u] = "storing"
    /\ AtImage(u)
    /\ files[Current(u)] = "none"
    /\ pc' = [pc EXCEPT ![u] = "writing"]
    /\ UNCHANGED <<storeVars, files, derived, kind, sent, at, listing, reply,
                   viewVars>>

\* The temporary file is renamed.
Publish(u) ==
    /\ pc[u] = "writing"
    /\ files' = [files EXCEPT ![Current(u)] = "whole"]
    /\ Stored(u)
    /\ UNCHANGED <<storeVars, derived, kind, sent, viewVars>>

\* The write fails, which does not matter if somebody else's did not.
WriteFails(u) ==
    /\ pc[u] = "writing"
    /\ IF files[Current(u)] # "none"
       THEN Stored(u)
       ELSE Answer(u, "failed") /\ UNCHANGED <<at, listing>>
    /\ UNCHANGED <<storeVars, files, derived, kind, sent, viewVars>>

\* All entries are done with.
StoredAll(u) ==
    /\ pc[u] = "storing"
    /\ at[u] = Len(sent[u])
    /\ CASE kind[u] = "image" -> Await(u, "checking")
         [] kind[u] = "archive" /\ listing[u] # <<>> -> Await(u, "persisting")
         [] OTHER -> Answer(u, "failed")
    /\ UNCHANGED <<storeVars, files, derived, kind, sent, at, listing, viewVars>>

-----------------------------------------------------------------------------
(* The tables                                                              *)

\* Variant: the image directory is asked instead.
HasFile(x) == files[x] # "none"

\* Some page has the image.
HasPage(x) == \E id \in Uploads \X Index : rows[id] = x

\* cookbook_page_image_hash_exists: the client of a page image is told whether
\* it may go on.
Check(u) ==
    /\ pc[u] = "checking"
    /\ \/ Answer(u, IF HasPage(sent[u][1]) THEN "conflict" ELSE "ok")
       \/ Answer(u, "failed")
    /\ UNCHANGED <<storeVars, files, derived, kind, sent, at, listing, viewVars>>

\* Two pages of the request have one image.
Repeats(u) ==
    \E m, n \in DOMAIN listing[u] :
        /\ m # n
        /\ listing[u][m].image = listing[u][n].image
        /\ listing[u][m].image # NoHash

\* Variant: the transaction relies on the check at upload.
DuplicateInRequest(u) == Repeats(u)

\* A page of the request has the image of another page of it or of a row; one
\* without a hash is not compared.
Duplicate(u) ==
    \/ Repeats(u)
    \/ \E n \in DOMAIN listing[u] :
          listing[u][n].image # NoHash /\ HasPage(listing[u][n].image)

PersistRefused(u) ==
    /\ pc[u] = "persisting"
    /\ \/ ~cookbook /\ Answer(u, "failed")
       \/ cookbook /\ Duplicate(u) /\ Answer(u, "conflict")
    /\ UNCHANGED <<storeVars, files, derived, kind, sent, at, listing, viewVars>>

\* The last of the first n pages of the request that has index k.
LastWith(u, n, k) ==
    {m \in 1 .. n : /\ listing[u][m].index = k
                    /\ \A j \in 1 .. n : listing[u][j].index = k => j <= m}

\* What upserting the first n pages leaves: a later page with the same index,
\* so with the same id, replaces an earlier one.
RowsOf(u, n) ==
    [id \in Uploads \X Index |->
        IF id[1] = u /\ LastWith(u, n, id[2]) # {}
        THEN listing[u][CHOOSE m \in LastWith(u, n, id[2]) : TRUE].image
        ELSE rows[id]]

\* Variant: statements before the one that fails are not rolled back.
PersistFailsHalfway(u) ==
    /\ pc[u] = "persisting"
    /\ cookbook
    /\ ~Duplicate(u)
    /\ imports' = imports \cup {u}
    /\ \E n \in 0 .. Len(listing[u]) : rows' = RowsOf(u, n)
    /\ Answer(u, "failed")
    /\ UNCHANGED <<cookbook, files, derived, kind, sent, at, listing, viewVars>>

\* A statement or the commit fails: the transaction is rolled back.
PersistFails(u) ==
    /\ pc[u] = "persisting"
    /\ Answer(u, "failed")
    /\ UNCHANGED <<storeVars, files, derived, kind, sent, at, listing, viewVars>>

\* create_cookbook_source_import
Persist(u) ==
    /\ pc[u] = "persisting"
    /\ cookbook
    /\ ~Duplicate(u)
    /\ imports' = imports \cup {u}
    /\ rows' = RowsOf(u, Len(listing[u]))
    /\ Answer(u, "ok")
    /\ UNCHANGED <<cookbook, files, derived, kind, sent, at, listing, viewVars>>

-----------------------------------------------------------------------------
(* Serving a page's image                                                  *)

View(v, from, to) ==
    /\ vpc[v] = from
    /\ vpc' = [vpc EXCEPT ![v] = to]
    /\ UNCHANGED <<storeVars, files, uploadVars>>

\* A browser that takes no AVIF, and whoever looks at a page without a hash,
\* gets the original.
Look(v, id) ==
    /\ \/ View(v, "idle", "looking") /\ rows[id] # NoHash
       \/ View(v, "idle", "plain")
    /\ rows[id] # NoImage
    /\ vimage' = [vimage EXCEPT ![v] = rows[id]]
    /\ UNCHANGED derived

FindDerivative(v) ==
    /\ View(v, "looking", "reading")
    /\ derived[vimage[v]] # "none"
    /\ UNCHANGED <<derived, vimage>>

\* Variant: the converter writes to the cached file itself.
BeginEncodeInPlace(v) ==
    /\ View(v, "looking", "encoding")
    /\ derived[vimage[v]] = "none"
    /\ derived' = [derived EXCEPT ![vimage[v]] = "partial"]
    /\ UNCHANGED vimage

\* The converter writes to a temporary file.
BeginEncode(v) ==
    /\ View(v, "looking", "encoding")
    /\ derived[vimage[v]] = "none"
    /\ UNCHANGED <<derived, vimage>>

PublishDerivative(v) ==
    /\ View(v, "encoding", "reading")
    /\ files[vimage[v]] = "whole"
    /\ derived' = [derived EXCEPT ![vimage[v]] = "whole"]
    /\ UNCHANGED vimage

\* There is no converter, or it or the rename fails: the original is served,
\* unless the rename failed and another request's did not.
EncodeFails(v) ==
    /\ \/ View(v, "encoding", "plain")
       \/ View(v, "encoding", "reading") /\ derived[vimage[v]] # "none"
    /\ UNCHANGED <<derived, vimage>>

Served(v) ==
    /\ View(v, "reading", "idle") \/ View(v, "plain", "idle")
    /\ vimage' = [vimage EXCEPT ![v] = NoImage]
    /\ UNCHANGED derived

-----------------------------------------------------------------------------
Arrivals(u) ==
    \/ \E entries \in Archives : StartArchive(u, entries)
    \/ \E x \in Images : StartImage(u, x)
    \/ \E n \in Index : \E pages \in [1 .. n -> [index : Index, image : Known \cup {NoHash}]] :
          StartSet(u, pages)

UploadSteps(u) ==
    \/ Stream(u) \/ HangUp(u)
    \/ PassOver(u) \/ RefuseRepeated(u) \/ RefuseEntry(u)
    \/ FindFile(u) \/ BeginWrite(u) \/ Publish(u) \/ WriteFails(u)
    \/ StoredAll(u)
    \/ Check(u) \/ PersistRefused(u) \/ PersistFails(u) \/ Persist(u)

ViewSteps(v) ==
    \/ \E id \in Uploads \X Index : Look(v, id)
    \/ FindDerivative(v) \/ BeginEncode(v) \/ PublishDerivative(v)
    \/ EncodeFails(v) \/ Served(v)

Next ==
    \/ CreateCookbook
    \/ \E u \in Uploads : Arrivals(u) \/ UploadSteps(u)
    \/ \E v \in Viewers : ViewSteps(v)
    \/ Crash

Spec == Init /\ [][Next]_vars

-----------------------------------------------------------------------------
(* Properties                                                              *)

\* No two pages have the same hash, whatever uploads race each other or
\* repeat what an earlier one did ("duplicate rejection"): the check at upload
\* may be stale when the import is made.
ImagesUnique ==
    \A id1, id2 \in Uploads \X Index :
        rows[id1] = rows[id2] /\ rows[id1] \in Images => id1 = id2

\* A page with a hash has its image in full: no request that is still
\* writing, has failed or was cut off by a crash leaves less.
PagesHaveFiles ==
    \A id \in Uploads \X Index : rows[id] \in Images => files[rows[id]] = "whole"

\* Nobody is served a derivative that is still being encoded, or whose
\* encoder was cut off.
DerivativesWhole ==
    \A v \in Viewers : vpc[v] = "reading" => derived[vimage[v]] = "whole"

\* The images among the first n entries of what a request sent.
ImagesUpTo(u, n) == {m \in 1 .. n : sent[u][m] # NoImage}

\* The pages of an archive's import are exactly its images in its order,
\* numbered from one without a gap ("stable page ordering"): the page of an
\* entry is how many images have come up to it.
ArchiveInOrder ==
    \A u \in imports : kind[u] = "archive" =>
        LET entries == ImagesUpTo(u, Len(sent[u]))
            page(m) == Cardinality(ImagesUpTo(u, m))
        IN  /\ \A m \in entries : rows[<<u, page(m)>>] = sent[u][m]
            /\ \A n \in Index : n > Cardinality(entries) => rows[<<u, n>>] = NoImage

\* An import answered "ok" is in the catalogue, one answered anything else is
\* not and has left no page; who lost the connection cannot tell.
AnswersAreTrue ==
    \A u \in Uploads :
        /\ reply[u] = "ok" => kind[u] = "image" \/ u \in imports
        /\ reply[u] \in {"conflict", "failed"} => u \notin imports
        /\ u \notin imports => \A n \in Index : rows[<<u, n>>] = NoImage

\* The images an upload brings.
Mine(u) ==
    ({sent[u][n] : n \in DOMAIN sent[u]} \cup
     {listing[u][n].image : n \in DOMAIN listing[u]}) \cap Images

\* A conflict is answered only for an image that is twice in the request or
\* that a page of another import has: files left by an upload that failed or
\* was cut off never block its retry.
ConflictIsTrue ==
    \A u \in Uploads : reply[u] = "conflict" =>
        \/ Repeats(u)
        \/ \E m, n \in DOMAIN sent[u] :
             m # n /\ sent[u][m] = sent[u][n] /\ sent[u][n] # NoImage
        \/ \E id \in Uploads \X Index : id[1] # u /\ rows[id] \in Mine(u)

=============================================================================
