------------------------------ MODULE Catalogue ------------------------------
(***************************************************************************)
(* Products and categories of the product service, with the media service  *)
(* that stores their images.                                               *)
(*                                                                         *)
(* Handlers of any number of requests run concurrently; every await on the *)
(* database or on an upload separates two actions.  The media service      *)
(* works on each upload in a process of its own, and an upload goes on     *)
(* after the product service has stopped waiting for it.                   *)
(***************************************************************************)
EXTENDS Naturals

CONSTANTS
    Requests,       \* requests that may arrive, each at most once
    Original,       \* a product that is there from the start
    Sellers,        \* users
    Names,          \* names of products and of categories
    Files,          \* the files of one request
    None,           \* null
    MaxFaults       \* bound on failed statements, lost answers and crashes together

ASSUME MaxFaultsAssumption == MaxFaults \in Nat

ASSUME OriginalAssumption == Original \notin Requests

VARIABLES
    productTable,   \* table "product", by id
    categoryTable,  \* table "category", by the request that made the row
    request,        \* the handler of each request, None before it arrives
    upload,         \* the media service's work on the files of a request
    assets,         \* images stored at Cloudinary
    mediaDelete,    \* topic MEDIA_DELETE: images to be removed
    faults          \* failed statements, lost answers and crashes so far

vars == << productTable, categoryTable, request, upload, assets, mediaDelete, faults >>

-------------------------------------------------------------------------------
\* A product has the name of the request that creates it.
Products == Requests \cup {Original}

\* An image is named by the product or request it came with and its file.
Image == [by : Products, file : Files]

ImagesOf(q, files) == { [by |-> q, file |-> f] : f \in files }

\* imageUrls and imagePublicIds are always written together.
Product == [seller : Sellers, name : Names, images : SUBSET Image]

Category == [name : Names, images : SUBSET Image]

Columns == { "name", "images" }

Ops == { "createProduct", "updateProduct", "deleteProduct", "createProductCategory" }

Running == { "upload", "reload", "update", "insert", "remove" }

\* In "lost", the last statement was carried out, but its answer did not come
\* back: the caller is told of an error.
Finished == { "ok", "refused", "failed", "lost" }

Stored == { "ok", "lost" }

\* A handler holds the entity it is about to save and, between the statements
\* of a save, the columns that will be written.
Handler == [op : Ops, product : Products, step : Running \cup Finished,
            entity : Product \cup Category \cup {None}, set : SUBSET Columns]

Upload == [files : SUBSET Files, todo : SUBSET Files, failed : BOOLEAN]

ASSUME NoneAssumption == None \notin Handler \cup Product \cup Category \cup Upload

TypeOK ==
    /\ productTable \in [Products -> Product \cup {None}]
    /\ categoryTable \in [Requests -> Category \cup {None}]
    /\ request \in [Requests -> Handler \cup {None}]
    /\ upload \in [Requests -> Upload \cup {None}]
    /\ assets \subseteq Image
    /\ mediaDelete \subseteq Image
    /\ faults \in 0..MaxFaults

Init ==
    /\ \E s \in Sellers, n \in Names :
           productTable = [p \in Products |->
               IF p = Original
               THEN [seller |-> s, name |-> n, images |-> ImagesOf(Original, Files)]
               ELSE None]
    /\ categoryTable = [q \in Requests |-> None]
    /\ request = [q \in Requests |-> None]
    /\ upload = [q \in Requests |-> None]
    /\ assets = ImagesOf(Original, Files)
    /\ mediaDelete = {}
    /\ faults = 0

-------------------------------------------------------------------------------
At(q, step) == request[q] # None /\ request[q].step = step

InFlight(q) == request[q] # None /\ request[q].step \in Running

Holds(q, op, p, step, entity, set) ==
    request' = [request EXCEPT ![q] =
        [op |-> op, product |-> p, step |-> step, entity |-> entity, set |-> set]]

Answer(q, op, p, step) == Holds(q, op, p, step, None, {})

\* The handler of q goes on with another step.
Goto(q, step, entity, set) ==
    Holds(q, request[q].op, request[q].product, step, entity, set)

Finish(q, step) == Goto(q, step, None, {})

\* The statement of q is carried out.  Its answer reaches the handler, or is
\* lost with the connection; a crash at that moment is this and Crash.
Replies(q) ==
    \/ Finish(q, "ok") /\ UNCHANGED faults
    \/ /\ faults < MaxFaults
       /\ faults' = faults + 1
       /\ Finish(q, "lost")

\* kafkaClient.send: the media service gets the files, the handler waits.
SendFiles(q, op, p, entity, files) ==
    /\ Holds(q, op, p, "upload", entity, {})
    /\ upload' = [upload EXCEPT ![q] = [files |-> files, todo |-> files, failed |-> FALSE]]

tables == << productTable, categoryTable >>

images == << assets, mediaDelete >>

-------------------------------------------------------------------------------
(***************************************************************************)
(* Requests up to their first await after the read                         *)
(***************************************************************************)

HasProduct(seller, name) ==
    \E p \in Products : /\ productTable[p] # None
                        /\ productTable[p].seller = seller
                        /\ productTable[p].name = name

NewProduct(q, seller, name, files) ==
    SendFiles(q, "createProduct", q,
              [seller |-> seller, name |-> name, images |-> {}], files)

\* Mutation: a request for an existing product is told that it was created.
CreateProductAgain(q, seller, name, files) ==
    /\ request[q] = None
    /\ IF HasProduct(seller, name)
       THEN Answer(q, "createProduct", q, "ok") /\ UNCHANGED upload
       ELSE NewProduct(q, seller, name, files)
    /\ UNCHANGED << tables, images, faults >>

\* A seller's second product of the same name is refused, as far as the first
\* one is stored by now.
CreateProduct(q, seller, name, files) ==
    /\ request[q] = None
    /\ IF files = {} \/ HasProduct(seller, name)
       THEN Answer(q, "createProduct", q, "refused") /\ UNCHANGED upload
       ELSE NewProduct(q, seller, name, files)
    /\ UNCHANGED << tables, images, faults >>

IsOwnedBy(p, seller) == productTable[p] # None /\ productTable[p].seller = seller

\* Mutation: a product that is not there is put there.
UpdateOrCreateProduct(q, seller, p, name, files) ==
    /\ request[q] = None
    /\ IF productTable[p] = None
       THEN Holds(q, "updateProduct", p, "reload",
                  [seller |-> seller, name |-> name, images |-> {}], {})
       ELSE Holds(q, "updateProduct", p, "reload", [productTable[p] EXCEPT !.name = name], {})
    /\ UNCHANGED << tables, upload, images, faults >>

\* The product is read with its public ids; files are optional.
UpdateProduct(q, seller, p, name, files) ==
    /\ request[q] = None
    /\ IF ~IsOwnedBy(p, seller)
       THEN Answer(q, "updateProduct", p, "refused") /\ UNCHANGED upload
       ELSE LET entity == [productTable[p] EXCEPT !.name = name]
            IN IF files = {}
               THEN Holds(q, "updateProduct", p, "reload", entity, {}) /\ UNCHANGED upload
               ELSE SendFiles(q, "updateProduct", p, entity, files)
    /\ UNCHANGED << tables, images, faults >>

\* The images are given up first, with a message that may get lost.
DeleteProduct(q, seller, p) ==
    /\ request[q] = None
    /\ IF ~IsOwnedBy(p, seller)
       THEN Answer(q, "deleteProduct", p, "refused") /\ UNCHANGED mediaDelete
       ELSE /\ Answer(q, "deleteProduct", p, "remove")
            /\ mediaDelete' \in { mediaDelete, mediaDelete \cup productTable[p].images }
    /\ UNCHANGED << tables, upload, assets, faults >>

CreateProductCategory(q, name, file) ==
    /\ request[q] = None
    /\ IF \E c \in Requests : categoryTable[c] # None /\ categoryTable[c].name = name
       THEN Answer(q, "createProductCategory", q, "refused") /\ UNCHANGED upload
       ELSE SendFiles(q, "createProductCategory", q,
                      [name |-> name, images |-> {}], {file})
    /\ UNCHANGED << tables, images, faults >>

-------------------------------------------------------------------------------
(***************************************************************************)
(* The media service                                                       *)
(***************************************************************************)

\* The files of an upload go to Cloudinary independently; one that fails does
\* not stop the others.
StoreFile(q, f) ==
    /\ upload[q] # None
    /\ f \in upload[q].todo
    /\ upload' = [upload EXCEPT ![q].todo = @ \ {f}]
    /\ assets' = assets \cup ImagesOf(q, {f})
    /\ UNCHANGED << tables, request, mediaDelete, faults >>

FileFails(q, f) ==
    /\ upload[q] # None
    /\ f \in upload[q].todo
    /\ upload' = [upload EXCEPT ![q].todo = @ \ {f}, ![q].failed = TRUE]
    /\ UNCHANGED << tables, request, images, faults >>

\* deleteMedia: some, all or none of the images go; errors are only logged.
DeleteMedia ==
    /\ \E gone \in SUBSET mediaDelete : assets' = assets \ gone
    /\ UNCHANGED << tables, request, upload, mediaDelete, faults >>

-------------------------------------------------------------------------------
(***************************************************************************)
(* Handlers after the upload                                               *)
(***************************************************************************)

\* Mutation: the first file decides.
UploadedFirst(q) == upload[q].todo # upload[q].files /\ ~upload[q].failed

\* Promise.all over the files.
Uploaded(q) == upload[q].todo = {} /\ ~upload[q].failed

\* The reply is in time: the entity gets the images.  A new entity has no id,
\* so its save does not read first.
UploadSucceeds(q) ==
    /\ At(q, "upload")
    /\ Uploaded(q)
    /\ Goto(q, IF request[q].op = "updateProduct" THEN "reload" ELSE "insert",
            [request[q].entity EXCEPT !.images = ImagesOf(q, upload[q].files)], {})
    /\ UNCHANGED << tables, upload, images, faults >>

UploadFails(q) ==
    /\ At(q, "upload")
    /\ upload[q].failed
    /\ Finish(q, "failed")
    /\ UNCHANGED << tables, upload, images, faults >>

\* Mutation: only new products and categories wait with a limit.
UploadTimesOutForNew(q) ==
    /\ At(q, "upload")
    /\ request[q].op # "updateProduct"
    /\ Finish(q, "failed")
    /\ UNCHANGED << tables, upload, images, faults >>

\* timeout(30000): a later reply finds no subscriber.
UploadTimesOut(q) ==
    /\ At(q, "upload")
    /\ Finish(q, "failed")
    /\ UNCHANGED << tables, upload, images, faults >>

\* save(entity), SELECT by id: no row means INSERT.  Arrays are compared by
\* identity, so the images always count as changed.
Reload(q) ==
    /\ At(q, "reload")
    /\ LET row == productTable[request[q].product]
           entity == request[q].entity
       IN IF row = None
          THEN Goto(q, "insert", entity, {})
          ELSE Goto(q, "update", entity,
                    IF entity.name = row.name THEN {"images"} ELSE {"name", "images"})
    /\ UNCHANGED << tables, upload, images, faults >>

\* UPDATE by id of the columns in set: no row left is not an error.
UpdateRow(q) ==
    /\ At(q, "update")
    /\ LET p == request[q].product
           entity == request[q].entity
       IN productTable' =
              IF productTable[p] = None THEN productTable
              ELSE [productTable EXCEPT
                       ![p].images = entity.images,
                       ![p].name = IF "name" \in request[q].set THEN entity.name ELSE @]
    /\ Replies(q)
    /\ UNCHANGED << categoryTable, upload, images >>

\* INSERT: the id is the primary key.
InsertProduct(q) ==
    /\ At(q, "insert")
    /\ request[q].op # "createProductCategory"
    /\ LET p == request[q].product
       IN IF productTable[p] = None
          THEN /\ productTable' = [productTable EXCEPT ![p] = request[q].entity]
               /\ Replies(q)
          ELSE Finish(q, "failed") /\ UNCHANGED << productTable, faults >>
    /\ UNCHANGED << categoryTable, upload, images >>

\* Mutation: names are not unique in the table.
InsertCategoryUnchecked(q) ==
    /\ At(q, "insert")
    /\ request[q].op = "createProductCategory"
    /\ categoryTable' = [categoryTable EXCEPT ![q] = request[q].entity]
    /\ Replies(q)
    /\ UNCHANGED << productTable, upload, images >>

\* INSERT: the name is unique.
InsertCategory(q) ==
    /\ At(q, "insert")
    /\ request[q].op = "createProductCategory"
    /\ IF \E c \in Requests : /\ categoryTable[c] # None
                              /\ categoryTable[c].name = request[q].entity.name
       THEN Finish(q, "failed") /\ UNCHANGED << categoryTable, faults >>
       ELSE /\ categoryTable' = [categoryTable EXCEPT ![q] = request[q].entity]
            /\ Replies(q)
    /\ UNCHANGED << productTable, upload, images >>

\* DELETE by id.
RemoveProduct(q) ==
    /\ At(q, "remove")
    /\ productTable' = [productTable EXCEPT ![request[q].product] = None]
    /\ Replies(q)
    /\ UNCHANGED << categoryTable, upload, images >>

\* The next statement of a handler fails without effect, and with it the
\* request.
StatementFails(q) ==
    /\ InFlight(q)
    /\ request[q].step # "upload"
    /\ faults < MaxFaults
    /\ faults' = faults + 1
    /\ Finish(q, "failed")
    /\ UNCHANGED << tables, upload, images >>

\* The product service dies with its handlers; tables, the media service's
\* uploads and messages stay.
Crash ==
    /\ faults < MaxFaults
    /\ faults' = faults + 1
    /\ request' = [q \in Requests |->
           IF InFlight(q)
           THEN [request[q] EXCEPT !.step = "failed", !.entity = None, !.set = {}]
           ELSE request[q]]
    /\ UNCHANGED << tables, upload, images >>

-------------------------------------------------------------------------------
Arrives(q) ==
    \/ \E s \in Sellers, n \in Names, files \in SUBSET Files :
           \/ CreateProduct(q, s, n, files)
           \/ \E p \in Products : UpdateProduct(q, s, p, n, files)
    \/ \E s \in Sellers, p \in Products : DeleteProduct(q, s, p)
    \/ \E n \in Names, f \in Files : CreateProductCategory(q, n, f)

\* Steps of the product service once a request has arrived.
HandlerStep(q) ==
    \/ UploadSucceeds(q)
    \/ UploadFails(q)
    \/ UploadTimesOut(q)
    \/ Reload(q)
    \/ UpdateRow(q)
    \/ InsertProduct(q)
    \/ InsertCategory(q)
    \/ RemoveProduct(q)

MediaStep ==
    \/ \E q \in Requests, f \in Files : StoreFile(q, f) \/ FileFails(q, f)
    \/ DeleteMedia

Next ==
    \/ \E q \in Requests : Arrives(q) \/ HandlerStep(q) \/ StatementFails(q)
    \/ MediaStep
    \/ Crash

Spec == Init /\ [][Next]_vars

\* The event loop and the timers of the product service run.  Nothing is
\* assumed of the media service.
FairSpec == Spec /\ \A q \in Requests : WF_vars(HandlerStep(q))

-------------------------------------------------------------------------------
(***************************************************************************)
(* Properties                                                              *)
(***************************************************************************)

\* A deleteProduct of p has been found in order and has given up its images.
DeletionBegun(p) ==
    \E q \in Requests :
        /\ request[q] # None
        /\ request[q].op = "deleteProduct"
        /\ request[q].product = p
        /\ request[q].step # "refused"

\* Uploads that fail in part, time out or overlap, and deletions running
\* beside them: every image on record is stored, unless the deletion of this
\* very product has begun.
ShownImagesExist ==
    /\ \A p \in Products :
           productTable[p] # None =>
               DeletionBegun(p) \/ productTable[p].images \subseteq assets
    /\ \A c \in Requests :
           categoryTable[c] # None => categoryTable[c].images \subseteq assets

\* The answers of createProduct and createProductCategory: what was confirmed
\* is stored until it is deleted, and what ended in an error (a late reply, a
\* conflict, a crash) is not stored, then or later.  Only the error of an
\* INSERT whose own answer was lost does not tell.
CreateReplyHolds ==
    \A q \in Requests :
        /\ request[q] # None /\ request[q].op = "createProduct" =>
               /\ request[q].step = "ok" => productTable[q] # None \/ DeletionBegun(q)
               /\ request[q].step \in { "refused", "failed" } => productTable[q] = None
        /\ request[q] # None /\ request[q].op = "createProductCategory" =>
               /\ request[q].step = "ok" => categoryTable[q] # None
               /\ request[q].step \in { "refused", "failed" } => categoryTable[q] = None

\* createProductCategory looks for the name before the upload and inserts
\* after it: no two categories have the same name all the same.
CategoryNamesAreUnique ==
    \A c, d \in Requests :
        /\ categoryTable[c] # None
        /\ categoryTable[d] # None
        /\ categoryTable[c].name = categoryTable[d].name
        => c = d

\* The ids that are or have been in the table.
Known(p) ==
    \/ p = Original
    \/ /\ request[p] # None
       /\ request[p].op = "createProduct"
       /\ request[p].step \in Stored

\* The product has been stored, and is not any more.
Deleted(p) == Known(p) /\ productTable[p] = None

\* The handlers that are about to save the product as they read it.
Savers(p) ==
    { q \in Requests : /\ request[q] # None
                       /\ request[q].entity # None
                       /\ request[q].product = p }

\* deleteProduct against updateProduct, whose save inserts a row that is not
\* there.  An updateProduct that had read the product before a deletion that
\* was confirmed puts it back, for good and with the images given up: the code
\* does not prevent that.  Nothing else does: while a product is deleted no
\* further handler gets hold of it, and each that has can put it back once, by
\* the INSERT that ends it.
OnlyEarlierSavesRevive ==
    [][\A p \in Products :
           Deleted(p) =>
               /\ Savers(p)' \subseteq Savers(p)
               /\ productTable'[p] # None =>
                      \E q \in Savers(p) \ Savers(p)' :
                          /\ request[q].op = "updateProduct"
                          /\ productTable'[p] = request[q].entity
                          /\ request'[q].step \in Stored]_vars

\* The time limits of the three uploads: every request is answered, whatever
\* the media service does.
RequestsAnswered ==
    \A q \in Requests :
        request[q] # None ~> request[q] # None /\ request[q].step \in Finished

\* "Duplicate product creation blocked via DB constraint"
\* (product-service.service.ts:222): no two products are created for one
\* seller under one name.
ProductNamesAreUnique ==
    \A p, r \in Requests :
        /\ productTable[p] # None
        /\ productTable[r] # None
        /\ productTable[p].seller = productTable[r].seller
        /\ productTable[p].name = productTable[r].name
        => p = r

-------------------------------------------------------------------------------
(***************************************************************************)
(* The inductive invariant behind the safety properties                    *)
(***************************************************************************)
Saving == { "upload", "reload", "update", "insert" }

\* What a handler may be doing, and that it works on a product that existed.
HandlerOK(q) ==
    LET h == request[q]
    IN /\ h.op \in { "createProduct", "createProductCategory" } => h.product = q
       /\ h.op \in { "updateProduct", "deleteProduct" } /\ h.step # "refused"
          => Known(h.product)
       /\ h.step \in Saving =>
              h.entity \in IF h.op = "createProductCategory" THEN Category ELSE Product
       /\ h.step \notin Saving => h.entity = None
       /\ h.step = "upload" => upload[q] # None
       /\ h.step \in { "reload", "update" } => h.op = "updateProduct"
       /\ h.step = "remove" <=> h.op = "deleteProduct" /\ InFlight(q)

HandlerInv == \A q \in Requests : request[q] # None => HandlerOK(q)

\* Rows come from requests that were carried out only.
TableInv ==
    /\ \A p \in Products : productTable[p] # None => Known(p)
    /\ \A c \in Requests :
           categoryTable[c] # None <=>
               /\ request[c] # None
               /\ request[c].op = "createProductCategory"
               /\ request[c].step \in Stored
    /\ \A q \in Requests :
           request[q] # None /\ request[q].op = "createProduct" /\ request[q].step \in Stored
           => productTable[q] # None \/ DeletionBegun(q)

\* The product an image was made for.
Owner(i) == IF i.by = Original THEN Original ELSE request[i.by].product

Made(i) == i.by # Original => request[i.by] # None

\* The images belong to p, and are stored unless p is being deleted.
AreImagesOf(set, p) ==
    \A i \in set : Made(i) /\ Owner(i) = p /\ (i \in assets \/ DeletionBegun(p))

\* Images are never shared between products, and only those of a product
\* whose deletion has begun are given up.
ImageInv ==
    /\ \A p \in Products : productTable[p] # None => AreImagesOf(productTable[p].images, p)
    /\ \A c \in Requests : categoryTable[c] # None => AreImagesOf(categoryTable[c].images, c)
    /\ \A q \in Requests :
           request[q] # None /\ request[q].entity # None
           => AreImagesOf(request[q].entity.images, request[q].product)
    /\ \A i \in mediaDelete : Made(i) /\ DeletionBegun(Owner(i))
    /\ \A q \in Requests :
           upload[q] # None =>
               /\ request[q] # None
               /\ \/ upload[q].failed
                  \/ AreImagesOf(ImagesOf(q, upload[q].files \ upload[q].todo),
                                 request[q].product)

IInv == TypeOK /\ HandlerInv /\ TableInv /\ CategoryNamesAreUnique /\ ImageInv

===============================================================================
