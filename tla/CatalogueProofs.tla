--------------------------- MODULE CatalogueProofs ---------------------------
(***************************************************************************)
(* Proofs about Catalogue, for any number of requests, sellers, names,     *)
(* files and faults.                                                       *)
(***************************************************************************)
EXTENDS Catalogue, TLAPS

USE MaxFaultsAssumption, OriginalAssumption, NoneAssumption

Steps == Running \cup Finished

Entities == Product \cup Category \cup {None}

\* What Holds does to the handlers.
LEMMA HoldsOne ==
    ASSUME TypeOK, NEW q \in Requests, NEW op \in Ops, NEW p \in Products,
           NEW step \in Steps, NEW entity \in Entities, NEW set \in SUBSET Columns,
           Holds(q, op, p, step, entity, set)
    PROVE  /\ request' \in [Requests -> Handler \cup {None}]
           /\ request'[q] # None
           /\ request'[q].op = op
           /\ request'[q].product = p
           /\ request'[q].step = step
           /\ request'[q].entity = entity
           /\ \A r \in Requests : r # q => request'[r] = request[r]
<1>1. [op |-> op, product |-> p, step |-> step, entity |-> entity, set |-> set] \in Handler
  BY DEF Handler, Steps, Entities
<1>2. request'[q] = [op |-> op, product |-> p, step |-> step,
                     entity |-> entity, set |-> set]
  BY DEF Holds, TypeOK
<1> QED
  BY <1>1, <1>2 DEF Holds, TypeOK

\* What SendFiles does.
LEMMA SendsFiles ==
    ASSUME TypeOK, NEW q \in Requests, NEW op \in Ops, NEW p \in Products,
           NEW entity \in Entities, NEW files \in SUBSET Files,
           SendFiles(q, op, p, entity, files)
    PROVE  /\ request' \in [Requests -> Handler \cup {None}]
           /\ request'[q] # None
           /\ request'[q].op = op
           /\ request'[q].product = p
           /\ request'[q].step = "upload"
           /\ request'[q].entity = entity
           /\ \A r \in Requests : r # q => request'[r] = request[r]
           /\ upload' \in [Requests -> Upload \cup {None}]
           /\ upload'[q] = [files |-> files, todo |-> files, failed |-> FALSE]
           /\ upload'[q] # None
           /\ upload'[q].todo = upload'[q].files
           /\ \A r \in Requests : r # q => upload'[r] = upload[r]
<1>1. PICK step \in Steps, set \in SUBSET Columns : step = "upload" /\ set = {}
  BY DEF Steps, Running
<1>2. [files |-> files, todo |-> files, failed |-> FALSE] \in Upload
  BY DEF Upload
<1>3. Holds(q, op, p, step, entity, set)
  BY <1>1 DEF SendFiles
<1>4. /\ upload' \in [Requests -> Upload \cup {None}]
      /\ upload'[q] = [files |-> files, todo |-> files, failed |-> FALSE]
      /\ upload'[q] # None
      /\ \A r \in Requests : r # q => upload'[r] = upload[r]
  BY <1>2 DEF SendFiles, TypeOK
<1>5. /\ request' \in [Requests -> Handler \cup {None}]
      /\ request'[q] # None
      /\ request'[q].op = op
      /\ request'[q].product = p
      /\ request'[q].step = step
      /\ request'[q].entity = entity
      /\ \A r \in Requests : r # q => request'[r] = request[r]
  BY <1>3, HoldsOne
<1>6. upload'[q].todo = upload'[q].files
  BY <1>4
<1> QED
  BY <1>1, <1>4, <1>5, <1>6

\* What Goto does to a handler in progress.
LEMMA GoesOn ==
    ASSUME TypeOK, NEW q \in Requests, request[q] # None,
           NEW step \in Steps, NEW entity \in Entities, NEW set \in SUBSET Columns,
           Goto(q, step, entity, set)
    PROVE  /\ request' \in [Requests -> Handler \cup {None}]
           /\ request'[q].op = request[q].op
           /\ request'[q].product = request[q].product
           /\ request'[q].step = step
           /\ request'[q].entity = entity
           /\ request'[q] # None
           /\ request[q].op \in Ops
           /\ request[q].product \in Products
           /\ \A r \in Requests : r # q => request'[r] = request[r]
<1>1. PICK op \in Ops, p \in Products : op = request[q].op /\ p = request[q].product
  BY DEF TypeOK, Handler
<1>2. Holds(q, op, p, step, entity, set)
  BY <1>1 DEF Goto
<1>3. /\ request' \in [Requests -> Handler \cup {None}]
      /\ request'[q] # None
      /\ request'[q].op = op
      /\ request'[q].product = p
      /\ request'[q].step = step
      /\ request'[q].entity = entity
      /\ \A r \in Requests : r # q => request'[r] = request[r]
  BY <1>2, HoldsOne
<1> QED
  BY <1>1, <1>3

\* The handler of q arrives, goes on or ends; the others do not notice.
Touches(q) ==
    /\ request' \in [Requests -> Handler \cup {None}]
    /\ request'[q] # None
    /\ \A r \in Requests : r # q => request'[r] = request[r]

Advances(q) ==
    /\ Touches(q)
    /\ InFlight(q)
    /\ request'[q].op = request[q].op
    /\ request'[q].product = request[q].product
    /\ request'[q].step # "refused"

Arrived(q) == request[q] = None /\ Touches(q)

\* A product its seller renames stays a product.
LEMMA RenamedProduct ==
    ASSUME TypeOK, NEW p \in Products, NEW s \in Sellers, NEW n \in Names, IsOwnedBy(p, s)
    PROVE  [productTable[p] EXCEPT !.name = n] \in Product
<1>1. productTable[p] \in Product
  BY DEF TypeOK, IsOwnedBy
<1> QED
  BY <1>1 DEF Product

LEMMA ArrivalsArrive ==
    ASSUME TypeOK, NEW q \in Requests, Arrives(q)
    PROVE  /\ Arrived(q)
           /\ request'[q].step \notin Stored
           /\ upload' \in [Requests -> Upload \cup {None}]
           /\ \A r \in Requests : r # q => upload'[r] = upload[r]
           /\ \/ upload'[q] = upload[q]
              \/ upload'[q] # None /\ upload'[q].todo = upload'[q].files
<1> DEFINE Good == /\ Arrived(q)
                   /\ request'[q].step \notin Stored
                   /\ upload' \in [Requests -> Upload \cup {None}]
                   /\ \A r \in Requests : r # q => upload'[r] = upload[r]
                   /\ \/ upload'[q] = upload[q]
                      \/ upload'[q] # None /\ upload'[q].todo = upload'[q].files
<1>0. /\ {"ok", "refused", "upload", "reload", "remove"} \subseteq Steps
      /\ None \in Entities
      /\ {} \in SUBSET Columns
      /\ q \in Products
      /\ { "createProduct", "updateProduct", "deleteProduct", "createProductCategory" } \subseteq Ops
      /\ upload \in [Requests -> Upload \cup {None}]
  BY DEF Ops, Steps, Running, Finished, Entities, Products, TypeOK
<1>a. ASSUME NEW op \in Ops, NEW p \in Products, NEW entity \in Entities,
             NEW files \in SUBSET Files,
             request[q] = None, SendFiles(q, op, p, entity, files)
      PROVE  Good
  <2>1. Touches(q) /\ request'[q].step = "upload"
    BY <1>a, SendsFiles DEF Touches
  <2>2. /\ upload' \in [Requests -> Upload \cup {None}]
        /\ \A r \in Requests : r # q => upload'[r] = upload[r]
        /\ upload'[q] # None /\ upload'[q].todo = upload'[q].files
    BY <1>a, SendsFiles
  <2> QED
    BY <1>a, <2>1, <2>2 DEF Arrived, Stored
<1> HIDE DEF Good
<1> USE DEF Touches, Arrived, Stored
<1>1. ASSUME NEW s \in Sellers, NEW n \in Names, NEW files \in SUBSET Files,
             CreateProduct(q, s, n, files)
      PROVE Good
  <2>1. [seller |-> s, name |-> n, images |-> {}] \in Entities
    BY DEF Entities, Product
  <2>2. CASE Answer(q, "createProduct", q, "refused") /\ UNCHANGED upload
    BY <1>0, <1>1, <2>2, HoldsOne DEF Good, Answer, CreateProduct
  <2>3. CASE NewProduct(q, s, n, files)
    <3>1. PICK entity \in Entities : entity = [seller |-> s, name |-> n, images |-> {}]
      BY <2>1
    <3>2. SendFiles(q, "createProduct", q, entity, files) /\ request[q] = None
      BY <1>1, <2>3, <3>1 DEF NewProduct, CreateProduct
    <3> QED
      BY <1>0, <3>2, <1>a
  <2> QED
    BY <1>1, <2>2, <2>3 DEF CreateProduct
<1>2. ASSUME NEW s \in Sellers, NEW p \in Products, NEW n \in Names,
             NEW files \in SUBSET Files, UpdateProduct(q, s, p, n, files)
      PROVE Good
  <2>1. CASE ~IsOwnedBy(p, s)
    BY <1>0, <1>2, <2>1, HoldsOne DEF Good, Answer, UpdateProduct
  <2>2. CASE IsOwnedBy(p, s)
    <3>1. PICK entity \in Entities : entity = [productTable[p] EXCEPT !.name = n]
      BY <2>2, RenamedProduct DEF Entities
    <3>2. CASE Holds(q, "updateProduct", p, "reload", entity, {}) /\ UNCHANGED upload
      BY <1>0, <1>2, <3>1, <3>2, HoldsOne DEF Good, UpdateProduct
    <3>3. CASE SendFiles(q, "updateProduct", p, entity, files)
      <4>1. request[q] = None
        BY <1>2 DEF UpdateProduct
      <4> QED
        BY <1>0, <3>3, <4>1, <1>a
    <3> QED
      BY <1>2, <2>2, <3>1, <3>2, <3>3 DEF UpdateProduct
  <2> QED
    BY <2>1, <2>2
<1>3. ASSUME NEW s \in Sellers, NEW p \in Products, DeleteProduct(q, s, p)
      PROVE Good
  <2>1. PICK step \in {"refused", "remove"} : Answer(q, "deleteProduct", p, step)
    BY <1>3 DEF DeleteProduct
  <2> QED
    BY <1>0, <1>3, <2>1, HoldsOne DEF Good, Answer, DeleteProduct
<1>4. ASSUME NEW n \in Names, NEW f \in Files, CreateProductCategory(q, n, f)
      PROVE Good
  <2>1. [name |-> n, images |-> {}] \in Entities
    BY DEF Entities, Category
  <2>2. CASE Answer(q, "createProductCategory", q, "refused") /\ UNCHANGED upload
    BY <1>0, <1>4, <2>2, HoldsOne DEF Good, Answer, CreateProductCategory
  <2>3. CASE SendFiles(q, "createProductCategory", q, [name |-> n, images |-> {}], {f})
    <3>1. PICK entity \in Entities, files \in SUBSET Files :
              entity = [name |-> n, images |-> {}] /\ files = {f}
      BY <2>1
    <3>2. SendFiles(q, "createProductCategory", q, entity, files) /\ request[q] = None
      BY <1>4, <2>3, <3>1 DEF CreateProductCategory
    <3> QED
      BY <1>0, <3>2, <1>a
  <2> QED
    BY <1>4, <2>2, <2>3 DEF CreateProductCategory
<1> QED
  BY <1>1, <1>2, <1>3, <1>4 DEF Arrives, Good

\* A step of a handler that has arrived.
LEMMA GotoAdvances ==
    ASSUME TypeOK, NEW q \in Requests, InFlight(q),
           NEW step \in Steps \ {"refused"}, NEW entity \in Entities,
           NEW set \in SUBSET Columns, Goto(q, step, entity, set)
    PROVE  /\ Advances(q)
           /\ request'[q].op = request[q].op
           /\ request'[q].product = request[q].product
           /\ request'[q].step = step
           /\ request'[q].entity = entity
BY GoesOn DEF Advances, Touches, InFlight

LEMMA FinishAdvances ==
    ASSUME TypeOK, NEW q \in Requests, InFlight(q),
           NEW step \in { "ok", "failed", "lost" }, Finish(q, step)
    PROVE  /\ Advances(q)
           /\ request'[q].step = step
           /\ request'[q].entity = None
<1>1. PICK entity \in Entities, set \in SUBSET Columns : entity = None /\ set = {}
  BY DEF Entities
<1>2. Goto(q, step, entity, set)
  BY <1>1 DEF Finish
<1>3. step \in Steps \ {"refused"}
  BY DEF Steps, Finished
<1>4. /\ Advances(q)
      /\ request'[q].step = step
      /\ request'[q].entity = entity
  BY <1>2, <1>3, GotoAdvances
<1> QED
  BY <1>1, <1>4

LEMMA RepliesAdvance ==
    ASSUME TypeOK, NEW q \in Requests, InFlight(q), Replies(q)
    PROVE  /\ Advances(q)
           /\ request'[q].step \in Stored
           /\ request'[q].entity = None
<1>1. PICK step \in Stored : Finish(q, step)
  BY DEF Replies, Stored
<1>2. step \in { "ok", "failed", "lost" }
  BY DEF Stored
<1> QED
  BY <1>1, <1>2, FinishAdvances

LEMMA RepliesCount == ASSUME TypeOK, NEW q \in Requests, Replies(q) PROVE faults' \in 0..MaxFaults
BY DEF Replies, TypeOK

\* The reply of the media service arrives in time.
LEMMA UploadAssigns ==
    ASSUME TypeOK, HandlerInv, NEW q \in Requests, UploadSucceeds(q)
    PROVE  /\ Advances(q)
           /\ request'[q].entity \in IF request[q].op = "createProductCategory"
                                     THEN Category ELSE Product
           /\ request'[q].entity.images = ImagesOf(q, upload[q].files)
           /\ request'[q].step = IF request[q].op = "updateProduct" THEN "reload" ELSE "insert"
<1>1. /\ request[q] # None
      /\ request[q].step = "upload"
      /\ InFlight(q)
      /\ upload[q] \in Upload
  BY DEF UploadSucceeds, At, InFlight, Running, HandlerInv, HandlerOK, TypeOK
<1>2. request[q].entity \in IF request[q].op = "createProductCategory" THEN Category ELSE Product
  BY <1>1 DEF HandlerInv, HandlerOK, Saving
<1>3. ImagesOf(q, upload[q].files) \in SUBSET Image
  BY <1>1 DEF ImagesOf, Image, Upload, Products
<1>4. [request[q].entity EXCEPT !.images = ImagesOf(q, upload[q].files)]
          \in IF request[q].op = "createProductCategory" THEN Category ELSE Product
  BY <1>2, <1>3 DEF Category, Product
<1>5. [request[q].entity EXCEPT !.images = ImagesOf(q, upload[q].files)].images
          = ImagesOf(q, upload[q].files)
  BY <1>2 DEF Category, Product
<1>6. PICK step \in Steps \ {"refused"}, entity \in Entities, set \in SUBSET Columns :
          /\ step = IF request[q].op = "updateProduct" THEN "reload" ELSE "insert"
          /\ entity = [request[q].entity EXCEPT !.images = ImagesOf(q, upload[q].files)]
          /\ set = {}
  <2>1. [request[q].entity EXCEPT !.images = ImagesOf(q, upload[q].files)] \in Entities
    BY <1>4 DEF Entities
  <2>2. (IF request[q].op = "updateProduct" THEN "reload" ELSE "insert") \in Steps \ {"refused"}
    BY DEF Steps, Running
  <2>3. {} \in SUBSET Columns
    OBVIOUS
  <2> QED
    BY <2>1, <2>2, <2>3
<1>7. Goto(q, step, entity, set)
  BY <1>6 DEF UploadSucceeds
<1>8. /\ Advances(q)
      /\ request'[q].step = step
      /\ request'[q].entity = entity
  BY <1>1, <1>7, GotoAdvances
<1> QED
  BY <1>4, <1>5, <1>6, <1>8

\* The second SELECT of a save keeps the entity.
LEMMA ReloadKeepsEntity ==
    ASSUME TypeOK, HandlerInv, NEW q \in Requests, Reload(q)
    PROVE  /\ Advances(q)
           /\ request'[q].entity = request[q].entity
           /\ request'[q].step \in { "update", "insert" }
<1>1. /\ request[q] # None
      /\ request[q].step = "reload"
      /\ InFlight(q)
      /\ request[q].op = "updateProduct"
      /\ request[q].entity \in Product
  BY DEF Reload, At, InFlight, Running, HandlerInv, HandlerOK, Saving
<1>2. PICK step \in { "update", "insert" }, entity \in Entities, set \in SUBSET Columns :
          entity = request[q].entity /\ Goto(q, step, entity, set)
  BY <1>1 DEF Reload, Columns, Entities
<1>3. step \in Steps \ {"refused"}
  BY DEF Steps, Running
<1>4. /\ Advances(q)
      /\ request'[q].step = step
      /\ request'[q].entity = entity
  BY <1>1, <1>2, <1>3, GotoAdvances
<1> QED
  BY <1>2, <1>4

\* The steps that end a request, with or without a statement.
LEMMA EndsAdvance ==
    ASSUME TypeOK, NEW q \in Requests,
           \/ UploadFails(q)
           \/ UploadTimesOut(q)
           \/ UpdateRow(q)
           \/ InsertProduct(q)
           \/ InsertCategory(q)
           \/ RemoveProduct(q)
           \/ StatementFails(q)
    PROVE  /\ Advances(q)
           /\ request'[q].step \in { "ok", "failed", "lost" }
           /\ request'[q].entity = None
<1>1. InFlight(q)
  BY DEF UploadFails, UploadTimesOut, UpdateRow, InsertProduct, InsertCategory,
         RemoveProduct, StatementFails, At, InFlight, Running
<1>2. PICK step \in { "ok", "failed", "lost" } : Finish(q, step)
  BY DEF UploadFails, UploadTimesOut, UpdateRow, InsertProduct, InsertCategory,
         RemoveProduct, StatementFails, Replies
<1>3. /\ Advances(q)
      /\ request'[q].step = step
      /\ request'[q].entity = None
  BY <1>1, <1>2, FinishAdvances
<1> QED
  BY <1>3

LEMMA HandlersAdvance ==
    ASSUME TypeOK, HandlerInv, NEW q \in Requests, HandlerStep(q) \/ StatementFails(q)
    PROVE  Advances(q)
BY UploadAssigns, ReloadKeepsEntity, EndsAdvance DEF HandlerStep

\* What every step leaves of the requests that have arrived.
Persist ==
    \A r \in Requests :
        request[r] # None =>
            /\ request'[r] # None
            /\ request'[r].op = request[r].op
            /\ request'[r].product = request[r].product
            /\ request[r].step # "refused" => request'[r].step # "refused"
            /\ ~InFlight(r) => request'[r] = request[r]

LEMMA RequestsPersist ==
    ASSUME TypeOK, HandlerInv, [Next]_vars
    PROVE  Persist
<1>1. ASSUME NEW q \in Requests, Arrives(q) PROVE Persist
  BY <1>1, ArrivalsArrive DEF Arrived, Touches, Persist
<1>2. ASSUME NEW q \in Requests, HandlerStep(q) \/ StatementFails(q) PROVE Persist
  BY <1>2, HandlersAdvance DEF Advances, Touches, Persist
<1>3. CASE MediaStep
  BY <1>3 DEF MediaStep, StoreFile, FileFails, DeleteMedia, Persist
<1>4. CASE Crash
  <2> SUFFICES ASSUME NEW r \in Requests, request[r] # None
               PROVE /\ request'[r] # None
                     /\ request'[r].op = request[r].op
                     /\ request'[r].product = request[r].product
                     /\ request[r].step # "refused" => request'[r].step # "refused"
                     /\ ~InFlight(r) => request'[r] = request[r]
    BY DEF Persist
  <2>1. request[r] \in Handler
    BY DEF TypeOK
  <2>2. CASE InFlight(r)
    <3>1. request'[r] = [request[r] EXCEPT !.step = "failed", !.entity = None, !.set = {}]
      BY <1>4, <2>2 DEF Crash
    <3>2. request'[r] \in Handler
      BY <2>1, <3>1 DEF Handler, Finished
    <3> QED
      BY <2>1, <2>2, <3>1, <3>2 DEF Handler
  <2>3. CASE ~InFlight(r)
    BY <1>4, <2>3 DEF Crash
  <2> QED
    BY <2>2, <2>3
<1>5. CASE UNCHANGED vars
  BY <1>5 DEF vars, Persist
<1> QED
  BY <1>1, <1>2, <1>3, <1>4, <1>5 DEF Next

-------------------------------------------------------------------------------
(***************************************************************************)
(* Types, and what handlers may be doing                                   *)
(***************************************************************************)

LEMMA TypesAreKept ==
    ASSUME TypeOK, HandlerInv, [Next]_vars
    PROVE  TypeOK'
<1>1. ASSUME NEW q \in Requests, Arrives(q) PROVE TypeOK'
  <2>1. /\ request' \in [Requests -> Handler \cup {None}]
        /\ upload' \in [Requests -> Upload \cup {None}]
    BY <1>1, ArrivalsArrive DEF Arrived, Touches
  <2>2. UNCHANGED << productTable, categoryTable, assets, faults >>
    BY <1>1 DEF Arrives, CreateProduct, UpdateProduct, DeleteProduct,
                CreateProductCategory, tables, images
  <2>3. mediaDelete' \subseteq Image
    <3>1. ASSUME NEW s \in Sellers, NEW p \in Products, DeleteProduct(q, s, p)
          PROVE mediaDelete' \subseteq Image
      BY <3>1 DEF DeleteProduct, IsOwnedBy, TypeOK, Product
    <3>2. ASSUME ~ \E s \in Sellers, p \in Products : DeleteProduct(q, s, p)
          PROVE UNCHANGED mediaDelete
      BY <1>1, <3>2 DEF Arrives, CreateProduct, UpdateProduct, CreateProductCategory, images
    <3> QED
      BY <3>1, <3>2 DEF TypeOK
  <2> QED
    BY <2>1, <2>2, <2>3 DEF TypeOK
<1>2. ASSUME NEW q \in Requests, HandlerStep(q) \/ StatementFails(q) PROVE TypeOK'
  <2>1. request' \in [Requests -> Handler \cup {None}]
    BY <1>2, HandlersAdvance DEF Advances, Touches
  <2>2. UNCHANGED << upload, assets, mediaDelete >>
    BY <1>2 DEF HandlerStep, UploadSucceeds, UploadFails, UploadTimesOut, Reload,
                UpdateRow, InsertProduct, InsertCategory, RemoveProduct,
                StatementFails, images
  <2>3. faults' \in 0..MaxFaults
    <3>1. \/ UNCHANGED faults
          \/ Replies(q)
          \/ faults < MaxFaults /\ faults' = faults + 1
      BY <1>2 DEF HandlerStep, UploadSucceeds, UploadFails, UploadTimesOut, Reload,
                  UpdateRow, InsertProduct, InsertCategory, RemoveProduct, StatementFails
    <3> QED
      BY <3>1, RepliesCount DEF TypeOK
  <2>4. productTable' \in [Products -> Product \cup {None}]
    <3>1. CASE UpdateRow(q)
      <4>1. request[q].entity \in Product /\ request[q].product \in Products
        BY <3>1 DEF UpdateRow, At, HandlerInv, HandlerOK, Saving, TypeOK, Handler
      <4> QED
        BY <3>1, <4>1 DEF UpdateRow, TypeOK, Product
    <3>2. CASE InsertProduct(q)
      <4>1. request[q].entity \in Product
        BY <3>2 DEF InsertProduct, At, HandlerInv, HandlerOK, Saving
      <4> QED
        BY <3>2, <4>1 DEF InsertProduct, TypeOK
    <3>3. CASE RemoveProduct(q)
      BY <3>3 DEF RemoveProduct, TypeOK
    <3>4. ASSUME ~UpdateRow(q), ~InsertProduct(q), ~RemoveProduct(q)
          PROVE UNCHANGED productTable
      BY <1>2, <3>4 DEF HandlerStep, UploadSucceeds, UploadFails, UploadTimesOut,
                        Reload, InsertCategory, StatementFails, tables
    <3> QED
      BY <3>1, <3>2, <3>3, <3>4 DEF TypeOK
  <2>5. categoryTable' \in [Requests -> Category \cup {None}]
    <3>1. CASE InsertCategory(q)
      <4>1. request[q].entity \in Category
        BY <3>1 DEF InsertCategory, At, HandlerInv, HandlerOK, Saving
      <4> QED
        BY <3>1, <4>1 DEF InsertCategory, TypeOK
    <3>2. ASSUME ~InsertCategory(q) PROVE UNCHANGED categoryTable
      BY <1>2, <3>2 DEF HandlerStep, UploadSucceeds, UploadFails, UploadTimesOut,
                        Reload, UpdateRow, InsertProduct, RemoveProduct,
                        StatementFails, tables
    <3> QED
      BY <3>1, <3>2 DEF TypeOK
  <2> QED
    BY <2>1, <2>2, <2>3, <2>4, <2>5 DEF TypeOK
<1>3. CASE MediaStep
  <2>1. ASSUME NEW q \in Requests, NEW f \in Files, StoreFile(q, f) PROVE TypeOK'
    <3>1. ImagesOf(q, {f}) \subseteq Image
      BY DEF ImagesOf, Image, Products
    <3> QED
      BY <2>1, <3>1 DEF StoreFile, TypeOK, Upload, tables
  <2>2. ASSUME NEW q \in Requests, NEW f \in Files, FileFails(q, f) PROVE TypeOK'
    BY <2>2 DEF FileFails, TypeOK, Upload, tables, images
  <2>3. CASE DeleteMedia
    BY <2>3 DEF DeleteMedia, TypeOK, tables
  <2> QED
    BY <1>3, <2>1, <2>2, <2>3 DEF MediaStep
<1>4. CASE Crash
  <2>1. ASSUME NEW q \in Requests, InFlight(q)
        PROVE [request[q] EXCEPT !.step = "failed", !.entity = None, !.set = {}] \in Handler
    <3>1. request[q] \in Handler
      BY <2>1 DEF InFlight, TypeOK
    <3> QED
      BY <3>1 DEF Handler, Finished
  <2>2. request' \in [Requests -> Handler \cup {None}]
    BY <1>4, <2>1 DEF Crash, TypeOK
  <2>3. faults' \in 0..MaxFaults
    <3>1. faults < MaxFaults /\ faults' = faults + 1 /\ faults \in 0..MaxFaults
      BY <1>4 DEF Crash, TypeOK
    <3> QED
      BY <3>1
  <2>4. UNCHANGED << productTable, categoryTable, upload, assets, mediaDelete >>
    BY <1>4 DEF Crash, tables, images
  <2> QED
    BY <2>2, <2>3, <2>4 DEF TypeOK
<1>5. CASE UNCHANGED vars
  BY <1>5 DEF vars, TypeOK
<1> QED
  BY <1>1, <1>2, <1>3, <1>4, <1>5 DEF Next

\* Ids stay known, and begun deletions stay begun.
LEMMA KnownStays ==
    ASSUME Persist, NEW p \in Products, Known(p)
    PROVE  Known(p)'
BY DEF Persist, Known, Products, InFlight, Running, Stored

LEMMA DeletionStays ==
    ASSUME Persist, NEW p, DeletionBegun(p)
    PROVE  DeletionBegun(p)'
<1>1. PICK q \in Requests : /\ request[q] # None
                            /\ request[q].op = "deleteProduct"
                            /\ request[q].product = p
                            /\ request[q].step # "refused"
  BY DEF DeletionBegun
<1> QED
  BY <1>1 DEF Persist, DeletionBegun

LEMMA UploadsPersist ==
    ASSUME TypeOK, HandlerInv, [Next]_vars, NEW q \in Requests, upload[q] # None
    PROVE  upload'[q] # None
<1>1. ASSUME NEW r \in Requests, Arrives(r) PROVE upload'[q] # None
  BY <1>1, ArrivalsArrive
<1>2. ASSUME NEW r \in Requests, NEW f \in Files, StoreFile(r, f) \/ FileFails(r, f)
      PROVE upload'[q] # None
  BY <1>2 DEF StoreFile, FileFails, TypeOK, Upload
<1>3. CASE DeleteMedia \/ Crash \/ UNCHANGED vars
  BY <1>3 DEF DeleteMedia, Crash, vars
<1>4. ASSUME NEW r \in Requests, HandlerStep(r) \/ StatementFails(r)
      PROVE UNCHANGED upload
  BY <1>4 DEF HandlerStep, UploadSucceeds, UploadFails, UploadTimesOut, Reload,
              UpdateRow, InsertProduct, InsertCategory, RemoveProduct, StatementFails
<1> QED
  BY <1>1, <1>2, <1>3, <1>4 DEF Next, MediaStep

\* A handler that does not move stays in order.
LEMMA HandlerStays ==
    ASSUME TypeOK, HandlerInv, [Next]_vars, NEW r \in Requests,
           request[r] # None, request'[r] = request[r]
    PROVE  HandlerOK(r)'
<1>1. HandlerOK(r)
  BY DEF HandlerInv
<1>2. Persist
  BY RequestsPersist
<1>3. PICK p \in Products : p = request[r].product
  BY DEF TypeOK, Handler
<1>4. Known(p) => Known(p)'
  BY <1>2, KnownStays
<1>5. upload[r] # None => upload'[r] # None
  BY UploadsPersist
<1> QED
  BY <1>1, <1>3, <1>4, <1>5 DEF HandlerOK, InFlight

LEMMA ArrivalIsOK ==
    ASSUME TypeOK, HandlerInv, TableInv, NEW q \in Requests, Arrives(q)
    PROVE  HandlerOK(q)'
<1>1. Arrived(q) /\ q \in Products
  BY ArrivalsArrive DEF Products
<1>2. Persist
  BY RequestsPersist DEF Next
<1> USE DEF HandlerOK, InFlight, Running, Saving
<1>3. ASSUME NEW s \in Sellers, NEW n \in Names, NEW files \in SUBSET Files,
             CreateProduct(q, s, n, files)
      PROVE HandlerOK(q)'
  <2>1. CASE Answer(q, "createProduct", q, "refused")
    BY <2>1 DEF Answer, Holds, TypeOK
  <2>2. CASE NewProduct(q, s, n, files)
    <3>1. [seller |-> s, name |-> n, images |-> {}] \in Product
      BY DEF Product
    <3>2. PICK entity \in Product : SendFiles(q, "createProduct", q, entity, files)
      BY <2>2, <3>1 DEF NewProduct
    <3>3. request'[q] = [op |-> "createProduct", product |-> q, step |-> "upload",
                         entity |-> entity, set |-> {}]
      BY <3>2 DEF SendFiles, Holds, TypeOK
    <3>4. upload'[q] # None
      <4>1. upload'[q] = [files |-> files, todo |-> files, failed |-> FALSE]
        BY <3>2 DEF SendFiles, TypeOK
      <4>2. [files |-> files, todo |-> files, failed |-> FALSE] \in Upload
        BY DEF Upload
      <4> QED
        BY <4>1, <4>2
    <3> QED
      BY <3>3, <3>4
  <2> QED
    BY <1>3, <2>1, <2>2 DEF CreateProduct
<1>4. ASSUME NEW s \in Sellers, NEW p \in Products, NEW n \in Names,
             NEW files \in SUBSET Files, UpdateProduct(q, s, p, n, files)
      PROVE HandlerOK(q)'
  <2>1. CASE ~IsOwnedBy(p, s)
    BY <1>4, <2>1 DEF UpdateProduct, Answer, Holds, TypeOK
  <2>2. CASE IsOwnedBy(p, s)
    <3>1. Known(p)'
      BY <1>2, <2>2, KnownStays DEF IsOwnedBy, TableInv
    <3>2. PICK entity \in Product : entity = [productTable[p] EXCEPT !.name = n]
      BY <2>2, RenamedProduct
    <3>3. CASE Holds(q, "updateProduct", p, "reload", entity, {})
      <4>1. request'[q] = [op |-> "updateProduct", product |-> p, step |-> "reload",
                           entity |-> entity, set |-> {}]
        BY <3>3 DEF Holds, TypeOK
      <4> QED
        BY <3>1, <4>1
    <3>4. CASE SendFiles(q, "updateProduct", p, entity, files)
      <4>1. request'[q] = [op |-> "updateProduct", product |-> p, step |-> "upload",
                           entity |-> entity, set |-> {}]
        BY <3>4 DEF SendFiles, Holds, TypeOK
      <4>2. upload'[q] # None
        <5>1. upload'[q] = [files |-> files, todo |-> files, failed |-> FALSE]
          BY <3>4 DEF SendFiles, TypeOK
        <5>2. [files |-> files, todo |-> files, failed |-> FALSE] \in Upload
          BY DEF Upload
        <5> QED
          BY <5>1, <5>2
      <4> QED
        BY <3>1, <4>1, <4>2
    <3> QED
      BY <1>4, <2>2, <3>2, <3>3, <3>4 DEF UpdateProduct
  <2> QED
    BY <2>1, <2>2
<1>5. ASSUME NEW s \in Sellers, NEW p \in Products, DeleteProduct(q, s, p)
      PROVE HandlerOK(q)'
  <2>1. CASE ~IsOwnedBy(p, s)
    BY <1>5, <2>1 DEF DeleteProduct, Answer, Holds, TypeOK
  <2>2. CASE IsOwnedBy(p, s)
    <3>1. Known(p)'
      BY <1>2, <2>2, KnownStays DEF IsOwnedBy, TableInv
    <3>2. request'[q] = [op |-> "deleteProduct", product |-> p, step |-> "remove",
                         entity |-> None, set |-> {}]
      BY <1>5, <2>2 DEF DeleteProduct, Answer, Holds, TypeOK
    <3>3. InFlight(q)'
      BY <1>1, <3>2 DEF Arrived, Touches
    <3> QED
      BY <3>1, <3>2, <3>3
  <2> QED
    BY <2>1, <2>2
<1>6. ASSUME NEW n \in Names, NEW f \in Files, CreateProductCategory(q, n, f)
      PROVE HandlerOK(q)'
  <2>1. CASE Answer(q, "createProductCategory", q, "refused")
    BY <2>1 DEF Answer, Holds, TypeOK
  <2>2. CASE SendFiles(q, "createProductCategory", q, [name |-> n, images |-> {}], {f})
    <3>1. [name |-> n, images |-> {}] \in Category
      BY DEF Category
    <3>2. PICK entity \in Category :
              SendFiles(q, "createProductCategory", q, entity, {f})
      BY <2>2, <3>1
    <3>3. request'[q] = [op |-> "createProductCategory", product |-> q, step |-> "upload",
                         entity |-> entity, set |-> {}]
      BY <3>2 DEF SendFiles, Holds, TypeOK
    <3>4. upload'[q] # None
      <4>1. upload'[q] = [files |-> {f}, todo |-> {f}, failed |-> FALSE]
        BY <3>2 DEF SendFiles, TypeOK
      <4>2. [files |-> {f}, todo |-> {f}, failed |-> FALSE] \in Upload
        BY DEF Upload
      <4> QED
        BY <4>1, <4>2
    <3> QED
      BY <3>3, <3>4
  <2> QED
    BY <1>6, <2>1, <2>2 DEF CreateProductCategory
<1> HIDE DEF HandlerOK
<1> QED
  BY <1>3, <1>4, <1>5, <1>6 DEF Arrives

LEMMA HandlersAreKept ==
    ASSUME TypeOK, HandlerInv, TableInv, [Next]_vars
    PROVE  HandlerInv'
<1>1. Persist
  BY RequestsPersist
<1>2. ASSUME NEW q \in Requests, HandlerStep(q) \/ StatementFails(q) PROVE HandlerOK(q)'
  <2>1. Advances(q) /\ HandlerOK(q)
    BY <1>2, HandlersAdvance DEF HandlerInv, Advances, InFlight
  <2>2. PICK p \in Products : p = request[q].product
    BY <2>1 DEF TypeOK, Handler, Advances, InFlight
  <2>3. Known(p) => Known(p)'
    BY <1>1, KnownStays
  <2>4. request[q].step # "refused"
    BY <2>1 DEF Advances, InFlight, Running
  <2>5. CASE UploadSucceeds(q)
    <3>1. /\ request'[q].entity \in IF request[q].op = "createProductCategory"
                                    THEN Category ELSE Product
          /\ request'[q].step = IF request[q].op = "updateProduct" THEN "reload" ELSE "insert"
      BY <2>5, UploadAssigns
    <3>2. request[q].op # "deleteProduct"
      BY <2>1, <2>5 DEF UploadSucceeds, At, HandlerOK, Advances
    <3>3. CASE request[q].op = "updateProduct"
      BY <2>1, <2>2, <2>3, <2>4, <3>1, <3>3 DEF HandlerOK, Advances, Saving
    <3>4. CASE request[q].op # "updateProduct"
      <4>1. request'[q].op = request[q].op /\ request'[q].product = request[q].product
        BY <2>1 DEF Advances
      <4>2. request'[q].step = "insert"
        BY <3>1, <3>4
      <4>3. request[q].op = "createProduct" \/ request[q].op = "createProductCategory"
        BY <3>2, <3>4, <2>1 DEF Advances, InFlight, TypeOK, Handler, Ops
      <4>4. request[q].product = q
        BY <2>1, <4>3 DEF HandlerOK
      <4> QED
        BY <3>1, <4>1, <4>2, <4>3, <4>4 DEF HandlerOK, Saving
    <3> QED
      BY <3>3, <3>4
  <2>6. CASE Reload(q)
    BY <2>1, <2>2, <2>3, <2>4, <2>6, ReloadKeepsEntity
       DEF HandlerOK, Advances, Saving, Reload, At
  <2>7. CASE ~UploadSucceeds(q) /\ ~Reload(q)
    <3>1. request'[q].step \in { "ok", "failed", "lost" } /\ request'[q].entity = None
      BY <1>2, <2>7, EndsAdvance DEF HandlerStep
    <3> QED
      BY <2>1, <2>2, <2>3, <2>4, <3>1 DEF HandlerOK, Advances, Saving, InFlight, Running
  <2> QED
    BY <2>5, <2>6, <2>7
<1>3. ASSUME Crash, NEW r \in Requests, InFlight(r) PROVE HandlerOK(r)'
  <2>1. HandlerOK(r) /\ request[r] \in Handler
    BY <1>3 DEF HandlerInv, InFlight, TypeOK
  <2>2. request'[r] = [request[r] EXCEPT !.step = "failed", !.entity = None, !.set = {}]
    BY <1>3 DEF Crash
  <2>3. /\ request'[r].op = request[r].op
        /\ request'[r].product = request[r].product
        /\ request'[r].step = "failed"
        /\ request'[r].entity = None
    BY <2>1, <2>2 DEF Handler
  <2>4. PICK p \in Products : p = request[r].product
    BY <2>1 DEF Handler
  <2>5. Known(p) => Known(p)'
    BY <1>1, KnownStays
  <2> QED
    BY <1>3, <2>1, <2>3, <2>4, <2>5 DEF HandlerOK, Saving, InFlight, Running
<1> SUFFICES ASSUME NEW r \in Requests, request'[r] # None
             PROVE  HandlerOK(r)'
  BY DEF HandlerInv
<1>4. CASE request[r] # None /\ request'[r] = request[r]
  BY <1>4, HandlerStays
<1>5. ASSUME NEW q \in Requests, Arrives(q) PROVE HandlerOK(r)'
  <2>1. CASE r = q
    BY <1>5, <2>1, ArrivalIsOK
  <2>2. CASE r # q
    BY <1>4, <1>5, <2>2, ArrivalsArrive DEF Arrived, Touches
  <2> QED
    BY <2>1, <2>2
<1>6. ASSUME NEW q \in Requests, HandlerStep(q) \/ StatementFails(q) PROVE HandlerOK(r)'
  <2>1. CASE r = q
    BY <1>2, <1>6, <2>1
  <2>2. CASE r # q
    BY <1>4, <1>6, <2>2, HandlersAdvance DEF Advances, Touches
  <2> QED
    BY <2>1, <2>2
<1>7. CASE MediaStep
  BY <1>4, <1>7 DEF MediaStep, StoreFile, FileFails, DeleteMedia
<1>8. CASE Crash
  <2>1. CASE InFlight(r)
    BY <1>3, <1>8, <2>1
  <2>2. CASE ~InFlight(r)
    BY <1>4, <1>8, <2>2 DEF Crash
  <2> QED
    BY <2>1, <2>2
<1>9. CASE UNCHANGED vars
  BY <1>4, <1>9 DEF vars
<1> QED
  BY <1>5, <1>6, <1>7, <1>8, <1>9 DEF Next

-------------------------------------------------------------------------------
(***************************************************************************)
(* Rows and answers                                                        *)
(***************************************************************************)

\* createProduct and createProductCategory are confirmed by their INSERT only.
LEMMA CreationIsEarned ==
    ASSUME TypeOK, HandlerInv, [Next]_vars, NEW q \in Requests,
           request'[q] # None, request'[q].step \in Stored,
           ~(request[q] # None /\ request[q].step \in Stored)
    PROVE  \/ request'[q].op = "createProduct" /\ InsertProduct(q)
           \/ request'[q].op = "createProductCategory" /\ InsertCategory(q)
           \/ request'[q].op \in { "updateProduct", "deleteProduct" }
<1>1. ASSUME NEW r \in Requests, Arrives(r) PROVE FALSE
  BY <1>1, ArrivalsArrive DEF Arrived, Touches
<1>2. ASSUME NEW r \in Requests, HandlerStep(r) \/ StatementFails(r)
      PROVE \/ request'[q].op = "createProduct" /\ InsertProduct(q)
            \/ request'[q].op = "createProductCategory" /\ InsertCategory(q)
            \/ request'[q].op \in { "updateProduct", "deleteProduct" }
  <2>1. Advances(r)
    BY <1>2, HandlersAdvance
  <2>2. r = q
    BY <2>1 DEF Advances, Touches
  <2>3. /\ request[q] # None
        /\ HandlerOK(q)
        /\ request'[q].op = request[q].op
        /\ request[q].op \in Ops
    BY <2>1, <2>2 DEF Advances, InFlight, HandlerInv, TypeOK, Handler
  <2>4. \/ UpdateRow(q)
        \/ InsertProduct(q)
        \/ InsertCategory(q)
        \/ RemoveProduct(q)
    <3>1. ~UploadSucceeds(q)
      BY UploadAssigns DEF Stored
    <3>2. ~Reload(q)
      BY ReloadKeepsEntity DEF Stored
    <3>3. ASSUME Finish(q, "failed") PROVE FALSE
      BY <3>3, <2>1, <2>2, FinishAdvances DEF Advances, Stored
    <3> QED
      BY <1>2, <2>2, <3>1, <3>2, <3>3 DEF HandlerStep, UploadFails, UploadTimesOut, StatementFails
  <2>5. CASE UpdateRow(q)
    BY <2>3, <2>5 DEF UpdateRow, At, HandlerOK
  <2>6. CASE RemoveProduct(q)
    BY <2>3, <2>6 DEF RemoveProduct, At, HandlerOK
  <2>7. CASE InsertProduct(q)
    BY <2>3, <2>7 DEF InsertProduct, Ops
  <2>8. CASE InsertCategory(q)
    BY <2>3, <2>8 DEF InsertCategory
  <2> QED
    BY <2>4, <2>5, <2>6, <2>7, <2>8
<1>3. CASE MediaStep \/ UNCHANGED vars
  BY <1>3 DEF MediaStep, StoreFile, FileFails, DeleteMedia, vars
<1>4. CASE Crash
  <2>1. CASE InFlight(q)
    <3>1. request'[q] = [request[q] EXCEPT !.step = "failed", !.entity = None, !.set = {}]
      BY <1>4, <2>1 DEF Crash
    <3>2. request[q] \in Handler
      BY <2>1 DEF InFlight, TypeOK
    <3> QED
      BY <3>1, <3>2 DEF Handler, Stored
  <2>2. CASE ~InFlight(q)
    BY <1>4, <2>2 DEF Crash
  <2> QED
    BY <2>1, <2>2
<1> QED
  BY <1>1, <1>2, <1>3, <1>4 DEF Next

\* Products are inserted, updated and removed by the handlers at these steps.
LEMMA RowsChange ==
    ASSUME [Next]_vars
    PROVE  \/ UNCHANGED productTable
           \/ \E q \in Requests : UpdateRow(q) \/ InsertProduct(q) \/ RemoveProduct(q)
<1>1. ASSUME NEW q \in Requests, Arrives(q) PROVE UNCHANGED productTable
  BY <1>1 DEF Arrives, CreateProduct, UpdateProduct, DeleteProduct,
              CreateProductCategory, tables
<1>2. ASSUME NEW q \in Requests, HandlerStep(q)
      PROVE UNCHANGED productTable \/ UpdateRow(q) \/ InsertProduct(q) \/ RemoveProduct(q)
  BY <1>2 DEF HandlerStep, UploadSucceeds, UploadFails, UploadTimesOut, Reload,
              InsertCategory, tables
<1>3. ASSUME NEW q \in Requests, StatementFails(q) PROVE UNCHANGED productTable
  BY <1>3 DEF StatementFails, tables
<1>4. CASE MediaStep \/ Crash \/ UNCHANGED vars
  BY <1>4 DEF MediaStep, StoreFile, FileFails, DeleteMedia, Crash, vars, tables
<1> QED
  BY <1>1, <1>2, <1>3, <1>4 DEF Next

LEMMA CategoriesChange ==
    ASSUME [Next]_vars
    PROVE  \/ UNCHANGED categoryTable
           \/ \E q \in Requests : InsertCategory(q)
<1>1. ASSUME NEW q \in Requests, Arrives(q) PROVE UNCHANGED categoryTable
  BY <1>1 DEF Arrives, CreateProduct, UpdateProduct, DeleteProduct,
              CreateProductCategory, tables
<1>2. ASSUME NEW q \in Requests, HandlerStep(q)
      PROVE UNCHANGED categoryTable \/ InsertCategory(q)
  BY <1>2 DEF HandlerStep, UploadSucceeds, UploadFails, UploadTimesOut, Reload,
              UpdateRow, InsertProduct, RemoveProduct, tables
<1>3. ASSUME NEW q \in Requests, StatementFails(q) PROVE UNCHANGED categoryTable
  BY <1>3 DEF StatementFails, tables
<1>4. CASE MediaStep \/ Crash \/ UNCHANGED vars
  BY <1>4 DEF MediaStep, StoreFile, FileFails, DeleteMedia, Crash, vars, tables
<1> QED
  BY <1>1, <1>2, <1>3, <1>4 DEF Next

LEMMA TablesAreKept ==
    ASSUME TypeOK, HandlerInv, TableInv, [Next]_vars
    PROVE  TableInv'
<1>1. Persist
  BY RequestsPersist
<1>2. ASSUME NEW p \in Products, productTable'[p] # None PROVE Known(p)'
  <2>1. CASE productTable[p] # None
    BY <1>1, <2>1, KnownStays DEF TableInv
  <2>2. CASE productTable[p] = None
    <3>1. PICK q \in Requests : InsertProduct(q)
      BY <1>2, <2>2, RowsChange DEF UpdateRow, RemoveProduct, TypeOK
    <3>2. /\ request[q] # None
          /\ request[q].step = "insert"
          /\ request[q].op # "createProductCategory"
          /\ request[q].product = p
          /\ HandlerOK(q)
          /\ request[q].op \in Ops
      BY <1>2, <2>2, <3>1 DEF InsertProduct, At, TypeOK, HandlerInv, Handler
    <3>3. CASE request[q].op = "createProduct"
      <4>1. p = q
        BY <3>2, <3>3 DEF HandlerOK
      <4>2. Replies(q) /\ InFlight(q)
        BY <2>2, <3>1, <3>2 DEF InsertProduct, InFlight, Running
      <4>3. /\ request'[q] # None
            /\ request'[q].op = "createProduct"
            /\ request'[q].step \in Stored
        BY <3>3, <4>2, RepliesAdvance DEF Advances, Touches
      <4> QED
        BY <4>1, <4>3 DEF Known
    <3>4. CASE request[q].op = "updateProduct" \/ request[q].op = "deleteProduct"
      <4>1. Known(p)
        BY <3>2, <3>4 DEF HandlerOK
      <4> QED
        BY <1>1, <4>1, KnownStays
    <3> QED
      BY <3>2, <3>3, <3>4 DEF Ops
  <2> QED
    BY <2>1, <2>2
<1>3. ASSUME NEW c \in Requests
      PROVE categoryTable'[c] # None <=>
                /\ request'[c] # None
                /\ request'[c].op = "createProductCategory"
                /\ request'[c].step \in Stored
  <2>1. CASE InsertCategory(c) /\ categoryTable'[c] # categoryTable[c]
    <3>1. /\ request[c].op = "createProductCategory"
          /\ request[c].entity \in Category
          /\ InFlight(c)
          /\ Replies(c)
          /\ categoryTable'[c] = request[c].entity
      BY <2>1 DEF InsertCategory, At, InFlight, Running, HandlerInv, HandlerOK, Saving, TypeOK
    <3>2. /\ request'[c] # None
          /\ request'[c].op = "createProductCategory"
          /\ request'[c].step \in Stored
      BY <3>1, RepliesAdvance DEF Advances, Touches
    <3> QED
      BY <3>1, <3>2
  <2>2. CASE categoryTable'[c] = categoryTable[c]
    <3>1. ASSUME categoryTable[c] # None
          PROVE  request'[c] = request[c]
      BY <1>1, <3>1 DEF TableInv, Persist, InFlight, Running, Stored
    <3>2. ASSUME categoryTable[c] = None, request'[c] # None,
                 request'[c].op = "createProductCategory", request'[c].step \in Stored
          PROVE  FALSE
      <4>1. ~(request[c] # None /\ request[c].step \in Stored)
        BY <1>1, <3>2 DEF TableInv, Persist
      <4>2. InsertCategory(c)
        BY <3>2, <4>1, CreationIsEarned
      <4>3. Finish(c, "failed") /\ InFlight(c)
        <5>1. request[c].entity \in Category
          BY <4>2 DEF InsertCategory, At, HandlerInv, HandlerOK, Saving
        <5> QED
          BY <2>2, <3>2, <4>2, <5>1 DEF InsertCategory, At, InFlight, Running, TypeOK
      <4> QED
        BY <3>2, <4>3, FinishAdvances DEF Stored
    <3> QED
      BY <2>2, <3>1, <3>2 DEF TableInv
  <2>3. CASE ~InsertCategory(c)
    BY <2>2, <2>3, CategoriesChange DEF InsertCategory, TypeOK
  <2> QED
    BY <2>1, <2>2, <2>3
<1>4. ASSUME NEW q \in Requests, request'[q] # None,
             request'[q].op = "createProduct", request'[q].step \in Stored
      PROVE productTable'[q] # None \/ DeletionBegun(q)'
  <2>0. q \in Products
    BY DEF Products
  <2>1. CASE request[q] # None /\ request[q].step \in Stored
    <3>1. productTable[q] # None \/ DeletionBegun(q)
      BY <1>1, <1>4, <2>1 DEF Persist, TableInv
    <3>2. CASE DeletionBegun(q)
      BY <1>1, <3>2, DeletionStays
    <3>3. CASE productTable[q] # None /\ productTable'[q] = None
      <4>1. PICK d \in Requests : RemoveProduct(d) /\ request[d].product = q
        <5>1. ASSUME NEW d \in Requests, UpdateRow(d)
              PROVE productTable'[q] # None
          <6>1. request[d].entity \in Product /\ request[d].product \in Products
            BY <5>1 DEF UpdateRow, At, HandlerInv, HandlerOK, Saving, TypeOK, Handler
          <6> QED
            BY <2>0, <3>3, <5>1, <6>1 DEF UpdateRow, TypeOK, Product
        <5>2. ASSUME NEW d \in Requests, InsertProduct(d)
              PROVE productTable'[q] = productTable[q]
          BY <2>0, <3>3, <5>2 DEF InsertProduct, TypeOK
        <5> QED
          BY <2>0, <3>3, <5>1, <5>2, RowsChange DEF RemoveProduct, TypeOK
      <4>2. DeletionBegun(q)
        BY <4>1 DEF RemoveProduct, At, HandlerInv, HandlerOK, DeletionBegun
      <4> QED
        BY <1>1, <4>2, DeletionStays
    <3> QED
      BY <3>1, <3>2, <3>3
  <2>2. CASE ~(request[q] # None /\ request[q].step \in Stored)
    <3>1. InsertProduct(q)
      BY <1>4, <2>2, CreationIsEarned
    <3>2. /\ request[q].product = q
          /\ request[q].entity \in Product
          /\ InFlight(q)
      BY <1>1, <1>4, <3>1
         DEF InsertProduct, At, InFlight, Running, HandlerInv, HandlerOK, Saving, Persist
    <3>3. CASE productTable[q] # None
      BY <1>4, <3>1, <3>2, <3>3, FinishAdvances DEF InsertProduct, Stored
    <3>4. CASE productTable[q] = None
      BY <2>0, <3>1, <3>2, <3>4 DEF InsertProduct, TypeOK
    <3> QED
      BY <3>3, <3>4
  <2> QED
    BY <2>1, <2>2
<1> QED
  BY <1>2, <1>3, <1>4 DEF TableInv

LEMMA CategoryNamesStayUnique ==
    ASSUME TypeOK, HandlerInv, CategoryNamesAreUnique, [Next]_vars
    PROVE  CategoryNamesAreUnique'
<1>1. CASE UNCHANGED categoryTable
  BY <1>1 DEF CategoryNamesAreUnique
<1>2. ASSUME NEW q \in Requests, InsertCategory(q) PROVE CategoryNamesAreUnique'
  BY <1>2 DEF InsertCategory, CategoryNamesAreUnique, TypeOK
<1> QED
  BY <1>1, <1>2, CategoriesChange

-------------------------------------------------------------------------------
(***************************************************************************)
(* Images                                                                  *)
(***************************************************************************)

\* An image goes to the deletion of its product only.
LEMMA ImagesStay ==
    ASSUME TypeOK, HandlerInv, ImageInv, [Next]_vars,
           NEW set \in SUBSET Image, NEW p, AreImagesOf(set, p)
    PROVE  AreImagesOf(set, p)'
<1>1. Persist
  BY RequestsPersist
<1>2. ASSUME NEW i \in set
      PROVE Made(i)' /\ Owner(i)' = p /\ (i \in assets' \/ DeletionBegun(p)')
  <2>1. /\ Made(i)
        /\ Owner(i) = p
        /\ i \in assets \/ DeletionBegun(p)
        /\ i.by # Original => i.by \in Requests
    BY <1>2 DEF AreImagesOf, Image, Products
  <2>2. Made(i)' /\ Owner(i)' = p
    BY <1>1, <2>1 DEF Made, Owner, Persist
  <2>3. CASE DeletionBegun(p)
    BY <1>1, <2>2, <2>3, DeletionStays
  <2>4. CASE i \in assets /\ ~DeletionBegun(p)
    <3>1. i \notin mediaDelete
      BY <2>1, <2>4 DEF ImageInv
    <3>2. ASSUME NEW q \in Requests, Arrives(q) PROVE UNCHANGED assets
      BY <3>2 DEF Arrives, CreateProduct, UpdateProduct, DeleteProduct,
                  CreateProductCategory, images
    <3>3. ASSUME NEW q \in Requests, HandlerStep(q) \/ StatementFails(q)
          PROVE UNCHANGED assets
      BY <3>3 DEF HandlerStep, UploadSucceeds, UploadFails, UploadTimesOut, Reload,
                  UpdateRow, InsertProduct, InsertCategory, RemoveProduct,
                  StatementFails, images
    <3>4. ASSUME MediaStep PROVE i \in assets'
      BY <2>4, <3>1, <3>4 DEF MediaStep, StoreFile, FileFails, DeleteMedia, images
    <3>5. ASSUME Crash \/ UNCHANGED vars PROVE UNCHANGED assets
      BY <3>5 DEF Crash, vars, images
    <3>6. i \in assets'
      BY <2>4, <3>2, <3>3, <3>4, <3>5 DEF Next
    <3> QED
      BY <2>2, <3>6
  <2> QED
    BY <2>1, <2>3, <2>4, <2>2
<1> QED
  BY <1>2 DEF AreImagesOf

\* The images of a row are those of the row before or of a handler's entity.
LEMMA RowImages ==
    ASSUME TypeOK, HandlerInv, [Next]_vars, NEW p \in Products, productTable'[p] # None
    PROVE  \/ /\ productTable[p] # None
              /\ productTable'[p].images = productTable[p].images
           \/ \E q \in Requests :
                  /\ request[q] # None
                  /\ request[q].entity # None
                  /\ request[q].product = p
                  /\ productTable'[p].images = request[q].entity.images
<1>1. CASE UNCHANGED productTable
  BY <1>1
<1>2. ASSUME NEW q \in Requests, UpdateRow(q) \/ InsertProduct(q),
             productTable'[p] # productTable[p]
      PROVE /\ request[q] # None
            /\ request[q].entity # None
            /\ request[q].product = p
            /\ productTable'[p].images = request[q].entity.images
  <2>1. /\ request[q] # None
        /\ request[q].entity \in Product
        /\ request[q].product \in Products
    BY <1>2 DEF UpdateRow, InsertProduct, At, HandlerInv, HandlerOK, Saving, TypeOK, Handler
  <2>2. CASE UpdateRow(q)
    BY <1>2, <2>1, <2>2 DEF UpdateRow, TypeOK, Product
  <2>3. CASE InsertProduct(q)
    BY <1>2, <2>1, <2>3 DEF InsertProduct, TypeOK
  <2> QED
    BY <1>2, <2>2, <2>3
<1>3. ASSUME NEW q \in Requests, RemoveProduct(q) PROVE productTable'[p] = productTable[p]
  BY <1>3 DEF RemoveProduct, TypeOK
<1> QED
  BY <1>1, <1>2, <1>3, RowsChange

LEMMA CategoryImages ==
    ASSUME TypeOK, HandlerInv, [Next]_vars, NEW c \in Requests, categoryTable'[c] # None
    PROVE  \/ /\ categoryTable[c] # None
              /\ categoryTable'[c].images = categoryTable[c].images
           \/ /\ request[c] # None
              /\ request[c].entity # None
              /\ request[c].product = c
              /\ categoryTable'[c].images = request[c].entity.images
<1>1. CASE categoryTable'[c] = categoryTable[c]
  BY <1>1
<1>2. CASE InsertCategory(c) /\ categoryTable'[c] # categoryTable[c]
  BY <1>2 DEF InsertCategory, At, HandlerInv, HandlerOK, Saving, TypeOK
<1>3. CASE ~InsertCategory(c)
  BY <1>1, <1>3, CategoriesChange DEF InsertCategory, TypeOK
<1> QED
  BY <1>1, <1>2, <1>3

\* The images of an entity are those it had, none, those of the row it was
\* read from, or those of a complete upload.
LEMMA EntityImages ==
    ASSUME TypeOK, HandlerInv, [Next]_vars, NEW q \in Requests,
           request'[q] # None, request'[q].entity # None
    PROVE  \/ /\ request[q] # None
              /\ request[q].entity # None
              /\ request'[q].product = request[q].product
              /\ request'[q].entity.images = request[q].entity.images
           \/ request'[q].entity.images = {}
           \/ \E p \in Products :
                  /\ request'[q].product = p
                  /\ productTable[p] # None
                  /\ request'[q].entity.images = productTable[p].images
           \/ /\ request[q] # None
              /\ request'[q].product = request[q].product
              /\ upload[q] # None
              /\ Uploaded(q)
              /\ request'[q].entity.images = ImagesOf(q, upload[q].files)
<1> DEFINE Good ==
           \/ /\ request[q] # None
              /\ request[q].entity # None
              /\ request'[q].product = request[q].product
              /\ request'[q].entity.images = request[q].entity.images
           \/ request'[q].entity.images = {}
           \/ \E p \in Products :
                  /\ request'[q].product = p
                  /\ productTable[p] # None
                  /\ request'[q].entity.images = productTable[p].images
           \/ /\ request[q] # None
              /\ request'[q].product = request[q].product
              /\ upload[q] # None
              /\ Uploaded(q)
              /\ request'[q].entity.images = ImagesOf(q, upload[q].files)
<1>1. CASE request'[q] = request[q]
  BY <1>1
<1>2. CASE Arrives(q)
  <2>1. ASSUME NEW s \in Sellers, NEW n \in Names, NEW files \in SUBSET Files,
               CreateProduct(q, s, n, files)
        PROVE  request'[q].entity.images = {}
    BY <2>1 DEF CreateProduct, NewProduct, SendFiles, Answer, Holds, TypeOK
  <2>2. ASSUME NEW s \in Sellers, NEW p \in Products, NEW n \in Names,
               NEW files \in SUBSET Files, UpdateProduct(q, s, p, n, files)
        PROVE  /\ request'[q].product = p
               /\ productTable[p] # None
               /\ request'[q].entity.images = productTable[p].images
    <3>1. IsOwnedBy(p, s)
      BY <2>2 DEF UpdateProduct, Answer, Holds, TypeOK
    <3>2. PICK entity : entity = [productTable[p] EXCEPT !.name = n]
      OBVIOUS
    <3>3. productTable[p] # None /\ entity.images = productTable[p].images
      BY <3>1, <3>2 DEF IsOwnedBy, TypeOK, Product
    <3>4. \/ Holds(q, "updateProduct", p, "reload", entity, {})
          \/ Holds(q, "updateProduct", p, "upload", entity, {})
      BY <2>2, <3>1, <3>2 DEF UpdateProduct, SendFiles
    <3>5. request'[q].product = p /\ request'[q].entity = entity
      BY <3>4 DEF Holds, TypeOK
    <3> QED
      BY <3>3, <3>5
  <2>3. ASSUME NEW s \in Sellers, NEW p \in Products, DeleteProduct(q, s, p)
        PROVE  FALSE
    BY <2>3 DEF DeleteProduct, Answer, Holds, TypeOK
  <2>4. ASSUME NEW n \in Names, NEW f \in Files, CreateProductCategory(q, n, f)
        PROVE  request'[q].entity.images = {}
    BY <2>4 DEF CreateProductCategory, SendFiles, Answer, Holds, TypeOK
  <2> QED
    BY <1>2, <2>1, <2>2, <2>3, <2>4 DEF Arrives
<1>3. CASE HandlerStep(q) \/ StatementFails(q)
  <2>1. CASE UploadSucceeds(q)
    <3>1. Advances(q) /\ request'[q].entity.images = ImagesOf(q, upload[q].files)
      BY <2>1, UploadAssigns
    <3>2. upload[q] # None /\ Uploaded(q)
      BY <2>1 DEF UploadSucceeds, At, HandlerInv, HandlerOK
    <3> QED
      BY <3>1, <3>2 DEF Advances, InFlight
  <2>2. CASE Reload(q)
    <3>1. /\ Advances(q)
          /\ request'[q].entity = request[q].entity
      BY <2>2, ReloadKeepsEntity
    <3> QED
      BY <3>1 DEF Advances, InFlight
  <2>3. CASE ~UploadSucceeds(q) /\ ~Reload(q)
    BY <1>3, <2>3, EndsAdvance DEF HandlerStep
  <2> QED
    BY <2>1, <2>2, <2>3
<1>4. CASE Crash
  <2>1. CASE InFlight(q)
    <3>1. request'[q] = [request[q] EXCEPT !.step = "failed", !.entity = None, !.set = {}]
      BY <1>4, <2>1 DEF Crash
    <3>2. request[q] \in Handler
      BY <2>1 DEF InFlight, TypeOK
    <3> QED
      BY <3>1, <3>2 DEF Handler
  <2>2. CASE ~InFlight(q)
    BY <1>1, <1>4, <2>2 DEF Crash
  <2> QED
    BY <2>1, <2>2
<1>5. ASSUME NEW r \in Requests, r # q, Arrives(r) \/ HandlerStep(r) \/ StatementFails(r)
      PROVE request'[q] = request[q]
  BY <1>5, ArrivalsArrive, HandlersAdvance DEF Arrived, Advances, Touches
<1>6. CASE MediaStep \/ UNCHANGED vars
  BY <1>1, <1>6 DEF MediaStep, StoreFile, FileFails, DeleteMedia, vars
<1> HIDE DEF Good
<1>7. Good
  BY <1>1, <1>2, <1>3, <1>4, <1>5, <1>6 DEF Next, Good
<1> QED
  BY <1>7 DEF Good

\* Only a deletion that has begun gives up images.
LEMMA DeletionsAreBegun ==
    ASSUME TypeOK, HandlerInv, ImageInv, [Next]_vars, NEW i \in mediaDelete'
    PROVE  Made(i)' /\ DeletionBegun(Owner(i))'
<1>1. Persist
  BY RequestsPersist
<1>2. ASSUME NEW j \in Image, Made(j), DeletionBegun(Owner(j))
      PROVE  Made(j)' /\ DeletionBegun(Owner(j))'
  <2>1. PICK p : p = Owner(j)
    OBVIOUS
  <2>2. DeletionBegun(p)'
    BY <1>1, <1>2, <2>1, DeletionStays
  <2>3. j.by # Original => j.by \in Requests
    BY DEF Image, Products
  <2>4. Made(j)' /\ Owner(j)' = p
    BY <1>1, <1>2, <2>1, <2>3 DEF Made, Owner, Persist
  <2> QED
    BY <2>2, <2>4
<1>3. CASE i \in mediaDelete
  <2>1. PICK j \in Image : j = i
    BY <1>3 DEF TypeOK
  <2>2. Made(j) /\ DeletionBegun(Owner(j))
    BY <1>3, <2>1 DEF ImageInv
  <2>3. Made(j)' /\ DeletionBegun(Owner(j))'
    BY <1>2, <2>2
  <2> QED
    BY <2>1, <2>3
<1>4. ASSUME NEW q \in Requests, NEW s \in Sellers, NEW p \in Products,
             DeleteProduct(q, s, p), i \notin mediaDelete
      PROVE  Made(i)' /\ DeletionBegun(Owner(i))'
  <2>1. productTable[p] # None /\ i \in productTable[p].images
    BY <1>4 DEF DeleteProduct, IsOwnedBy
  <2>2. request'[q] = [op |-> "deleteProduct", product |-> p, step |-> "remove",
                       entity |-> None, set |-> {}]
    BY <1>4 DEF DeleteProduct, Answer, Holds, TypeOK
  <2>3. Arrived(q)
    BY <1>4, ArrivalsArrive DEF Arrives
  <2>4. DeletionBegun(p)'
    BY <2>2, <2>3 DEF DeletionBegun, Arrived, Touches
  <2>5. PICK set \in SUBSET Image : set = productTable[p].images
    BY <2>1 DEF TypeOK, Product
  <2>6. AreImagesOf(set, p)
    BY <2>1, <2>5 DEF ImageInv
  <2>7. AreImagesOf(set, p)'
    BY <2>6, ImagesStay
  <2>8. PICK j \in set : j = i
    BY <2>1, <2>5
  <2>9. Made(j)' /\ Owner(j)' = p
    BY <2>7 DEF AreImagesOf
  <2> QED
    BY <2>4, <2>8, <2>9
<1>5. ASSUME ~ \E q \in Requests, s \in Sellers, p \in Products : DeleteProduct(q, s, p)
      PROVE  UNCHANGED mediaDelete
  <2>1. ASSUME NEW q \in Requests, Arrives(q) PROVE UNCHANGED mediaDelete
    BY <1>5, <2>1 DEF Arrives, CreateProduct, UpdateProduct, CreateProductCategory, images
  <2>2. ASSUME NEW q \in Requests, HandlerStep(q) \/ StatementFails(q)
        PROVE  UNCHANGED mediaDelete
    BY <2>2 DEF HandlerStep, UploadSucceeds, UploadFails, UploadTimesOut, Reload,
                UpdateRow, InsertProduct, InsertCategory, RemoveProduct,
                StatementFails, images
  <2>3. ASSUME MediaStep \/ Crash \/ UNCHANGED vars PROVE UNCHANGED mediaDelete
    BY <2>3 DEF MediaStep, StoreFile, FileFails, DeleteMedia, Crash, vars, images
  <2> QED
    BY <2>1, <2>2, <2>3 DEF Next
<1> QED
  BY <1>3, <1>4, <1>5

\* What is stored of an upload is there, as long as no file has failed.
LEMMA UploadsAreKept ==
    ASSUME TypeOK, HandlerInv, ImageInv, [Next]_vars, NEW q \in Requests, upload'[q] # None
    PROVE  /\ request'[q] # None
           /\ \/ upload'[q].failed
              \/ AreImagesOf(ImagesOf(q, upload[q].files \ upload[q].todo),
                             request[q].product)'
<1>0. Persist /\ TypeOK'
  BY RequestsPersist, TypesAreKept
<1>1. CASE upload'[q] = upload[q]
  <2>1. request[q] # None /\ request'[q] # None /\ request'[q].product = request[q].product
    BY <1>0, <1>1 DEF ImageInv, Persist
  <2>2. PICK set \in SUBSET Image, p \in Products :
            /\ set = ImagesOf(q, upload[q].files \ upload[q].todo)
            /\ p = request[q].product
    <3>1. ImagesOf(q, upload[q].files \ upload[q].todo) \in SUBSET Image
      BY <1>1 DEF ImagesOf, Image, Products, TypeOK, Upload
    <3>2. request[q].product \in Products
      BY <2>1 DEF TypeOK, Handler
    <3> QED
      BY <3>1, <3>2
  <2>3. upload[q].failed \/ AreImagesOf(set, p)
    BY <1>1, <2>2 DEF ImageInv
  <2>4. upload'[q].failed \/ AreImagesOf(set, p)'
    BY <1>1, <2>3, ImagesStay
  <2>5. ImagesOf(q, upload'[q].files \ upload'[q].todo) = set
    BY <1>1, <2>2 DEF ImagesOf
  <2>6. request'[q].product = p
    BY <2>1, <2>2
  <2> QED
    BY <2>1, <2>4, <2>5, <2>6 DEF AreImagesOf, ImagesOf
<1>2. CASE Arrives(q) /\ upload'[q] # upload[q]
  <2>1. Arrived(q) /\ upload'[q].todo = upload'[q].files
    BY <1>2, ArrivalsArrive
  <2>2. ImagesOf(q, upload[q].files \ upload[q].todo)' = {}
    BY <2>1 DEF ImagesOf
  <2> QED
    BY <2>1, <2>2 DEF AreImagesOf, Arrived, Touches
<1>3. ASSUME NEW f \in Files, FileFails(q, f)
      PROVE  request'[q] # None /\ upload'[q].failed
  BY <1>3 DEF FileFails, ImageInv, TypeOK, Upload
<1>4. ASSUME NEW f \in Files, StoreFile(q, f), ~upload'[q].failed
      PROVE  /\ request'[q] # None
             /\ AreImagesOf(ImagesOf(q, upload[q].files \ upload[q].todo),
                            request[q].product)'
  <2>1. /\ upload[q] # None
        /\ upload[q] \in Upload
        /\ upload'[q].files = upload[q].files
        /\ upload'[q].todo = upload[q].todo \ {f}
        /\ upload'[q].failed = upload[q].failed
        /\ request' = request
        /\ request[q] # None
        /\ assets' = assets \cup ImagesOf(q, {f})
    BY <1>4 DEF StoreFile, ImageInv, TypeOK, Upload
  <2>2. AreImagesOf(ImagesOf(q, upload[q].files \ upload[q].todo), request[q].product)
    BY <1>4, <2>1 DEF ImageInv
  <2>3. PICK set \in SUBSET Image, p \in Products :
            /\ set = ImagesOf(q, upload[q].files \ upload[q].todo)
            /\ p = request[q].product
    <3>1. ImagesOf(q, upload[q].files \ upload[q].todo) \in SUBSET Image
      BY <2>1 DEF ImagesOf, Image, Products, Upload
    <3>2. request[q].product \in Products
      BY <2>1 DEF TypeOK, Handler
    <3> QED
      BY <3>1, <3>2
  <2>4. AreImagesOf(set, p)'
    BY <2>2, <2>3, ImagesStay
  <2>5. [by |-> q, file |-> f] \in assets'
    BY <2>1 DEF ImagesOf
  <2>6. /\ Made([by |-> q, file |-> f])'
        /\ Owner([by |-> q, file |-> f])' = p
    BY <2>1, <2>3 DEF Made, Owner
  <2>7. ImagesOf(q, upload[q].files \ upload[q].todo)'
            \subseteq set \cup {[by |-> q, file |-> f]}
    BY <2>1, <2>3 DEF ImagesOf
  <2>8. request[q].product' = p
    BY <2>1, <2>3
  <2>9. ASSUME NEW i \in set \cup {[by |-> q, file |-> f]}
        PROVE  Made(i)' /\ Owner(i)' = p /\ (i \in assets' \/ DeletionBegun(p)')
    BY <2>4, <2>5, <2>6 DEF AreImagesOf
  <2>10. AreImagesOf(ImagesOf(q, upload[q].files \ upload[q].todo), request[q].product)'
    BY <2>7, <2>8, <2>9 DEF AreImagesOf, DeletionBegun
  <2> QED
    BY <2>1, <2>10
<1>5. ASSUME NEW r \in Requests, r # q, Arrives(r) PROVE upload'[q] = upload[q]
  BY <1>5, ArrivalsArrive
<1>6. ASSUME NEW r \in Requests, NEW f \in Files, r # q, StoreFile(r, f) \/ FileFails(r, f)
      PROVE  upload'[q] = upload[q]
  BY <1>6 DEF StoreFile, FileFails, TypeOK
<1>7. ASSUME NEW r \in Requests, HandlerStep(r) \/ StatementFails(r) PROVE UNCHANGED upload
  BY <1>7 DEF HandlerStep, UploadSucceeds, UploadFails, UploadTimesOut, Reload,
              UpdateRow, InsertProduct, InsertCategory, RemoveProduct, StatementFails
<1>8. ASSUME DeleteMedia \/ Crash \/ UNCHANGED vars PROVE UNCHANGED upload
  BY <1>8 DEF DeleteMedia, Crash, vars
<1>9. \/ upload'[q] = upload[q]
      \/ Arrives(q)
      \/ \E f \in Files : StoreFile(q, f) \/ FileFails(q, f)
  BY <1>5, <1>6, <1>7, <1>8 DEF Next, MediaStep
<1> QED
  <2>1. CASE \E f \in Files : FileFails(q, f)
    BY <1>3, <2>1
  <2>2. CASE \E f \in Files : StoreFile(q, f)
    <3>1. PICK f \in Files : StoreFile(q, f)
      BY <2>2
    <3>2. CASE upload'[q].failed
      BY <3>1, <3>2 DEF StoreFile, ImageInv
    <3>3. CASE ~upload'[q].failed
      BY <1>4, <3>1, <3>3
    <3> QED
      BY <3>2, <3>3
  <2> QED
    BY <1>1, <1>2, <1>9, <2>1, <2>2

LEMMA ImagesAreKept ==
    ASSUME TypeOK, HandlerInv, ImageInv, [Next]_vars
    PROVE  ImageInv'
<1>1. Persist /\ TypeOK'
  BY RequestsPersist, TypesAreKept
<1>2. ASSUME NEW q \in Requests, request[q] # None, request[q].entity # None
      PROVE  /\ request[q].entity.images \in SUBSET Image
             /\ request[q].product \in Products
             /\ AreImagesOf(request[q].entity.images, request[q].product)
  BY <1>2 DEF ImageInv, TypeOK, Handler, Product, Category
<1>3. ASSUME NEW p \in Products, productTable'[p] # None
      PROVE  AreImagesOf(productTable[p].images, p)'
  <2>1. PICK set \in SUBSET Image : set = productTable'[p].images /\ AreImagesOf(set, p)
    <3>1. CASE productTable[p] # None /\ productTable'[p].images = productTable[p].images
      BY <3>1 DEF ImageInv, TypeOK, Product
    <3>2. ASSUME NEW q \in Requests, request[q] # None, request[q].entity # None,
                 request[q].product = p,
                 productTable'[p].images = request[q].entity.images
          PROVE  \E set \in SUBSET Image :
                     set = productTable'[p].images /\ AreImagesOf(set, p)
      BY <1>2, <3>2
    <3> QED
      BY <1>3, <3>1, <3>2, RowImages
  <2>2. AreImagesOf(set, p)'
    BY <2>1, ImagesStay
  <2> QED
    BY <2>1, <2>2 DEF AreImagesOf
<1>4. ASSUME NEW c \in Requests, categoryTable'[c] # None
      PROVE  AreImagesOf(categoryTable[c].images, c)'
  <2>1. PICK set \in SUBSET Image : set = categoryTable'[c].images /\ AreImagesOf(set, c)
    <3>1. CASE categoryTable[c] # None /\ categoryTable'[c].images = categoryTable[c].images
      BY <3>1 DEF ImageInv, TypeOK, Category
    <3>2. CASE /\ request[c] # None
               /\ request[c].entity # None
               /\ request[c].product = c
               /\ categoryTable'[c].images = request[c].entity.images
      BY <1>2, <3>2
    <3> QED
      BY <1>4, <3>1, <3>2, CategoryImages
  <2>2. AreImagesOf(set, c)'
    BY <2>1, ImagesStay
  <2> QED
    BY <2>1, <2>2 DEF AreImagesOf
<1>5. ASSUME NEW q \in Requests, request'[q] # None, request'[q].entity # None
      PROVE  AreImagesOf(request[q].entity.images, request[q].product)'
  <2>1. CASE request'[q].entity.images = {}
    BY <2>1 DEF AreImagesOf
  <2>2. CASE request'[q].entity.images # {}
    <3>1. PICK set \in SUBSET Image, p \in Products :
              /\ set = request'[q].entity.images
              /\ p = request'[q].product
              /\ AreImagesOf(set, p)
      <4>1. CASE /\ request[q] # None
                 /\ request[q].entity # None
                 /\ request'[q].product = request[q].product
                 /\ request'[q].entity.images = request[q].entity.images
        BY <1>2, <4>1
      <4>2. ASSUME NEW p \in Products,
                   request'[q].product = p,
                   productTable[p] # None,
                   request'[q].entity.images = productTable[p].images
            PROVE  \E set \in SUBSET Image, r \in Products :
                       /\ set = request'[q].entity.images
                       /\ r = request'[q].product
                       /\ AreImagesOf(set, r)
        <5>1. productTable[p].images \in SUBSET Image
          BY <4>2 DEF TypeOK, Product
        <5>2. AreImagesOf(productTable[p].images, p)
          BY <4>2 DEF ImageInv
        <5> QED
          BY <4>2, <5>1, <5>2
      <4>3. CASE /\ request[q] # None
                 /\ request'[q].product = request[q].product
                 /\ upload[q] # None
                 /\ Uploaded(q)
                 /\ request'[q].entity.images = ImagesOf(q, upload[q].files)
        <5>1. ImagesOf(q, upload[q].files) \in SUBSET Image
          BY <4>3 DEF ImagesOf, Image, Products, TypeOK, Upload
        <5>2. AreImagesOf(ImagesOf(q, upload[q].files \ upload[q].todo), request[q].product)
          BY <4>3 DEF ImageInv, Uploaded
        <5>3. upload[q].files \ upload[q].todo = upload[q].files
          BY <4>3 DEF Uploaded
        <5>4. AreImagesOf(ImagesOf(q, upload[q].files), request[q].product)
          BY <5>2, <5>3
        <5>5. request[q].product \in Products
          BY <4>3 DEF TypeOK, Handler
        <5> QED
          BY <4>3, <5>1, <5>4, <5>5
      <4> QED
        BY <1>5, <2>2, <4>1, <4>2, <4>3, EntityImages
    <3>2. AreImagesOf(set, p)'
      BY <3>1, ImagesStay
    <3> QED
      BY <3>1, <3>2 DEF AreImagesOf, DeletionBegun
  <2> QED
    BY <2>1, <2>2
<1>6. ASSUME NEW i \in mediaDelete' PROVE Made(i)' /\ DeletionBegun(Owner(i))'
  BY <1>6, DeletionsAreBegun
<1>7. ASSUME NEW q \in Requests, upload'[q] # None
      PROVE  /\ request'[q] # None
             /\ \/ upload'[q].failed
                \/ AreImagesOf(ImagesOf(q, upload[q].files \ upload[q].todo),
                               request[q].product)'
  BY <1>7, UploadsAreKept
<1> QED
  BY <1>3, <1>4, <1>5, <1>6, <1>7 DEF ImageInv

-------------------------------------------------------------------------------
(***************************************************************************)
(* Theorems                                                                *)
(***************************************************************************)

LEMMA InitHolds == Init => IInv
<1> SUFFICES ASSUME Init PROVE IInv
  OBVIOUS
<1> USE DEF Init
<1>1. Original \in Products
  BY DEF Products
<1>2. ImagesOf(Original, Files) \subseteq Image
  BY <1>1 DEF ImagesOf, Image
<1>3. PICK s \in Sellers, n \in Names :
          productTable = [p \in Products |->
              IF p = Original
              THEN [seller |-> s, name |-> n, images |-> ImagesOf(Original, Files)]
              ELSE None]
  OBVIOUS
<1>4. [seller |-> s, name |-> n, images |-> ImagesOf(Original, Files)] \in Product
  BY <1>2 DEF Product
<1>5. TypeOK
  BY <1>2, <1>3, <1>4 DEF TypeOK
<1>6. HandlerInv
  BY DEF HandlerInv
<1>7. TableInv
  BY <1>3 DEF TableInv, Known
<1>8. CategoryNamesAreUnique
  BY DEF CategoryNamesAreUnique
<1>9. ImageInv
  <2>1. ASSUME NEW p \in Products, productTable[p] # None
        PROVE  AreImagesOf(productTable[p].images, p)
    <3>1. p = Original /\ productTable[p].images = ImagesOf(Original, Files)
      BY <1>3, <2>1
    <3> QED
      BY <3>1 DEF AreImagesOf, ImagesOf, Made, Owner
  <2> QED
    BY <2>1 DEF ImageInv
<1> QED
  BY <1>5, <1>6, <1>7, <1>8, <1>9 DEF IInv

\* At every await of every handler: handlers work on products that existed,
\* rows come from confirmed requests, category names are unique, and an image
\* on record, in an entity about to be saved or in an upload without failure is
\* stored and of one product only.
THEOREM Invariant == Spec => []IInv
<1>1. IInv /\ [Next]_vars => IInv'
  BY TypesAreKept, HandlersAreKept, TablesAreKept, CategoryNamesStayUnique, ImagesAreKept
     DEF IInv
<1> QED
  BY InitHolds, <1>1, PTL DEF Spec

\* However uploads, time limits, updates and deletions overlap, the images of a
\* product whose deletion has not begun, and of every category, are stored.
THEOREM ImagesExist == Spec => []ShownImagesExist
<1>1. IInv => ShownImagesExist
  <2> SUFFICES ASSUME IInv PROVE ShownImagesExist
    OBVIOUS
  <2> USE DEF IInv
  <2>1. ASSUME NEW p \in Products, productTable[p] # None
        PROVE  DeletionBegun(p) \/ productTable[p].images \subseteq assets
    BY <2>1 DEF ImageInv, AreImagesOf
  <2>2. ASSUME NEW c \in Requests, categoryTable[c] # None
        PROVE  categoryTable[c].images \subseteq assets
    <3>1. ASSUME DeletionBegun(c) PROVE FALSE
      <4>1. Known(c)
        BY <3>1 DEF DeletionBegun, HandlerInv, HandlerOK
      <4> QED
        BY <2>2, <4>1 DEF Known, TableInv
    <3> QED
      BY <2>2, <3>1 DEF ImageInv, AreImagesOf
  <2> QED
    BY <2>1, <2>2 DEF ShownImagesExist
<1> QED
  BY Invariant, <1>1, PTL

\* createProduct and createProductCategory tell the truth: what they confirm is
\* stored until it is deleted, what they refuse or fail is not stored, then or
\* later, unless the INSERT's own answer was lost.
THEOREM CreateReplies == Spec => []CreateReplyHolds
<1>1. IInv => CreateReplyHolds
  <2> SUFFICES ASSUME IInv, NEW q \in Requests, request[q] # None
               PROVE  /\ request[q].op = "createProduct" =>
                             /\ request[q].step = "ok" =>
                                    productTable[q] # None \/ DeletionBegun(q)
                             /\ request[q].step \in { "refused", "failed" } =>
                                    productTable[q] = None
                      /\ request[q].op = "createProductCategory" =>
                             /\ request[q].step = "ok" => categoryTable[q] # None
                             /\ request[q].step \in { "refused", "failed" } =>
                                    categoryTable[q] = None
    BY DEF CreateReplyHolds
  <2>1. TableInv /\ q \in Products
    BY DEF IInv, Products
  <2>2. productTable[q] # None => request[q].step \in Stored
    BY <2>1 DEF TableInv, Known
  <2> QED
    BY <2>1, <2>2 DEF TableInv, Stored
<1> QED
  BY Invariant, <1>1, PTL

\* A request that is not refused on arrival is about a new id or a product
\* that is there.
LEMMA ArrivalsReadRows ==
    ASSUME TypeOK, NEW q \in Requests, Arrives(q), InFlight(q)'
    PROVE  \/ request'[q].product = q
           \/ productTable[request'[q].product] # None
<1>1. ASSUME NEW s \in Sellers, NEW n \in Names, NEW files \in SUBSET Files,
             CreateProduct(q, s, n, files)
      PROVE  request'[q].product = q
  BY <1>1 DEF CreateProduct, NewProduct, SendFiles, Answer, Holds, TypeOK
<1>2. ASSUME NEW s \in Sellers, NEW p \in Products, NEW n \in Names,
             NEW files \in SUBSET Files, UpdateProduct(q, s, p, n, files)
      PROVE  productTable[request'[q].product] # None
  <2>1. CASE IsOwnedBy(p, s)
    BY <1>2, <2>1 DEF UpdateProduct, IsOwnedBy, SendFiles, Holds, TypeOK
  <2>2. CASE ~IsOwnedBy(p, s)
    BY <1>2, <2>2 DEF UpdateProduct, Answer, Holds, InFlight, Running, TypeOK
  <2> QED
    BY <2>1, <2>2
<1>3. ASSUME NEW s \in Sellers, NEW p \in Products, DeleteProduct(q, s, p)
      PROVE  productTable[request'[q].product] # None
  BY <1>3 DEF DeleteProduct, IsOwnedBy, Answer, Holds, InFlight, Running, TypeOK
<1>4. ASSUME NEW n \in Names, NEW f \in Files, CreateProductCategory(q, n, f)
      PROVE  request'[q].product = q
  BY <1>4 DEF CreateProductCategory, SendFiles, Answer, Holds, TypeOK
<1> QED
  BY <1>1, <1>2, <1>3, <1>4 DEF Arrives

\* A handler that gets hold of a product finds it stored.
LEMMA SaversHaveRead ==
    ASSUME IInv, [Next]_vars, NEW p \in Products, Deleted(p)
    PROVE  Savers(p)' \subseteq Savers(p)
<1> USE DEF IInv
<1>1. Persist /\ HandlerInv'
  BY RequestsPersist, HandlersAreKept
<1> SUFFICES ASSUME NEW q \in Requests, request'[q] # None, request'[q].entity # None,
                    request'[q].product = p
             PROVE  q \in Savers(p)
  BY DEF Savers
<1>2. InFlight(q)'
  BY <1>1 DEF HandlerInv, HandlerOK, InFlight, Saving, Running
<1>3. CASE request[q] # None
  <2>1. InFlight(q) /\ request[q].product = p
    BY <1>1, <1>2, <1>3 DEF Persist, InFlight
  <2>2. request[q].entity # None
    <3>1. HandlerOK(q) /\ (HandlerOK(q))'
      BY <1>1, <1>3 DEF HandlerInv
    <3>2. request[q].step \in Saving
      BY <1>1, <1>2, <1>3, <2>1, <3>1 DEF HandlerOK, InFlight, Saving, Running, Persist
    <3>3. request[q].entity \in Product \cup Category
      BY <3>1, <3>2 DEF HandlerOK
    <3> QED
      BY <3>3
  <2> QED
    BY <1>3, <2>1, <2>2 DEF Savers
<1>4. CASE request[q] = None
  <2>1. Arrives(q)
    <3>1. ASSUME NEW r \in Requests, r # q, Arrives(r) PROVE FALSE
      BY <1>2, <1>4, <3>1, ArrivalsArrive DEF Arrived, Touches, InFlight
    <3>2. ASSUME NEW r \in Requests, HandlerStep(r) \/ StatementFails(r) PROVE FALSE
      BY <1>2, <1>4, <3>2, HandlersAdvance DEF Advances, Touches, InFlight
    <3>3. ASSUME MediaStep \/ Crash \/ UNCHANGED vars PROVE FALSE
      BY <1>2, <1>4, <3>3
         DEF MediaStep, StoreFile, FileFails, DeleteMedia, Crash, vars, InFlight
    <3> QED
      BY <3>1, <3>2, <3>3 DEF Next
  <2>2. \/ request'[q].product = q
        \/ productTable[request'[q].product] # None
    BY <1>2, <2>1, ArrivalsReadRows
  <2> QED
    BY <1>4, <2>2, OriginalAssumption DEF Deleted, Known
<1> QED
  BY <1>3, <1>4

\* A product is put back by the INSERT of an updateProduct.
LEMMA SavesRevive ==
    ASSUME IInv, [Next]_vars, NEW p \in Products, Deleted(p), productTable'[p] # None
    PROVE  \E q \in Savers(p) \ Savers(p)' :
               /\ request[q].op = "updateProduct"
               /\ productTable'[p] = request[q].entity
               /\ request'[q].step \in Stored
<1> USE DEF IInv
<1>1. PICK q \in Requests : InsertProduct(q)
  BY RowsChange DEF UpdateRow, RemoveProduct, TypeOK, Deleted
<1>2. /\ request[q] # None
      /\ request[q].step = "insert"
      /\ request[q].op # "createProductCategory"
      /\ request[q].product = p
      /\ HandlerOK(q)
      /\ request[q].op \in Ops
      /\ request[q].entity \in Product
      /\ InFlight(q)
      /\ productTable'[p] = request[q].entity
      /\ Replies(q)
  BY <1>1 DEF InsertProduct, At, TypeOK, HandlerInv, HandlerOK, Handler, Deleted, Saving,
              InFlight, Running
<1>3. request[q].op # "createProduct"
  BY <1>2, OriginalAssumption DEF HandlerOK, Deleted, Known, Stored
<1>4. request[q].op # "deleteProduct"
  BY <1>2 DEF HandlerOK
<1>5. request'[q].step \in Stored /\ request'[q].entity = None
  BY <1>2, RepliesAdvance
<1>6. q \in Savers(p) /\ q \notin Savers(p)'
  BY <1>2, <1>5 DEF Savers
<1> QED
  BY <1>2, <1>3, <1>4, <1>5, <1>6 DEF Ops

\* A deletion is undone by nothing but an updateProduct that had read the product
\* before: no handler gets hold of a deleted product, and each that has can
\* put it back once, by the INSERT that ends it.  With the last of them the
\* deletion is final.
THEOREM EarlierSavesRevive == Spec => OnlyEarlierSavesRevive
<1>1. IInv /\ [Next]_vars =>
          [\A p \in Products :
               Deleted(p) =>
                   /\ Savers(p)' \subseteq Savers(p)
                   /\ productTable'[p] # None =>
                          \E q \in Savers(p) \ Savers(p)' :
                              /\ request[q].op = "updateProduct"
                              /\ productTable'[p] = request[q].entity
                              /\ request'[q].step \in Stored]_vars
  BY SaversHaveRead, SavesRevive
<1> QED
  BY Invariant, <1>1, PTL DEF Spec, OnlyEarlierSavesRevive

===============================================================================
