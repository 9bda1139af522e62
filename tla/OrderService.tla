----------------------------- MODULE OrderService -----------------------------
(***************************************************************************)
(* The order service (apps/order-service): createOrder, cancelMyOrder,     *)
(* handlePaymentConfirmed, handleFailedPayment and deleteOrder, running    *)
(* concurrently against one Postgres database.                             *)
(*                                                                         *)
(* Every await of a handler is a point where another handler, a seller     *)
(* editing a product or a crash may come in between, so a handler is split *)
(* into one action per await.  TypeORM's repository.save(entity) is three  *)
(* such steps: the handler's own earlier SELECT, a second SELECT inside    *)
(* save that decides between INSERT and UPDATE, and the statement itself.  *)
(*                                                                         *)
(* Amounts are integers in the minor unit: the code rounds the running     *)
(* total to two decimals after every addition.                             *)
(***************************************************************************)
EXTENDS Integers, Sequences, FiniteSetsExt, OrderStatus

CONSTANTS
    Orders,        \* ids an order may get: one createOrder at a time per id
    Users,         \* buyers
    Products,      \* product ids
    Carts,         \* CreateOrderDto.items values: sequences of cart lines
    Prices,        \* prices a product may have
    Stocks,        \* stock levels a product may have
    MaxAmount,     \* largest value of the decimal(10,2) columns
    Requests,      \* slots for cancel, confirm, fail and delete requests
    MaxCrashes,    \* bound on process crashes
    EmitMayFail,   \* TRUE when kafkaClient.emit may lose its message
    None           \* no row, no product, no request

CartLine == [productId : Products, quantity : Nat \ {0}]

ASSUME CartsAssumption == Carts \subseteq { c \in Seq(CartLine) : c # <<>> }
ASSUME AmountsAssumption ==
    /\ Prices \subseteq Nat
    /\ Stocks \subseteq Nat
    /\ MaxAmount \in Nat
    /\ MaxCrashes \in Nat
    /\ EmitMayFail \in BOOLEAN

VARIABLES
    catalog,       \* product service: the product a GET returns, by id
    orderTable,    \* table "order", by id
    itemTable,     \* table "order_item"
    create,        \* createOrder in progress, by the id its order will get
    request,       \* the other handlers, by slot
    orderCreated,  \* messages on topic order.created
    placed,        \* history: ids whose transaction committed
    deleted,       \* history: ids whose deletion was reported to the buyer
    crashes        \* crashes so far

vars == << catalog, orderTable, itemTable, create, request, orderCreated,
           placed, deleted, crashes >>

(***************************************************************************)
(* Types                                                                   *)
(***************************************************************************)
Product == [price : Prices, stock : Stocks]

OrderRow == [buyerId : Users, totalAmount : Nat, orderStatus : OrderStatuses]

OrderLine == [line : Nat, productId : Products, quantity : Nat,
              unitPrice : Nat, subTotal : Nat]

ItemRow == [orderId : Orders, item : OrderLine]

Creation == [step : { "fetching", "saving", "emit" }, buyer : Users,
             cart : Carts, pending : SUBSET Nat, totalAmount : Nat,
             lines : SUBSET OrderLine]

Ops == { "cancel", "confirm", "fail", "delete" }

\* A handler inside save holds the entity it is saving.
Request ==
    [op : Ops, order : Orders, entity : OrderRow,
     step : { "reload", "update", "insert" }]
    \cup
    [op : Ops, order : Orders, entity : {None},
     step : { "delete", "ok", "refused" }]

OrderCreated == [orderId : Orders, buyerId : Users, totalAmount : Nat]

ASSUME NoneAssumption ==
    None \notin OrderRow \cup Product \cup Creation \cup Request

TypeOK ==
    /\ catalog \in [Products -> Product \cup {None}]
    /\ orderTable \in [Orders -> OrderRow \cup {None}]
    /\ itemTable \subseteq ItemRow
    /\ create \in [Orders -> Creation \cup {None}]
    /\ request \in [Requests -> Request \cup {None}]
    /\ orderCreated \subseteq OrderCreated
    /\ placed \subseteq Orders
    /\ deleted \subseteq Orders
    /\ crashes \in 0..MaxCrashes

Init ==
    /\ catalog \in [Products -> Product]
    /\ orderTable = [o \in Orders |-> None]
    /\ itemTable = {}
    /\ create = [o \in Orders |-> None]
    /\ request = [r \in Requests |-> None]
    /\ orderCreated = {}
    /\ placed = {}
    /\ deleted = {}
    /\ crashes = 0

\* The product service, seen from here: between any two fetches a seller edits
\* or deletes a product, or the save of an edit inserts a deleted one again.
SellerEdits(p) ==
    /\ \E entry \in Product \cup {None} : catalog' = [catalog EXCEPT ![p] = entry]
    /\ UNCHANGED << orderTable, itemTable, create, request, orderCreated,
                    placed, deleted, crashes >>

-------------------------------------------------------------------------------
(***************************************************************************)
(* createOrder                                                             *)
(***************************************************************************)

\* The handler opens its transaction and starts one fetch per cart line
\* (Promise.all); the total it accumulates starts at zero.
BeginCreateOrder(o, u, cart) ==
    /\ create[o] = None
    /\ o \notin placed
    /\ create' = [create EXCEPT ![o] =
           [ step |-> "fetching", buyer |-> u, cart |-> cart,
             pending |-> DOMAIN cart, totalAmount |-> 0, lines |-> {} ]]
    /\ UNCHANGED << catalog, orderTable, itemTable, request, orderCreated,
                    placed, deleted, crashes >>

InStock(product, quantity) == product # None /\ product.stock >= quantity

\* The item a line becomes: name and price are copied from the product as it
\* is at this fetch.
Snapshot(i, cartLine, product) ==
    [ line |-> i, productId |-> cartLine.productId,
      quantity |-> cartLine.quantity, unitPrice |-> product.price,
      subTotal |-> product.price * cartLine.quantity ]

\* Mutation: `totalAmount += await ...`: the total is read before the await.
AddToTotalReadBeforeAwait(creation, item) == item.subTotal

\* The running total after one more line.  The addition reads the total after
\* the fetch has come back, in the same turn of the event loop.
AddToTotal(creation, item) == creation.totalAmount + item.subTotal

\* The answer for line i arrives.
FetchLine(o, i) ==
    /\ create[o] # None
    /\ create[o].step = "fetching"
    /\ i \in create[o].pending
    /\ LET cartLine == create[o].cart[i]
           product  == catalog[cartLine.productId]
           item     == Snapshot(i, cartLine, product)
           rest     == create[o].pending \ {i}
       IN /\ InStock(product, cartLine.quantity)
          /\ create' = [create EXCEPT
                 ![o].pending = rest,
                 ![o].lines = @ \cup {item},
                 ![o].totalAmount = AddToTotal(create[o], item),
                 ![o].step = IF rest = {} THEN "saving" ELSE "fetching"]
    /\ UNCHANGED << catalog, orderTable, itemTable, request, orderCreated,
                    placed, deleted, crashes >>

\* rollbackTransaction: nothing of the transaction is ever visible, and the
\* request ends in an error.
Rollback(o) ==
    /\ create' = [create EXCEPT ![o] = None]
    /\ UNCHANGED << catalog, orderTable, itemTable, request, orderCreated,
                    placed, deleted, crashes >>

\* Mutation: a missing product is neither used nor reported.
RejectLineOnlyShortStock(o, i) ==
    /\ create[o] # None
    /\ create[o].step = "fetching"
    /\ i \in create[o].pending
    /\ LET cartLine == create[o].cart[i]
           product  == catalog[cartLine.productId]
       IN product # None /\ product.stock < cartLine.quantity
    /\ Rollback(o)

\* Line i is missing or short of stock: Promise.all rejects.
RejectLine(o, i) ==
    /\ create[o] # None
    /\ create[o].step = "fetching"
    /\ i \in create[o].pending
    /\ LET cartLine == create[o].cart[i]
       IN ~InStock(catalog[cartLine.productId], cartLine.quantity)
    /\ Rollback(o)

\* The product service or the database fails before the commit.
FailCreateOrder(o) ==
    /\ create[o] # None
    /\ create[o].step \in { "fetching", "saving" }
    /\ Rollback(o)

\* The total does not fit decimal(10,2): the INSERT is refused.
RejectTotal(o) ==
    /\ create[o] # None
    /\ create[o].step = "saving"
    /\ create[o].totalAmount > MaxAmount
    /\ Rollback(o)

\* The rows saved by one transaction become visible together at the commit.
NewOrder(creation) ==
    [ buyerId |-> creation.buyer, totalAmount |-> creation.totalAmount,
      orderStatus |-> "PENDING" ]

CommitOrder(o) ==
    /\ create[o] # None
    /\ create[o].step = "saving"
    /\ create[o].totalAmount <= MaxAmount
    /\ orderTable' = [orderTable EXCEPT ![o] = NewOrder(create[o])]
    /\ itemTable' = itemTable \cup
           { [orderId |-> o, item |-> l] : l \in create[o].lines }
    /\ placed' = placed \cup {o}
    /\ create' = [create EXCEPT ![o].step = "emit"]
    /\ UNCHANGED << catalog, request, orderCreated, deleted, crashes >>

\* Mutation: the message is sent while the transaction is still open.
EmitOrderCreatedInTransaction(o) ==
    /\ create[o] # None
    /\ create[o].step = "saving"
    /\ orderCreated' = orderCreated \cup
           {[ orderId |-> o, buyerId |-> create[o].buyer,
              totalAmount |-> create[o].totalAmount ]}
    /\ UNCHANGED << catalog, orderTable, itemTable, create, request, placed,
                    deleted, crashes >>

\* The announcement follows the commit and is not awaited: its loss is not
\* noticed and the request is answered either way.
EmitOrderCreated(o) ==
    /\ create[o] # None
    /\ create[o].step = "emit"
    /\ \/ orderCreated' = orderCreated \cup
              {[ orderId |-> o, buyerId |-> create[o].buyer,
                 totalAmount |-> create[o].totalAmount ]}
       \/ EmitMayFail /\ UNCHANGED orderCreated
    /\ create' = [create EXCEPT ![o] = None]
    /\ UNCHANGED << catalog, orderTable, itemTable, request, placed, deleted,
                    crashes >>

-------------------------------------------------------------------------------
(***************************************************************************)
(* Requests that change or remove an existing order                        *)
(***************************************************************************)
Answered(r) == request[r] # None => request[r].step \in { "ok", "refused" }

Goto(r, step) ==
    request' = [request EXCEPT ![r].step = step, ![r].entity = None]

\* A handler starts: it SELECTs the order, if it is of one of the buyers asked
\* for, and in the same turn either throws (no such row, or the transition
\* table says no) or assigns the new status to the entity and calls save.
ChangeStatus(r, op, o, buyers, target) ==
    /\ Answered(r)
    /\ o \in placed
    /\ LET row     == orderTable[o]
           allowed == /\ row # None
                      /\ row.buyerId \in buyers
                      /\ CanTransition(row.orderStatus, target)
       IN request' = [request EXCEPT ![r] =
              [ op |-> op, order |-> o,
                step |-> IF allowed THEN "reload" ELSE "refused",
                entity |-> IF allowed
                           THEN [row EXCEPT !.orderStatus = target]
                           ELSE None ]]
    /\ UNCHANGED << catalog, orderTable, itemTable, create, orderCreated,
                    placed, deleted, crashes >>

\* getMyOneOrderById looks the order up by id and buyer, getOrderById by id.
CancelMyOrder(r, u, o) == ChangeStatus(r, "cancel", o, {u}, "CANCELLED")

HandlePaymentConfirmed(r, o) == ChangeStatus(r, "confirm", o, Users, "PAYMENT_CONFIRMED")

HandleFailedPayment(r, o) == ChangeStatus(r, "fail", o, Users, "CANCELLED")

\* Mutation: save only inserts, an existing row is left as it is.
ReloadUpdatesOnlyIfAbsent(r) ==
    /\ request[r] # None
    /\ request[r].step = "reload"
    /\ IF orderTable[request[r].order] = None
       THEN request' = [request EXCEPT ![r].step = "insert"]
       ELSE Goto(r, "ok")
    /\ UNCHANGED << catalog, orderTable, itemTable, create, orderCreated,
                    placed, deleted, crashes >>

\* save(entity), second SELECT: no row means INSERT, a row that differs means
\* UPDATE, an equal row means no statement at all.
Reload(r) ==
    /\ request[r] # None
    /\ request[r].step = "reload"
    /\ LET row == orderTable[request[r].order]
       IN request' = [request EXCEPT
              ![r].step = IF row = None THEN "insert"
                          ELSE IF row = request[r].entity THEN "ok"
                          ELSE "update",
              ![r].entity = IF row = @ THEN None ELSE @]
    /\ UNCHANGED << catalog, orderTable, itemTable, create, orderCreated,
                    placed, deleted, crashes >>

\* save(entity), UPDATE of the column that differs (only the status can) by
\* id: it touches no row when the order has been deleted since the reload.
Update(r) ==
    /\ request[r] # None
    /\ request[r].step = "update"
    /\ LET o == request[r].order
       IN orderTable' =
              IF orderTable[o] = None THEN orderTable
              ELSE [orderTable EXCEPT ![o].orderStatus = request[r].entity.orderStatus]
    /\ Goto(r, "ok")
    /\ UNCHANGED << catalog, itemTable, create, orderCreated, placed, deleted,
                    crashes >>

\* save(entity), INSERT under the id the entity carries: a second one meets
\* the primary key and fails.
Insert(r) ==
    /\ request[r] # None
    /\ request[r].step = "insert"
    /\ LET o == request[r].order
       IN \/ /\ orderTable[o] = None
             /\ orderTable' = [orderTable EXCEPT ![o] = request[r].entity]
             /\ Goto(r, "ok")
          \/ /\ orderTable[o] # None
             /\ Goto(r, "refused")
             /\ UNCHANGED orderTable
    /\ UNCHANGED << catalog, itemTable, create, orderCreated, placed, deleted,
                    crashes >>

\* deleteOrder looks the order up by id and checks the owner itself ...
BeginDelete(r, u, o) ==
    /\ Answered(r)
    /\ o \in placed
    /\ LET row == orderTable[o]
       IN request' = [request EXCEPT ![r] =
              [ op |-> "delete", order |-> o, entity |-> None,
                step |-> IF row # None /\ row.buyerId = u
                         THEN "delete" ELSE "refused" ]]
    /\ UNCHANGED << catalog, orderTable, itemTable, create, orderCreated,
                    placed, deleted, crashes >>

\* Mutation: no ON DELETE CASCADE, the items outlive their order.
DeleteOrderKeepsItems(r) ==
    /\ request[r] # None
    /\ request[r].step = "delete"
    /\ LET o == request[r].order
       IN /\ orderTable' = [orderTable EXCEPT ![o] = None]
          /\ deleted' = deleted \cup {o}
    /\ Goto(r, "ok")
    /\ UNCHANGED << catalog, itemTable, create, orderCreated, placed, crashes >>

\* ... and deletes by id; the foreign key removes the items (ON DELETE
\* CASCADE).  No row left to delete is not an error.
DeleteOrder(r) ==
    /\ request[r] # None
    /\ request[r].step = "delete"
    /\ LET o == request[r].order
       IN /\ orderTable' = [orderTable EXCEPT ![o] = None]
          /\ itemTable' = { i \in itemTable : i.orderId # o }
          /\ deleted' = deleted \cup {o}
    /\ Goto(r, "ok")
    /\ UNCHANGED << catalog, create, orderCreated, placed, crashes >>

\* The process dies: requests in progress are gone and open transactions are
\* rolled back by the database; committed rows and sent messages stay.
Crash ==
    /\ crashes < MaxCrashes
    /\ crashes' = crashes + 1
    /\ create' = [o \in Orders |-> None]
    /\ request' = [r \in Requests |-> None]
    /\ UNCHANGED << catalog, orderTable, itemTable, orderCreated, placed,
                    deleted >>

-------------------------------------------------------------------------------
CreateStep(o) ==
    \/ \E i \in DOMAIN create[o].cart : FetchLine(o, i) \/ RejectLine(o, i)
    \/ RejectTotal(o)
    \/ CommitOrder(o)
    \/ EmitOrderCreated(o)

RequestStep(r) == Reload(r) \/ Update(r) \/ Insert(r) \/ DeleteOrder(r)

Arrive(r, o) ==
    \/ \E u \in Users : CancelMyOrder(r, u, o) \/ BeginDelete(r, u, o)
    \/ HandlePaymentConfirmed(r, o)
    \/ HandleFailedPayment(r, o)

Next ==
    \/ \E p \in Products : SellerEdits(p)
    \/ \E o \in Orders, u \in Users, cart \in Carts : BeginCreateOrder(o, u, cart)
    \/ \E o \in Orders : create[o] # None /\ CreateStep(o)
    \/ \E o \in Orders : FailCreateOrder(o)
    \/ \E r \in Requests, o \in Orders : Arrive(r, o)
    \/ \E r \in Requests : RequestStep(r)
    \/ Crash

Spec == Init /\ [][Next]_vars

\* The event loop and the database answer: a handler that has started is
\* taken to its end.  Arrivals, seller edits, failures and crashes are not
\* promised.
Fairness ==
    /\ \A o \in Orders : WF_vars(create[o] # None /\ CreateStep(o))
    /\ \A r \in Requests : WF_vars(RequestStep(r))

FairSpec == Spec /\ Fairness

-------------------------------------------------------------------------------
(***************************************************************************)
(* Properties                                                              *)
(***************************************************************************)
Stored(o) == orderTable[o] # None

ItemsOf(o) == { i.item : i \in { j \in itemTable : j.orderId = o } }

\* The sum of the subtotals of a set of order lines.
Total(items) == MapThenSumSet(LAMBDA l : l.subTotal, items)

\* The transaction and the concurrent fetches of createOrder: an order that
\* is visible and was never deleted has at least one item, and its total is
\* the sum of the subtotals stored with it, whatever order the answers of the
\* product service came in and whatever the sellers edited meanwhile.
TotalMatchesItems ==
    \A o \in placed \ deleted :
        /\ Stored(o)
        /\ ItemsOf(o) # {}
        /\ orderTable[o].totalAmount = Total(ItemsOf(o))

\* The emit after the commit in createOrder: whatever order.created says was
\* committed, the message agrees with the row as long as there is one, and an
\* order is announced at most once.
AnnouncedOrderIsCommitted ==
    \A m \in orderCreated :
        /\ m.orderId \in placed
        /\ Stored(m.orderId) =>
              /\ orderTable[m.orderId].buyerId = m.buyerId
              /\ orderTable[m.orderId].totalAmount = m.totalAmount
        /\ \A n \in orderCreated : n.orderId = m.orderId => n = m

\* The transition table, read by handlers that hold an entity across awaits:
\* an order stored as PENDING is never asked to be AWAITING_PAYMENT, so none
\* ever gets beyond PENDING and CANCELLED and every confirmation is refused.
FulfilmentUnreachable ==
    \A o \in Orders : Stored(o) => orderTable[o].orderStatus \in { "PENDING", "CANCELLED" }

\* Lost updates between handlers that read, decide and save in three steps:
\* a stored status only ever changes along the transition table, although the
\* check was made against an earlier read.
StatusFollowsTable ==
    [][ \A o \in Orders :
            (/\ orderTable[o] # None
             /\ orderTable'[o] # None
             /\ orderTable'[o].orderStatus # orderTable[o].orderStatus)
            => CanTransition(orderTable[o].orderStatus, orderTable'[o].orderStatus) ]_vars

\* The answers of cancelMyOrder and handleFailedPayment: once a caller has
\* been told the order is cancelled, no other handler leaves it in another
\* status, now or later.
CancelReplyHolds ==
    \A r \in Requests :
        (/\ request[r] # None
         /\ request[r].op \in { "cancel", "fail" }
         /\ request[r].step = "ok"
         /\ Stored(request[r].order))
        => orderTable[request[r].order].orderStatus = "CANCELLED"

\* save after a delete: an order a late save brings back is a cancelled one
\* without items, never one that could still be paid or shipped.
RevivedOrderIsCancelled ==
    \A o \in deleted :
        Stored(o) => orderTable[o].orderStatus = "CANCELLED" /\ ItemsOf(o) = {}

\* Error paths of every handler: a request that has begun is answered, whatever
\* products, totals, rows and other handlers it meets.
RequestsAnswered ==
    /\ \A r \in Requests : ~Answered(r) ~> Answered(r)
    /\ \A o \in Orders : create[o] # None ~> create[o] = None

-------------------------------------------------------------------------------
(***************************************************************************)
(* The inductive invariant behind the safety properties: how the rows, the *)
(* handlers' entities and the history relate in every reachable state.     *)
(***************************************************************************)

\* Ids are used once: nothing is stored, requested or deleted under an id
\* whose createOrder has not committed.
IdsAreFresh ==
    /\ \A o \in Orders : create[o] # None => (create[o].step = "emit" <=> o \in placed)
    /\ \A o \in Orders : Stored(o) => o \in placed
    /\ \A r \in Requests : request[r] # None => request[r].order \in placed
    /\ deleted \subseteq placed

\* Only cancellations reach save.
EntitiesAreCancelled ==
    \A r \in Requests :
        request[r] # None /\ request[r].entity # None
        => request[r].entity.orderStatus = "CANCELLED"

\* The three status properties are inductive together.
StatusInv == EntitiesAreCancelled /\ FulfilmentUnreachable /\ CancelReplyHolds

\* No createOrder runs twice for an id, so items are never added to an order
\* that has been deleted.
DeletedHasNoItems == \A o \in deleted : ItemsOf(o) = {}

DeletionInv == RevivedOrderIsCancelled /\ DeletedHasNoItems

\* The buyer and the total of an order are those of its row and of every
\* entity a handler holds of it.
Agrees(o, buyer, total) ==
    /\ Stored(o) => /\ orderTable[o].buyerId = buyer
                    /\ orderTable[o].totalAmount = total
    /\ \A r \in Requests :
           (request[r] # None /\ request[r].order = o /\ request[r].entity # None)
           => /\ request[r].entity.buyerId = buyer
              /\ request[r].entity.totalAmount = total

AnnouncementsAgree ==
    /\ \A m \in orderCreated : m.orderId \in placed /\ Agrees(m.orderId, m.buyerId, m.totalAmount)
    /\ \A m, n \in orderCreated : m.orderId = n.orderId => m = n
    /\ \A o \in Orders :
           (create[o] # None /\ create[o].step = "emit")
           => /\ Agrees(o, create[o].buyer, create[o].totalAmount)
              /\ \A m \in orderCreated : m.orderId # o

\* createOrder has added up exactly the lines it has fetched so far, each once,
\* saves only when there is one, and announces only what fits the column.
RunningTotal(creation) ==
    /\ IsFiniteSet(creation.lines)
    /\ creation.totalAmount = Total(creation.lines)
    /\ \A l \in creation.lines : l.line \notin creation.pending
    /\ creation.step # "fetching" => creation.lines # {}
    /\ creation.step = "emit" => creation.totalAmount <= MaxAmount

\* An order gets its items with its row, and keeps both until it is deleted.
TotalsInv ==
    /\ \A o \in Orders : create[o] # None => RunningTotal(create[o])
    /\ \A i \in itemTable : i.orderId \in placed
    /\ \A o \in placed : IsFiniteSet(ItemsOf(o))
    /\ TotalMatchesItems

IInv ==
    /\ TypeOK
    /\ IdsAreFresh
    /\ StatusInv
    /\ DeletionInv
    /\ AnnouncementsAgree
    /\ TotalsInv

==============================================================================
