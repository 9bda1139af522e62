-------------------------- MODULE OrderServiceProofs --------------------------
(***************************************************************************)
(* Theorems about OrderService, for every set of orders, users, products,  *)
(* carts and concurrent requests, and any number of crashes.               *)
(***************************************************************************)
EXTENDS OrderService, FiniteSetTheorems, TLAPS

\* Every step of every handler writes values of the types of the entities.
LEMMA TypeIsKept ==
    ASSUME TypeOK, [Next]_vars
    PROVE  TypeOK'
<1> USE AmountsAssumption, CartsAssumption
<1> USE DEF TypeOK
<1>1. ASSUME NEW p \in Products, SellerEdits(p) PROVE TypeOK'
  BY <1>1 DEF SellerEdits
<1>2. ASSUME NEW o \in Orders, NEW u \in Users, NEW cart \in Carts,
             BeginCreateOrder(o, u, cart)
      PROVE TypeOK'
  <2>1. DOMAIN cart \subseteq Nat
    OBVIOUS
  <2>2. [ step |-> "fetching", buyer |-> u, cart |-> cart,
          pending |-> DOMAIN cart, totalAmount |-> 0, lines |-> {} ] \in Creation
    BY <2>1 DEF Creation
  <2>3. create' \in [Orders -> Creation \cup {None}]
    BY <1>2, <2>2 DEF BeginCreateOrder
  <2> QED
    BY <1>2, <2>3 DEF BeginCreateOrder
<1>3. ASSUME NEW o \in Orders, create[o] # None,
             NEW i \in DOMAIN create[o].cart, FetchLine(o, i)
      PROVE TypeOK'
  <2> DEFINE cartLine == create[o].cart[i]
             product  == catalog[cartLine.productId]
             item     == Snapshot(i, cartLine, product)
             rest     == create[o].pending \ {i}
  <2>1. create[o] \in Creation
    BY <1>3
  <2>2. cartLine \in CartLine /\ i \in Nat
    BY <2>1, <1>3 DEF Creation
  <2>3. product \in Product
    BY <2>2, <1>3 DEF FetchLine, InStock, CartLine
  <2>4. item \in OrderLine
    <3>1. product.price \in Nat /\ cartLine.quantity \in Nat
      BY <2>2, <2>3 DEF Product, CartLine
    <3>2. product.price * cartLine.quantity \in Nat
      BY <3>1
    <3> QED
      BY <2>2, <3>1, <3>2 DEF Snapshot, OrderLine, CartLine
  <2>5. AddToTotal(create[o], item) \in Nat
    BY <2>1, <2>4 DEF AddToTotal, Creation, OrderLine
  <2>6. [create[o] EXCEPT !.pending = rest, !.lines = @ \cup {item},
            !.totalAmount = AddToTotal(create[o], item),
            !.step = IF rest = {} THEN "saving" ELSE "fetching"] \in Creation
    BY <2>1, <2>4, <2>5 DEF Creation
  <2>7. create' \in [Orders -> Creation \cup {None}]
    BY <1>3, <2>6 DEF FetchLine
  <2> QED
    BY <1>3, <2>7 DEF FetchLine
<1>4. ASSUME NEW o \in Orders, NEW i, RejectLine(o, i) PROVE TypeOK'
  BY <1>4 DEF RejectLine, Rollback
<1>5. ASSUME NEW o \in Orders, FailCreateOrder(o) \/ RejectTotal(o) PROVE TypeOK'
  BY <1>5 DEF FailCreateOrder, RejectTotal, Rollback
<1>6. ASSUME NEW o \in Orders, CommitOrder(o) PROVE TypeOK'
  <2>1. create[o] \in Creation
    BY <1>6 DEF CommitOrder
  <2>2. NewOrder(create[o]) \in OrderRow
    BY <2>1 DEF NewOrder, OrderRow, Creation, OrderStatuses
  <2>3. { [orderId |-> o, item |-> l] : l \in create[o].lines } \subseteq ItemRow
    BY <2>1 DEF ItemRow, Creation
  <2>4. [create[o] EXCEPT !.step = "emit"] \in Creation
    BY <2>1 DEF Creation
  <2> QED
    BY <1>6, <2>2, <2>3, <2>4 DEF CommitOrder
<1>7. ASSUME NEW o \in Orders, EmitOrderCreated(o) PROVE TypeOK'
  <2>1. create[o] \in Creation
    BY <1>7 DEF EmitOrderCreated
  <2>2. [ orderId |-> o, buyerId |-> create[o].buyer,
          totalAmount |-> create[o].totalAmount ] \in OrderCreated
    BY <2>1 DEF Creation, OrderCreated
  <2> QED
    BY <1>7, <2>2 DEF EmitOrderCreated
<1>8. ASSUME NEW r \in Requests, NEW o \in Orders, NEW op \in Ops,
             NEW buyers, NEW target \in OrderStatuses,
             ChangeStatus(r, op, o, buyers, target)
      PROVE TypeOK'
  <2> DEFINE row     == orderTable[o]
             allowed == /\ row # None
                        /\ row.buyerId \in buyers
                        /\ CanTransition(row.orderStatus, target)
             entity  == IF allowed THEN [row EXCEPT !.orderStatus = target] ELSE None
  <2>1. allowed => entity \in OrderRow
    BY <1>8 DEF OrderRow
  <2>2. [ op |-> op, order |-> o, entity |-> entity,
          step |-> IF allowed THEN "reload" ELSE "refused" ] \in Request
    BY <2>1 DEF Request
  <2> QED
    BY <1>8, <2>2 DEF ChangeStatus
<1>9. ASSUME NEW r \in Requests, NEW o \in Orders, NEW u \in Users,
             CancelMyOrder(r, u, o)
      PROVE TypeOK'
  BY <1>8, <1>9 DEF CancelMyOrder, Ops, OrderStatuses
<1>16. ASSUME NEW r \in Requests, NEW o \in Orders,
              HandlePaymentConfirmed(r, o) \/ HandleFailedPayment(r, o)
       PROVE TypeOK'
  BY <1>8, <1>16 DEF HandlePaymentConfirmed, HandleFailedPayment, Ops, OrderStatuses
<1>10. ASSUME NEW r \in Requests, NEW o \in Orders, NEW u \in Users, BeginDelete(r, u, o)
       PROVE TypeOK'
  BY <1>10 DEF BeginDelete, Request, Ops
<1>11. ASSUME NEW r \in Requests, Reload(r) PROVE TypeOK'
  <2>1. /\ request[r] \in Request
        /\ request[r].step = "reload"
        /\ request[r].entity \in OrderRow
    BY <1>11 DEF Reload, Request
  <2>2. ASSUME NEW step \in { "insert", "update" }
        PROVE [request[r] EXCEPT !.step = step] \in Request
    BY <2>1 DEF Request
  <2>3. [request[r] EXCEPT !.step = "ok", !.entity = None] \in Request
    BY <2>1 DEF Request
  <2>4. \/ \E step \in { "insert", "update" } :
              request' = [request EXCEPT ![r] = [@ EXCEPT !.step = step]]
        \/ request' = [request EXCEPT ![r] = [@ EXCEPT !.step = "ok", !.entity = None]]
    BY <1>11, <2>1, NoneAssumption, ZenonT(30) DEF Reload
  <2> QED
    BY <1>11, <2>2, <2>3, <2>4 DEF Reload
<1>12. ASSUME NEW r \in Requests, Update(r) \/ Insert(r) PROVE TypeOK'
  <2>1. request[r] \in Request /\ request[r].order \in Orders
    BY <1>12 DEF Update, Insert, Request
  <2>2. request' \in [Requests -> Request \cup {None}]
    BY <1>12, <2>1 DEF Update, Insert, Goto, Request
  <2>3. ASSUME request[r].step \in { "update", "insert" }
        PROVE request[r].entity \in OrderRow
    BY <2>1, <2>3 DEF Request
  <2>4. orderTable' \in [Orders -> OrderRow \cup {None}]
    BY <1>12, <2>1, <2>3 DEF Update, Insert, OrderRow
  <2> QED
    BY <1>12, <2>2, <2>4 DEF Update, Insert
<1>13. ASSUME NEW r \in Requests, DeleteOrder(r) PROVE TypeOK'
  <2>1. request[r] \in Request /\ request[r].order \in Orders
    BY <1>13 DEF DeleteOrder, Request
  <2>2. request' \in [Requests -> Request \cup {None}]
    BY <1>13, <2>1 DEF DeleteOrder, Goto, Request
  <2> QED
    BY <1>13, <2>1, <2>2 DEF DeleteOrder
<1>14. CASE Crash
  BY <1>14 DEF Crash
<1>15. CASE UNCHANGED vars
  BY <1>15 DEF vars
<1> HIDE DEF TypeOK
<1>17. ASSUME NEW o \in Orders, create[o] # None, CreateStep(o) PROVE TypeOK'
  BY <1>3, <1>4, <1>5, <1>6, <1>7, <1>17 DEF CreateStep
<1>18. ASSUME NEW r \in Requests, NEW o \in Orders, Arrive(r, o) PROVE TypeOK'
  BY <1>9, <1>10, <1>16, <1>18 DEF Arrive
<1>19. ASSUME NEW r \in Requests, RequestStep(r) PROVE TypeOK'
  BY <1>11, <1>12, <1>13, <1>19 DEF RequestStep
<1> QED
  BY <1>1, <1>2, <1>5, <1>14, <1>15, <1>17, <1>18, <1>19 DEF Next

\* Every value the tables, the messages and the handlers' local variables take
\* has its type: what createOrder and the status handlers compute fits the
\* entities of apps/order-service/src/entities.
THEOREM TypeCorrect == Spec => []TypeOK
<1>1. Init => TypeOK
  BY AmountsAssumption DEF Init, TypeOK
<1>2. TypeOK /\ [Next]_vars => TypeOK'
  BY TypeIsKept
<1> QED
  BY <1>1, <1>2, PTL DEF Spec

\* Database ids are fresh: rows, entities and deletions only ever belong to an
\* order whose createOrder has committed, and no createOrder commits twice.
THEOREM FreshIds == Spec => []IdsAreFresh
<1>1. Init => IdsAreFresh
  BY DEF Init, IdsAreFresh, Stored
<1>2. TypeOK /\ IdsAreFresh /\ [Next]_vars => IdsAreFresh'
  <2> SUFFICES ASSUME TypeOK, IdsAreFresh, [Next]_vars PROVE IdsAreFresh'
    OBVIOUS
  <2> USE DEF TypeOK, IdsAreFresh, Stored
  <2>1. ASSUME NEW p \in Products, SellerEdits(p) PROVE IdsAreFresh'
    BY <2>1 DEF SellerEdits
  <2>2. ASSUME NEW o \in Orders, NEW u \in Users, NEW cart \in Carts,
               BeginCreateOrder(o, u, cart)
        PROVE IdsAreFresh'
    BY <2>2 DEF BeginCreateOrder
  <2>3. ASSUME NEW o \in Orders, NEW i, FetchLine(o, i) PROVE IdsAreFresh'
    <3>1. /\ create[o] # None /\ create[o] \in Creation /\ create[o].step = "fetching"
          /\ UNCHANGED << orderTable, request, placed, deleted >>
      BY <2>3 DEF FetchLine
    <3>2. \A x \in Orders \ {o} : create'[x] = create[x]
      BY <2>3 DEF FetchLine
    <3>3. create'[o].step \in { "saving", "fetching" }
      BY <2>3, <3>1 DEF FetchLine, Creation
    <3> QED
      BY <3>1, <3>2, <3>3
  <2>4. ASSUME NEW o \in Orders, NEW i, RejectLine(o, i) PROVE IdsAreFresh'
    BY <2>4 DEF RejectLine, Rollback
  <2>5. ASSUME NEW o \in Orders, FailCreateOrder(o) \/ RejectTotal(o) PROVE IdsAreFresh'
    BY <2>5 DEF FailCreateOrder, RejectTotal, Rollback
  <2>6. ASSUME NEW o \in Orders, CommitOrder(o) PROVE IdsAreFresh'
    BY <2>6 DEF CommitOrder, Creation
  <2>7. ASSUME NEW o \in Orders, EmitOrderCreated(o) PROVE IdsAreFresh'
    BY <2>7 DEF EmitOrderCreated
  <2>8. ASSUME NEW r \in Requests, NEW o \in Orders, Arrive(r, o) PROVE IdsAreFresh'
    BY <2>8 DEF Arrive, CancelMyOrder, HandlePaymentConfirmed, HandleFailedPayment,
                ChangeStatus, BeginDelete
  <2>9. ASSUME NEW r \in Requests, Reload(r) PROVE IdsAreFresh'
    BY <2>9 DEF Reload, Request
  <2>10. ASSUME NEW r \in Requests, Update(r) PROVE IdsAreFresh'
    BY <2>10 DEF Update, Goto, Request
  <2>11. ASSUME NEW r \in Requests, Insert(r) PROVE IdsAreFresh'
    BY <2>11 DEF Insert, Goto, Request
  <2>12. ASSUME NEW r \in Requests, DeleteOrder(r) PROVE IdsAreFresh'
    BY <2>12 DEF DeleteOrder, Goto, Request
  <2>13. CASE Crash
    BY <2>13 DEF Crash
  <2>14. CASE UNCHANGED vars
    BY <2>14 DEF vars
  <2> HIDE DEF TypeOK, IdsAreFresh, Stored
  <2> QED
    BY <2>1, <2>2, <2>3, <2>4, <2>5, <2>6, <2>7, <2>8, <2>9, <2>10, <2>11, <2>12,
       <2>13, <2>14
       DEF Next, CreateStep, RequestStep
<1> QED
  BY <1>1, <1>2, TypeCorrect, PTL DEF Spec

\* What lies behind the status properties: only cancellations reach save, so
\* no row leaves PENDING and CANCELLED and no cancelled row is overwritten.
THEOREM OnlyCancellationsAreSaved == Spec => []StatusInv
<1>1. Init => StatusInv
  BY DEF Init, TypeOK, IdsAreFresh, StatusInv, EntitiesAreCancelled, FulfilmentUnreachable, CancelReplyHolds, Stored
<1>2. TypeOK /\ IdsAreFresh /\ StatusInv /\ [Next]_vars => StatusInv'
  <2> SUFFICES ASSUME TypeOK, IdsAreFresh, StatusInv, [Next]_vars PROVE StatusInv'
    OBVIOUS
  <2> USE DEF TypeOK, IdsAreFresh, StatusInv, EntitiesAreCancelled, FulfilmentUnreachable, CancelReplyHolds, Stored
  <2>1. ASSUME NEW p \in Products, SellerEdits(p) PROVE StatusInv'
    BY <2>1 DEF SellerEdits
  <2>2. ASSUME NEW o \in Orders, NEW u \in Users, NEW cart \in Carts,
               BeginCreateOrder(o, u, cart)
        PROVE StatusInv'
    BY <2>2 DEF BeginCreateOrder
  <2>3. ASSUME NEW o \in Orders, NEW i, FetchLine(o, i) PROVE StatusInv'
    BY <2>3 DEF FetchLine
  <2>4. ASSUME NEW o \in Orders, NEW i, RejectLine(o, i) PROVE StatusInv'
    BY <2>4 DEF RejectLine, Rollback
  <2>5. ASSUME NEW o \in Orders, FailCreateOrder(o) \/ RejectTotal(o) PROVE StatusInv'
    BY <2>5 DEF FailCreateOrder, RejectTotal, Rollback
  <2>6. ASSUME NEW o \in Orders, CommitOrder(o) PROVE StatusInv'
    BY <2>6 DEF CommitOrder, NewOrder
  <2>7. ASSUME NEW o \in Orders, EmitOrderCreated(o) PROVE StatusInv'
    BY <2>7 DEF EmitOrderCreated
  <2>8. ASSUME NEW r \in Requests, NEW o \in Orders, Arrive(r, o) PROVE StatusInv'
    <3>1. ASSUME NEW op \in Ops, NEW buyers, ChangeStatus(r, op, o, buyers, "CANCELLED")
          PROVE StatusInv'
      BY <3>1 DEF ChangeStatus
    <3>2. ASSUME NEW op \in Ops, NEW buyers,
                 ChangeStatus(r, op, o, buyers, "PAYMENT_CONFIRMED")
          PROVE StatusInv'
      <4>1. ~(orderTable[o] # None
              /\ CanTransition(orderTable[o].orderStatus, "PAYMENT_CONFIRMED"))
        BY DEF CanTransition, ValidTransitions
      <4>2. /\ request' = [request EXCEPT ![r] = [op |-> op, order |-> o,
                              step |-> "refused", entity |-> None]]
            /\ UNCHANGED orderTable
        BY <3>2, <4>1 DEF ChangeStatus
      <4> QED
        BY <4>2
    <3>3. ASSUME NEW u \in Users, BeginDelete(r, u, o) PROVE StatusInv'
      BY <3>3 DEF BeginDelete
    <3> HIDE DEF TypeOK, IdsAreFresh, StatusInv
    <3> QED
      BY <2>8, <3>1, <3>2, <3>3
         DEF Arrive, CancelMyOrder, HandlePaymentConfirmed, HandleFailedPayment, Ops
  <2>9. ASSUME NEW r \in Requests, Reload(r) PROVE StatusInv'
    <3>1. /\ request[r] \in Request
          /\ request[r] # None /\ request[r].entity # None
          /\ orderTable' = orderTable
          /\ \A x \in Requests \ {r} : request'[x] = request[x]
      BY <2>9, NoneAssumption DEF Reload, Request
    <3>2. /\ request'[r].op = request[r].op
          /\ request'[r].order = request[r].order
          /\ \/ /\ request'[r].step \in { "insert", "update" }
                /\ request'[r].entity = request[r].entity
             \/ /\ request'[r].entity = None
                /\ orderTable[request[r].order] = request[r].entity
      BY <2>9, <3>1 DEF Reload, Request
    <3>3. EntitiesAreCancelled'
      BY <3>1, <3>2
    <3>4. FulfilmentUnreachable'
      BY <3>1
    <3>5. CancelReplyHolds'
      BY <3>1, <3>2
    <3> QED
      BY <3>3, <3>4, <3>5
  <2>10. ASSUME NEW r \in Requests, Update(r) PROVE StatusInv'
    <3> DEFINE o == request[r].order
    <3>1. /\ request[r] # None
          /\ request[r].entity # None
          /\ request[r].entity.orderStatus = "CANCELLED"
          /\ o \in Orders
      BY <2>10, NoneAssumption DEF Update, Request
    <3>2. /\ orderTable[o] = None => orderTable' = orderTable
          /\ orderTable[o] # None =>
                orderTable' = [orderTable EXCEPT ![o].orderStatus = "CANCELLED"]
      BY <2>10, <3>1 DEF Update
    <3>3. /\ \A x \in Orders : x # o => orderTable'[x] = orderTable[x]
          /\ orderTable[o] = None => orderTable'[o] = None
          /\ orderTable[o] # None => orderTable'[o].orderStatus = "CANCELLED"
      BY <3>1, <3>2 DEF OrderRow
    <3>4. request' = [request EXCEPT ![r] = [request[r] EXCEPT !.step = "ok", !.entity = None]]
      BY <2>10 DEF Update, Goto
    <3>5. EntitiesAreCancelled'
      BY <3>1, <3>4 DEF Request
    <3>6. FulfilmentUnreachable'
      BY <3>3
    <3>7. CancelReplyHolds'
      <4>1. ASSUME NEW q \in Requests, request'[q] # None,
                   request'[q].op \in { "cancel", "fail" }, request'[q].step = "ok",
                   orderTable'[request'[q].order] # None
            PROVE orderTable'[request'[q].order].orderStatus = "CANCELLED"
        <5>1. CASE q = r
          BY <3>1, <3>3, <3>4, <4>1, <5>1 DEF Request
        <5>2. CASE q # r
          <6>1. request'[q] = request[q] /\ request[q].order \in Orders
            BY <3>4, <4>1, <5>2 DEF Request
          <6> QED
            BY <3>1, <3>3, <4>1, <6>1
        <5> QED
          BY <5>1, <5>2
      <4> QED
        BY <4>1
    <3> QED
      BY <3>5, <3>6, <3>7
  <2>11. ASSUME NEW r \in Requests, Insert(r) PROVE StatusInv'
    BY <2>11 DEF Insert, Goto, Request
  <2>12. ASSUME NEW r \in Requests, DeleteOrder(r) PROVE StatusInv'
    BY <2>12 DEF DeleteOrder, Goto, Request
  <2>13. CASE Crash
    BY <2>13 DEF Crash
  <2>14. CASE UNCHANGED vars
    BY <2>14 DEF vars
  <2> HIDE DEF TypeOK, IdsAreFresh, StatusInv, EntitiesAreCancelled, FulfilmentUnreachable, CancelReplyHolds, Stored
  <2> QED
    BY <2>1, <2>2, <2>3, <2>4, <2>5, <2>6, <2>7, <2>8, <2>9, <2>10, <2>11, <2>12,
       <2>13, <2>14
       DEF Next, CreateStep, RequestStep
<1> QED
  BY <1>1, <1>2, TypeCorrect, FreshIds, PTL DEF Spec

\* Every confirmation is refused: in no execution does an order get beyond
\* PENDING and CANCELLED (VALID_TRANSITIONS against the targets the service
\* asks for).
THEOREM ConfirmationUnreachable == Spec => []FulfilmentUnreachable
<1>1. StatusInv => FulfilmentUnreachable
  BY DEF StatusInv
<1> QED
  BY <1>1, OnlyCancellationsAreSaved, PTL

\* What cancelMyOrder and handleFailedPayment answered stays true.
THEOREM CancellationIsFinal == Spec => []CancelReplyHolds
<1>1. StatusInv => CancelReplyHolds
  BY DEF StatusInv
<1> QED
  BY <1>1, OnlyCancellationsAreSaved, PTL

\* Which steps write the table, and which touch the items or the deletions.
LEMMA Writers ==
    ASSUME [Next]_vars
    PROVE  \/ UNCHANGED << orderTable, itemTable, placed, deleted >>
           \/ \E o \in Orders : CommitOrder(o)
           \/ \E r \in Requests : Update(r) \/ Insert(r) \/ DeleteOrder(r)
<1>1. ASSUME NEW o \in Orders, create[o] # None, CreateStep(o)
      PROVE UNCHANGED << orderTable, itemTable, placed, deleted >> \/ CommitOrder(o)
  BY <1>1 DEF CreateStep, FetchLine, RejectLine, RejectTotal, Rollback, EmitOrderCreated
<1>2. ASSUME NEW r \in Requests, NEW o \in Orders, Arrive(r, o)
      PROVE UNCHANGED << orderTable, itemTable, placed, deleted >>
  BY <1>2 DEF Arrive, CancelMyOrder, HandlePaymentConfirmed, HandleFailedPayment,
              ChangeStatus, BeginDelete
<1>3. ASSUME NEW r \in Requests, RequestStep(r)
      PROVE \/ UNCHANGED << orderTable, itemTable, placed, deleted >>
            \/ Update(r) \/ Insert(r) \/ DeleteOrder(r)
  BY <1>3 DEF RequestStep, Reload
<1> QED
  BY <1>1, <1>2, <1>3
     DEF Next, SellerEdits, BeginCreateOrder, FailCreateOrder, Rollback, Crash, vars

\* A step leaves the row of a committed order alone, removes it or cancels it.
LEMMA RowsAreOnlyCancelled ==
    ASSUME TypeOK, IdsAreFresh, StatusInv, [Next]_vars, NEW o \in placed
    PROVE  \/ orderTable'[o] = orderTable[o]
           \/ orderTable'[o] = None
           \/ orderTable'[o].orderStatus = "CANCELLED"
<1> USE DEF TypeOK
<1>1. ASSUME NEW c \in Orders, CommitOrder(c) PROVE orderTable'[o] = orderTable[o]
  BY <1>1 DEF CommitOrder, IdsAreFresh
<1>2. ASSUME NEW r \in Requests, request[r] # None, request[r].step \in { "update", "insert" }
      PROVE /\ request[r].order \in Orders
            /\ request[r].entity \in OrderRow
            /\ request[r].entity.orderStatus = "CANCELLED"
  <2>1. request[r].order \in Orders /\ request[r].entity \in OrderRow
    BY <1>2 DEF Request
  <2> QED
    BY <1>2, <2>1, NoneAssumption DEF StatusInv, EntitiesAreCancelled
<1>3. ASSUME NEW r \in Requests, Update(r)
      PROVE orderTable'[o] = orderTable[o] \/ orderTable'[o].orderStatus = "CANCELLED"
  BY <1>2, <1>3 DEF Update, OrderRow
<1>4. ASSUME NEW r \in Requests, Insert(r)
      PROVE orderTable'[o] = orderTable[o] \/ orderTable'[o].orderStatus = "CANCELLED"
  BY <1>2, <1>4 DEF Insert
<1>5. ASSUME NEW r \in Requests, DeleteOrder(r)
      PROVE orderTable'[o] = orderTable[o] \/ orderTable'[o] = None
  BY <1>5 DEF DeleteOrder, Request
<1> HIDE DEF TypeOK
<1> QED
  BY <1>1, <1>3, <1>4, <1>5, Writers

\* No interleaving of handlers that check against an earlier read makes a
\* stored status change against the transition table.
THEOREM StatusChangesFollowTable == Spec => StatusFollowsTable
<1> DEFINE Follows(o) ==
      (/\ orderTable[o] # None
       /\ orderTable'[o] # None
       /\ orderTable'[o].orderStatus # orderTable[o].orderStatus)
      => CanTransition(orderTable[o].orderStatus, orderTable'[o].orderStatus)
<1>1. TypeOK /\ IdsAreFresh /\ StatusInv /\ [Next]_vars
      => [\A o \in Orders : Follows(o)]_vars
  <2> SUFFICES ASSUME TypeOK, IdsAreFresh, StatusInv, [Next]_vars, NEW o \in Orders,
                      orderTable[o] # None, orderTable'[o] # None,
                      orderTable'[o].orderStatus # orderTable[o].orderStatus
               PROVE CanTransition(orderTable[o].orderStatus, orderTable'[o].orderStatus)
    OBVIOUS
  <2>1. o \in placed
    BY DEF IdsAreFresh, Stored
  <2>2. orderTable'[o].orderStatus = "CANCELLED"
    BY <2>1, RowsAreOnlyCancelled
  <2>3. orderTable[o].orderStatus = "PENDING"
    BY <2>2 DEF StatusInv, FulfilmentUnreachable, Stored
  <2> QED
    BY <2>2, <2>3 DEF CanTransition, ValidTransitions
<1> QED
  BY <1>1, TypeCorrect, FreshIds, OnlyCancellationsAreSaved, PTL DEF Spec, StatusFollowsTable

\* What a late save brings back after a delete is cancelled, and the items of a
\* deleted order are gone for good.
THEOREM DeletionInvariant == Spec => []DeletionInv
<1>1. Init => DeletionInv
  BY DEF Init, DeletionInv, RevivedOrderIsCancelled, DeletedHasNoItems
<1>2. TypeOK /\ IdsAreFresh /\ StatusInv /\ DeletionInv /\ [Next]_vars => DeletionInv'
  <2> SUFFICES ASSUME TypeOK, IdsAreFresh, StatusInv, DeletionInv, [Next]_vars,
                      NEW o \in deleted'
               PROVE /\ Stored(o)' => orderTable'[o].orderStatus = "CANCELLED"
                     /\ ItemsOf(o)' = {}
    BY DEF DeletionInv, RevivedOrderIsCancelled, DeletedHasNoItems
  <2>1. CASE o \in deleted
    <3>1. o \in placed
      BY <2>1 DEF IdsAreFresh
    <3>2. Stored(o)' => orderTable'[o].orderStatus = "CANCELLED"
      BY <2>1, <3>1, RowsAreOnlyCancelled DEF DeletionInv, RevivedOrderIsCancelled, Stored
    <3>3. ItemsOf(o) = {}
      BY <2>1 DEF DeletionInv, DeletedHasNoItems
    <3>4. ASSUME NEW c \in Orders, CommitOrder(c) PROVE ItemsOf(o)' = {}
      <4>1. c # o
        BY <3>1, <3>4 DEF CommitOrder, IdsAreFresh
      <4>2. \A i \in itemTable' : i.orderId = o => i \in itemTable
        BY <3>4, <4>1 DEF CommitOrder
      <4> QED
        BY <3>3, <4>2 DEF ItemsOf
    <3>5. ASSUME NEW r \in Requests, Update(r) \/ Insert(r) \/ DeleteOrder(r)
          PROVE ItemsOf(o)' = {}
      <4>1. itemTable' \subseteq itemTable
        BY <3>5 DEF Update, Insert, DeleteOrder
      <4> QED
        BY <3>3, <4>1 DEF ItemsOf
    <3>6. ASSUME UNCHANGED << orderTable, itemTable, placed, deleted >>
          PROVE ItemsOf(o)' = {}
      BY <3>3, <3>6 DEF ItemsOf
    <3>7. ItemsOf(o)' = {}
      BY <3>4, <3>5, <3>6, Writers
    <3> QED
      BY <3>2, <3>7
  <2>2. CASE o \notin deleted
    <3>1. PICK r \in Requests : DeleteOrder(r)
      BY <2>2, Writers DEF CommitOrder, Update, Insert
    <3>2. o = request[r].order /\ o \in Orders
      BY <2>2, <3>1 DEF DeleteOrder, TypeOK, Request
    <3>3. orderTable'[o] = None
      BY <3>1, <3>2 DEF DeleteOrder, TypeOK
    <3>4. \A i \in itemTable' : i.orderId # o
      BY <3>1, <3>2 DEF DeleteOrder
    <3>5. ItemsOf(o)' = {}
      BY <3>4 DEF ItemsOf
    <3>6. ~Stored(o)'
      BY <3>3 DEF Stored
    <3> QED
      BY <3>5, <3>6
  <2> QED
    BY <2>1, <2>2
<1> QED
  BY <1>1, <1>2, TypeCorrect, FreshIds, OnlyCancellationsAreSaved, PTL DEF Spec

\* An order that cancelMyOrder or handleFailedPayment saves after its deletion
\* is a cancelled one without items: nobody can pay for it or ship it.
THEOREM RevivedOrdersAreCancelled == Spec => []RevivedOrderIsCancelled
<1>1. DeletionInv => RevivedOrderIsCancelled
  BY DEF DeletionInv
<1> QED
  BY <1>1, DeletionInvariant, PTL

\* The buyer and the total of a committed order never change: handlers copy
\* them from the row into their entity and from the entity into the row.
LEMMA AgreementIsStable ==
    ASSUME TypeOK, IdsAreFresh, [Next]_vars, NEW o \in placed, NEW buyer, NEW total,
           Agrees(o, buyer, total)
    PROVE  Agrees(o, buyer, total)'
<1> USE DEF TypeOK, Agrees, Stored
<1>1. ASSUME UNCHANGED << orderTable, request >> PROVE Agrees(o, buyer, total)'
  BY <1>1
<1>2. ASSUME NEW c \in Orders, CommitOrder(c) PROVE Agrees(o, buyer, total)'
  BY <1>2 DEF CommitOrder, IdsAreFresh
<1>3. ASSUME NEW r \in Requests, NEW c \in Orders, NEW op, NEW buyers, NEW target,
             ChangeStatus(r, op, c, buyers, target)
      PROVE Agrees(o, buyer, total)'
  <2>1. ASSUME orderTable[c] # None
        PROVE /\ [orderTable[c] EXCEPT !.orderStatus = target].buyerId = orderTable[c].buyerId
              /\ [orderTable[c] EXCEPT !.orderStatus = target].totalAmount
                     = orderTable[c].totalAmount
    BY <2>1 DEF OrderRow
  <2> QED
    BY <1>3, <2>1 DEF ChangeStatus
<1>4. ASSUME NEW r \in Requests, NEW c \in Orders, NEW u, BeginDelete(r, u, c)
      PROVE Agrees(o, buyer, total)'
  BY <1>4 DEF BeginDelete
<1>5. ASSUME NEW r \in Requests, Reload(r) PROVE Agrees(o, buyer, total)'
  BY <1>5 DEF Reload, Request
<1>6. ASSUME NEW r \in Requests, Update(r) PROVE Agrees(o, buyer, total)'
  BY <1>6 DEF Update, Goto, Request, OrderRow
<1>7. ASSUME NEW r \in Requests, Insert(r) PROVE Agrees(o, buyer, total)'
  <2>1. request[r] \in Request /\ request[r].entity # None
    BY <1>7, NoneAssumption DEF Insert, Request
  <2> QED
    BY <1>7, <2>1 DEF Insert, Goto, Request
<1>8. ASSUME NEW r \in Requests, DeleteOrder(r) PROVE Agrees(o, buyer, total)'
  BY <1>8 DEF DeleteOrder, Goto, Request
<1>9. CASE Crash
  BY <1>9 DEF Crash
<1> HIDE DEF TypeOK, Agrees, Stored
<1>10. ASSUME NEW c \in Orders, create[c] # None, CreateStep(c)
       PROVE UNCHANGED << orderTable, request >> \/ CommitOrder(c)
  BY <1>10 DEF CreateStep, FetchLine, RejectLine, RejectTotal, Rollback, EmitOrderCreated
<1>11. ASSUME NEW r \in Requests, NEW c \in Orders, Arrive(r, c)
       PROVE Agrees(o, buyer, total)'
  BY <1>3, <1>4, <1>11
     DEF Arrive, CancelMyOrder, HandlePaymentConfirmed, HandleFailedPayment
<1> QED
  BY <1>1, <1>2, <1>5, <1>6, <1>7, <1>8, <1>9, <1>10, <1>11
     DEF Next, RequestStep, SellerEdits, BeginCreateOrder, FailCreateOrder, Rollback, vars

\* The rows, the entities of handlers and the announcements agree on the buyer
\* and the total of every committed order.
LEMMA AnnouncementsInvariant == Spec => []AnnouncementsAgree
<1>1. Init => AnnouncementsAgree
  BY DEF Init, AnnouncementsAgree
<1>2. TypeOK /\ IdsAreFresh /\ AnnouncementsAgree /\ [Next]_vars => AnnouncementsAgree'
  <2> SUFFICES ASSUME TypeOK, IdsAreFresh, AnnouncementsAgree, [Next]_vars
               PROVE AnnouncementsAgree'
    OBVIOUS
  <2> DEFINE Message(o) == [ orderId |-> o, buyerId |-> create[o].buyer,
                             totalAmount |-> create[o].totalAmount ]
             Emitting(o) == create[o] # None /\ create[o].step = "emit"
  <2>1. \A m \in orderCreated : m.orderId \in placed /\ m.orderId \in placed'
                                /\ Agrees(m.orderId, m.buyerId, m.totalAmount)'
    <3>1. placed \subseteq placed'
      BY Writers DEF CommitOrder, Update, Insert, DeleteOrder
    <3> QED
      BY <3>1, AgreementIsStable DEF AnnouncementsAgree
  <2>2. ASSUME NEW o \in Orders, Emitting(o), NEW b, NEW t,
               b = create[o].buyer, t = create[o].totalAmount
        PROVE Agrees(o, b, t)'
    BY <2>2, AgreementIsStable DEF AnnouncementsAgree, IdsAreFresh
  <2>3. ASSUME NEW o \in Orders, Emitting(o)'
        PROVE CommitOrder(o) \/ (Emitting(o) /\ create'[o] = create[o])
    <3> USE DEF TypeOK
    <3>1. ASSUME UNCHANGED create PROVE Emitting(o) /\ create'[o] = create[o]
      BY <2>3, <3>1
    <3>2. ASSUME NEW c \in Orders, create[c] # None, CreateStep(c)
          PROVE CommitOrder(o) \/ (Emitting(o) /\ create'[o] = create[o])
      <4>1. ASSUME NEW i, FetchLine(c, i) PROVE c # o /\ create'[o] = create[o]
        <5>1. create[c] # None /\ create[c].step = "fetching"
          BY <4>1 DEF FetchLine
        <5>2. c \in DOMAIN create /\ create'[c].step \in { "saving", "fetching" }
          BY <4>1 DEF FetchLine, Creation
        <5>3. c # o
          BY <2>3, <5>2
        <5>4. create'[o] = create[o]
          BY <4>1, <5>3 DEF FetchLine
        <5> QED
          BY <5>3, <5>4
      <4>2. ASSUME NEW i, RejectLine(c, i) \/ RejectTotal(c) \/ EmitOrderCreated(c)
            PROVE c # o /\ create'[o] = create[o]
        BY <2>3, <4>2 DEF RejectLine, RejectTotal, Rollback, EmitOrderCreated
      <4>3. ASSUME CommitOrder(c), c # o PROVE create'[o] = create[o]
        BY <4>3 DEF CommitOrder
      <4> QED
        BY <2>3, <3>2, <4>1, <4>2, <4>3 DEF CreateStep
    <3>3. ASSUME NEW c \in Orders, NEW u \in Users, NEW cart \in Carts,
                 BeginCreateOrder(c, u, cart)
          PROVE Emitting(o) /\ create'[o] = create[o]
      BY <2>3, <3>3 DEF BeginCreateOrder
    <3>4. ASSUME NEW c \in Orders, FailCreateOrder(c)
          PROVE Emitting(o) /\ create'[o] = create[o]
      BY <2>3, <3>4 DEF FailCreateOrder, Rollback
    <3>5. ~Crash
      BY <2>3 DEF Crash
    <3>6. ASSUME NEW r \in Requests, NEW c \in Orders, Arrive(r, c) PROVE UNCHANGED create
      BY <3>6 DEF Arrive, CancelMyOrder, HandlePaymentConfirmed, HandleFailedPayment,
                  ChangeStatus, BeginDelete
    <3>7. ASSUME NEW r \in Requests, RequestStep(r) PROVE UNCHANGED create
      BY <3>7 DEF RequestStep, Reload, Update, Insert, DeleteOrder
    <3> HIDE DEF TypeOK
    <3> QED
      BY <3>1, <3>2, <3>3, <3>4, <3>5, <3>6, <3>7 DEF Next, SellerEdits, vars
  <2>4. ASSUME NEW m \in orderCreated', m \notin orderCreated
        PROVE \E o \in Orders : EmitOrderCreated(o) /\ m = Message(o)
    <3>1. ASSUME NEW c \in Orders, create[c] # None, CreateStep(c)
          PROVE \E o \in Orders : EmitOrderCreated(o) /\ m = Message(o)
      BY <2>4, <3>1 DEF CreateStep, FetchLine, RejectLine, RejectTotal, Rollback,
                        CommitOrder, EmitOrderCreated
    <3>2. ASSUME NEW r \in Requests, NEW c \in Orders, Arrive(r, c)
          PROVE UNCHANGED orderCreated
      BY <3>2 DEF Arrive, CancelMyOrder, HandlePaymentConfirmed, HandleFailedPayment,
                  ChangeStatus, BeginDelete
    <3>3. ASSUME NEW r \in Requests, RequestStep(r) PROVE UNCHANGED orderCreated
      BY <3>3 DEF RequestStep, Reload, Update, Insert, DeleteOrder
    <3> QED
      BY <2>4, <3>1, <3>2, <3>3
         DEF Next, SellerEdits, BeginCreateOrder, FailCreateOrder, Rollback, Crash, vars
  <2>5. ASSUME NEW o \in Orders, CommitOrder(o),
               NEW b, NEW t, b = create'[o].buyer, t = create'[o].totalAmount
        PROVE Agrees(o, b, t)' /\ \A m \in orderCreated' : m.orderId # o
    <3>1. o \notin placed /\ create[o] \in Creation
      BY <2>5 DEF CommitOrder, IdsAreFresh, TypeOK
    <3>2. b = create[o].buyer /\ t = create[o].totalAmount
      BY <2>5, <3>1 DEF CommitOrder, TypeOK, Creation
    <3>3. orderTable'[o].buyerId = b /\ orderTable'[o].totalAmount = t
      BY <2>5, <3>2 DEF CommitOrder, NewOrder, TypeOK
    <3>4. \A r \in Requests : request'[r] # None => request'[r].order # o
      BY <2>5, <3>1 DEF CommitOrder, IdsAreFresh
    <3>5. \A m \in orderCreated' : m.orderId # o
      BY <2>5, <3>1 DEF CommitOrder, AnnouncementsAgree
    <3> QED
      BY <3>3, <3>4, <3>5 DEF Agrees
  <2>6. ASSUME NEW m \in orderCreated'
        PROVE m.orderId \in placed' /\ Agrees(m.orderId, m.buyerId, m.totalAmount)'
    <3>1. ASSUME NEW o \in Orders, EmitOrderCreated(o), m = Message(o)
          PROVE m.orderId \in placed' /\ Agrees(m.orderId, m.buyerId, m.totalAmount)'
      <4>1. o \in placed' /\ Emitting(o)
        BY <3>1 DEF EmitOrderCreated, IdsAreFresh
      <4> QED
        BY <2>2, <3>1, <4>1
    <3> QED
      BY <2>1, <2>4, <3>1
  <2>7. ASSUME NEW m \in orderCreated', NEW n \in orderCreated', m.orderId = n.orderId
        PROVE m = n
    <3>1. ASSUME NEW o \in Orders, EmitOrderCreated(o)
          PROVE \A x \in orderCreated : x.orderId # o
      BY <3>1 DEF EmitOrderCreated, AnnouncementsAgree
    <3>2. CASE m \in orderCreated /\ n \in orderCreated
      BY <2>7, <3>2 DEF AnnouncementsAgree
    <3>3. CASE m \in orderCreated /\ n \notin orderCreated
      BY <2>4, <2>7, <3>1, <3>3
    <3>4. CASE m \notin orderCreated /\ n \in orderCreated
      BY <2>4, <2>7, <3>1, <3>4
    <3>5. CASE m \notin orderCreated /\ n \notin orderCreated
      BY <2>4, <2>7, <3>5
    <3> QED
      BY <3>2, <3>3, <3>4, <3>5
  <2>8. ASSUME NEW o \in Orders, Emitting(o)',
               NEW b, NEW t, b = create'[o].buyer, t = create'[o].totalAmount
        PROVE Agrees(o, b, t)' /\ \A m \in orderCreated' : m.orderId # o
    <3>1. CASE CommitOrder(o)
      BY <2>5, <2>8, <3>1
    <3>2. CASE Emitting(o) /\ create'[o] = create[o]
      <4>1. Agrees(o, b, t)'
        BY <2>2, <2>8, <3>2
      <4>2. \A m \in orderCreated : m.orderId # o
        BY <3>2 DEF AnnouncementsAgree
      <4>3. ~EmitOrderCreated(o)
        BY <2>8 DEF EmitOrderCreated, TypeOK
      <4> QED
        BY <2>4, <4>1, <4>2, <4>3
    <3> QED
      BY <2>3, <2>8, <3>1, <3>2
  <2> QED
    BY <2>6, <2>7, <2>8 DEF AnnouncementsAgree
<1> QED
  BY <1>1, <1>2, TypeCorrect, FreshIds, PTL DEF Spec

\* An announcement on order.created is about a committed order, agrees with
\* its row, and is the only one for it.
THEOREM AnnouncementsAreTrue == Spec => []AnnouncedOrderIsCommitted
<1>1. AnnouncementsAgree => AnnouncedOrderIsCommitted
  BY DEF AnnouncementsAgree, AnnouncedOrderIsCommitted, Agrees
<1> QED
  BY <1>1, AnnouncementsInvariant, PTL

-------------------------------------------------------------------------------
(***************************************************************************)
(* Sums over finite sets of order lines.  Total is the fold MapThenSumSet, *)
(* which is defined through a recursive function on the subsets of its     *)
(* argument.  Induction goes by a smallest counterexample: the subset      *)
(* ordering of a finite set is well founded.                               *)
(***************************************************************************)

\* The element a fold takes out of a set, and the functions a fold is read off.
First(s) == CHOOSE x \in s : TRUE

Adds(sum, S) ==
    sum = [s \in SUBSET S |->
              IF s = {} THEN 0 ELSE First(s).subTotal + sum[s \ {First(s)}]]

Partial(S) == CHOOSE sum : Adds(sum, S)

\* A collection of finite sets has a smallest one: induction over finite sets.
LEMMA SmallestSet ==
    ASSUME NEW U, NEW T, T \subseteq SUBSET U, T # {}, IsFiniteSet(U)
    PROVE  \E x \in T : \A y \in SUBSET x : y # x => y \notin T
<1>1. IsWellFoundedOn(StrictSubsetOrdering(U), FiniteSubsetsOf(U))
  BY FS_StrictSubsetOrderingWellFounded
<1>2. T \subseteq FiniteSubsetsOf(U)
  BY FS_FiniteSubsetsOfFinite
<1>3. \E x \in T : \A y \in T : ~ (<<y, x>> \in StrictSubsetOrdering(U))
  BY <1>1, <1>2, WFMin
<1> QED
  BY <1>3 DEF StrictSubsetOrdering, FiniteSubsetsOf

LEMMA FirstIsIn == ASSUME NEW s, s # {}
                   PROVE  First(s) \in s /\ s \ {First(s)} \in SUBSET s /\ s \ {First(s)} # s
  BY DEF First

Unfolds(sum, S) ==
    /\ sum[{}] = 0
    /\ \A s \in SUBSET S : s # {} => sum[s] = First(s).subTotal + sum[s \ {First(s)}]

LEMMA Unfold == ASSUME NEW S, NEW sum, Adds(sum, S) PROVE Unfolds(sum, S)
<1>1. sum = [s \in SUBSET S |->
              IF s = {} THEN 0 ELSE First(s).subTotal + sum[s \ {First(s)}]]
  BY DEF Adds
<1>2. \A s \in SUBSET S : sum[s] =
              IF s = {} THEN 0 ELSE First(s).subTotal + sum[s \ {First(s)}]
  BY <1>1, Zenon
<1> QED
  BY <1>2 DEF Unfolds

LEMMA PartialSumsAgree ==
    ASSUME NEW W, NEW V \in SUBSET W, IsFiniteSet(W), NEW g, NEW h, Adds(g, W), Adds(h, V)
    PROVE  \A s \in SUBSET V : g[s] = h[s]
<1> DEFINE T == { s \in SUBSET V : g[s] # h[s] }
<1>1. SUFFICES ASSUME T # {} PROVE FALSE
  OBVIOUS
<1>2. IsFiniteSet(V)
  BY FS_Subset
<1>3. PICK s \in T : \A y \in SUBSET s : y # s => y \notin T
  <2>1. T \subseteq SUBSET V
    OBVIOUS
  <2> HIDE DEF T
  <2> QED
    BY <2>1, <1>1, <1>2, SmallestSet
<1>4. /\ g[{}] = 0
      /\ \A x \in SUBSET W : x # {} => g[x] = First(x).subTotal + g[x \ {First(x)}]
  <2>1. Unfolds(g, W)
    BY Unfold
  <2> QED
    BY <2>1 DEF Unfolds
<1>5. /\ h[{}] = 0
      /\ \A x \in SUBSET V : x # {} => h[x] = First(x).subTotal + h[x \ {First(x)}]
  <2>1. Unfolds(h, V)
    BY Unfold
  <2> QED
    BY <2>1 DEF Unfolds
<1>7. s \in SUBSET V /\ s \in SUBSET W /\ s # {} /\ g[s] # h[s]
  BY <1>4, <1>5
<1>6. g[s \ {First(s)}] = h[s \ {First(s)}]
  BY <1>3, <1>7, FirstIsIn
<1> QED
  BY <1>4, <1>5, <1>6, <1>7

LEMMA PartialSumsExist ==
    ASSUME NEW S, IsFiniteSet(S)
    PROVE  Adds(Partial(S), S)
<1> DEFINE T == { W \in SUBSET S : ~ Adds(Partial(W), W) }
<1>1. SUFFICES ASSUME T # {} PROVE FALSE
  OBVIOUS
<1>2. PICK W \in T : \A V \in SUBSET W : V # W => V \notin T
  <2>1. T \subseteq SUBSET S
    OBVIOUS
  <2> HIDE DEF T
  <2> QED
    BY <2>1, <1>1, SmallestSet
<1>3. ASSUME NEW V \in SUBSET W, V # W
      PROVE  IsFiniteSet(V) /\ Adds(Partial(V), V)
  BY <1>2, <1>3, FS_Subset
<1> DEFINE sum == [s \in SUBSET W |->
              IF s = {} THEN 0
              ELSE First(s).subTotal + Partial(s \ {First(s)})[s \ {First(s)}]]
<1>4. ASSUME NEW s \in SUBSET W, s # {}
      PROVE  sum[s \ {First(s)}] = Partial(s \ {First(s)})[s \ {First(s)}]
  <2> DEFINE r == s \ {First(s)}
  <2>1. r \in SUBSET W /\ r # W
    BY <1>4, FirstIsIn
  <2>2. IsFiniteSet(r) /\ Adds(Partial(r), r)
    BY <1>3, <2>1
  <2>3. CASE r = {}
    <3>1. sum[r] = 0
      BY <2>3
    <3> QED
      BY <2>2, <2>3, <3>1, Unfold DEF Unfolds
  <2>4. CASE r # {}
    <3> DEFINE q == r \ {First(r)}
    <3>1. q \in SUBSET r /\ q \in SUBSET W /\ q # W
      BY <2>1, <2>4, FirstIsIn
    <3>2. Adds(Partial(q), q)
      BY <1>3, <3>1
    <3>3. q \in SUBSET q
      OBVIOUS
    <3>4. Partial(r)[q] = Partial(q)[q]
      BY <2>2, <3>1, <3>2, <3>3, PartialSumsAgree
    <3>5. sum[r] = First(r).subTotal + Partial(q)[q]
      BY <2>1, <2>4
    <3>6. Partial(r)[r] = First(r).subTotal + Partial(r)[q]
      <4>1. \A x \in SUBSET r : x # {} =>
                Partial(r)[x] = First(x).subTotal + Partial(r)[x \ {First(x)}]
        <5> HIDE DEF r, sum
        <5> QED
          BY <2>2, Unfold DEF Unfolds
      <4>2. r \in SUBSET r
        OBVIOUS
      <4> QED
        BY <2>4, <4>1, <4>2
    <3> QED
      BY <3>4, <3>5, <3>6
  <2> QED
    BY <2>3, <2>4
<1>5. \A s \in SUBSET W : s # {} =>
          sum[s] = First(s).subTotal + sum[s \ {First(s)}]
  BY <1>4
<1>6. sum[{}] = 0
  OBVIOUS
<1>7. Adds(sum, W)
  <2> DEFINE other == [s \in SUBSET W |->
              IF s = {} THEN 0 ELSE First(s).subTotal + sum[s \ {First(s)}]]
  <2>1. \A s \in SUBSET W : sum[s] = other[s]
    BY <1>5, <1>6
  <2>2. sum = other
    BY <2>1
  <2> QED
    BY <2>2 DEF Adds
<1>8. \E g : Adds(g, W)
  BY <1>7
<1>9. Adds(Partial(W), W)
  BY <1>8 DEF Partial
<1> QED
  BY <1>2, <1>9

LEMMA TotalUnfolds ==
    /\ Total({}) = 0
    /\ \A S : IsFiniteSet(S) /\ S # {} =>
           Total(S) = First(S).subTotal + Total(S \ {First(S)})
<1>1. ASSUME NEW S PROVE Total(S) = Partial(S)[S]
  BY DEF Total, MapThenSumSet, MapThenFoldSet, Partial, Adds, First
<1>2. Adds(Partial({}), {})
  BY FS_EmptySet, PartialSumsExist
<1>3. Total({}) = 0
  BY <1>1, <1>2, Unfold DEF Unfolds
<1>4. ASSUME NEW S, IsFiniteSet(S), S # {}
      PROVE  Total(S) = First(S).subTotal + Total(S \ {First(S)})
  <2> DEFINE R == S \ {First(S)}
  <2>1. R \in SUBSET S /\ IsFiniteSet(R) /\ S \in SUBSET S /\ R \in SUBSET R
    BY <1>4, FS_RemoveElement
  <2>2. Adds(Partial(S), S) /\ Adds(Partial(R), R)
    BY <1>4, <2>1, PartialSumsExist
  <2>3. Partial(S)[R] = Partial(R)[R]
    <3>1. ASSUME NEW V \in SUBSET S, Adds(Partial(V), V)
          PROVE  \A s \in SUBSET V : Partial(S)[s] = Partial(V)[s]
      BY <1>4, <2>2, <3>1, PartialSumsAgree
    <3>2. \A s \in SUBSET R : Partial(S)[s] = Partial(R)[s]
      <4> HIDE DEF R
      <4> QED
        BY <2>1, <2>2, <3>1
    <3> QED
      BY <2>1, <3>2
  <2>4. \A x \in SUBSET S : x # {} =>
                Partial(S)[x] = First(x).subTotal + Partial(S)[x \ {First(x)}]
    BY <2>2, Unfold DEF Unfolds
  <2>5. Partial(S)[S] = First(S).subTotal + Partial(S)[R]
    BY <1>4, <2>1, <2>4
  <2> QED
    BY <1>1, <2>3, <2>5
<1> QED
  BY <1>3, <1>4

\* The sum of natural numbers is one.
LEMMA TotalIsNat ==
    ASSUME NEW S, IsFiniteSet(S), \A x \in S : x.subTotal \in Nat
    PROVE  Total(S) \in Nat
<1> DEFINE T == { W \in SUBSET S : Total(W) \notin Nat }
<1>1. SUFFICES ASSUME T # {} PROVE FALSE
  BY <1>1
<1>2. PICK W \in T : \A V \in SUBSET W : V # W => V \notin T
  <2>1. T \subseteq SUBSET S
    OBVIOUS
  <2> HIDE DEF T
  <2> QED
    BY <2>1, <1>1, SmallestSet
<1>3. W \in SUBSET S /\ IsFiniteSet(W) /\ W # {} /\ Total(W) \notin Nat
  <2>1. W \in SUBSET S /\ Total(W) \notin Nat
    OBVIOUS
  <2>2. W # {}
    <3>1. Total({}) \in Nat
      BY TotalUnfolds
    <3> QED
      BY <2>1, <3>1
  <2>3. IsFiniteSet(W)
    BY <2>1, FS_Subset
  <2> QED
    BY <2>1, <2>2, <2>3
<1>4. First(W) \in S /\ W \ {First(W)} \in SUBSET W /\ W \ {First(W)} # W
  BY <1>3, FirstIsIn
<1>5. Total(W \ {First(W)}) \in Nat
  BY <1>2, <1>3, <1>4
<1>6. Total(W) = First(W).subTotal + Total(W \ {First(W)})
  BY <1>3, TotalUnfolds
<1> QED
  BY <1>3, <1>4, <1>5, <1>6

\* The order of the additions does not matter.
LEMMA TotalOfRest ==
    ASSUME NEW S, IsFiniteSet(S), \A x \in S : x.subTotal \in Nat
    PROVE  \A x \in S : Total(S) = x.subTotal + Total(S \ {x})
<1> DEFINE T == { W \in SUBSET S : \E x \in W : Total(W) # x.subTotal + Total(W \ {x}) }
<1>1. SUFFICES ASSUME T # {} PROVE FALSE
  BY <1>1
<1>2. PICK W \in T : \A V \in SUBSET W : V # W => V \notin T
  <2>1. T \subseteq SUBSET S
    OBVIOUS
  <2> HIDE DEF T
  <2> QED
    BY <2>1, <1>1, SmallestSet
<1>3. PICK x \in W : Total(W) # x.subTotal + Total(W \ {x})
  OBVIOUS
<1> DEFINE c == First(W)
           Wc == W \ {c}
           Wx == W \ {x}
           Wcx == Wc \ {x}
<1>4. W \in SUBSET S /\ IsFiniteSet(W) /\ W # {}
  BY <1>3, FS_Subset
<1>5. c \in W /\ Total(W) = c.subTotal + Total(Wc)
  BY <1>4, FirstIsIn, TotalUnfolds
<1>6. c # x
  BY <1>3, <1>5
<1>7. /\ Wc \in SUBSET W /\ Wc # W /\ x \in Wc
      /\ Wx \in SUBSET W /\ Wx # W /\ c \in Wx
      /\ Wx \ {c} = Wcx
  BY <1>5, <1>6
<1>8. Total(Wc) = x.subTotal + Total(Wcx)
  <2>1. Wc \in SUBSET S /\ Wc \notin T
    BY <1>2, <1>4, <1>7
  <2> QED
    BY <1>7, <2>1
<1>9. Total(Wx) = c.subTotal + Total(Wcx)
  <2>1. Wx \in SUBSET S /\ Wx \notin T
    BY <1>2, <1>4, <1>7
  <2> QED
    BY <1>7, <2>1
<1>10. c.subTotal \in Nat /\ x.subTotal \in Nat /\ Total(Wcx) \in Nat
  <2>1. IsFiniteSet(Wcx) /\ Wcx \in SUBSET S
    BY <1>4, FS_Subset
  <2>2. c \in S /\ x \in S
    BY <1>4, <1>5
  <2> QED
    BY <2>1, <2>2, TotalIsNat
<1> QED
  BY <1>3, <1>5, <1>8, <1>9, <1>10

\* One more addend.
LEMMA TotalOfOneMore ==
    ASSUME NEW S, IsFiniteSet(S), NEW l, l \notin S,
           \A x \in S \cup {l} : x.subTotal \in Nat
    PROVE  Total(S \cup {l}) = Total(S) + l.subTotal /\ IsFiniteSet(S \cup {l})
<1>1. IsFiniteSet(S \cup {l}) /\ l \in S \cup {l} /\ (S \cup {l}) \ {l} = S
  BY FS_AddElement
<1>2. Total(S \cup {l}) = l.subTotal + Total(S)
  BY <1>1, TotalOfRest
<1>3. Total(S) \in Nat /\ l.subTotal \in Nat
  BY TotalIsNat
<1> QED
  BY <1>1, <1>2, <1>3
-------------------------------------------------------------------------------
\* The lines createOrder has fetched are added up, each once: whatever order
\* the answers come in, the running total is the sum of the lines collected.
LEMMA RunningTotalIsKept ==
    ASSUME TypeOK, TotalsInv, [Next]_vars, NEW o \in Orders, create'[o] # None
    PROVE  RunningTotal(create'[o])
<1> USE DEF TypeOK
<1>1. ASSUME create'[o] = create[o] PROVE RunningTotal(create'[o])
  BY <1>1 DEF TotalsInv
<1>2. ASSUME NEW c \in Orders, NEW u \in Users, NEW cart \in Carts,
             BeginCreateOrder(c, u, cart)
      PROVE RunningTotal(create'[o])
  <2>1. CASE c = o
    <3>1. create'[o] = [ step |-> "fetching", buyer |-> u, cart |-> cart,
                         pending |-> DOMAIN cart, totalAmount |-> 0, lines |-> {} ]
      BY <1>2, <2>1 DEF BeginCreateOrder
    <3> QED
      BY <3>1, FS_EmptySet, TotalUnfolds DEF RunningTotal
  <2>2. CASE c # o
    BY <1>1, <1>2, <2>2 DEF BeginCreateOrder
  <2> QED
    BY <2>1, <2>2
<1>3. ASSUME NEW i, FetchLine(o, i) PROVE RunningTotal(create'[o])
  <2> DEFINE product == catalog[create[o].cart[i].productId]
             item    == Snapshot(i, create[o].cart[i], product)
             rest    == create[o].pending \ {i}
  <2>1. create[o] \in Creation /\ RunningTotal(create[o])
    <3>1. create[o] # None
      BY <1>3 DEF FetchLine
    <3> QED
      BY <3>1 DEF TotalsInv
  <2>2. create'[o] = [create[o] EXCEPT !.pending = rest, !.lines = @ \cup {item},
              !.totalAmount = AddToTotal(create[o], item),
              !.step = IF rest = {} THEN "saving" ELSE "fetching"]
    BY <1>3 DEF FetchLine
  <2>3. item.line = i /\ i \in create[o].pending
    BY <1>3 DEF FetchLine, Snapshot
  <2>4. item.subTotal \in Nat
    <3>1. create'[o] \in Creation
      BY TypeIsKept
    <3>2. item \in create'[o].lines
      BY <2>1, <2>2 DEF Creation
    <3> QED
      BY <3>1, <3>2 DEF Creation, OrderLine
  <2> HIDE DEF item, rest
  <2>5. create'[o].lines = create[o].lines \cup {item}
        /\ create'[o].totalAmount = create[o].totalAmount + item.subTotal
        /\ create'[o].pending = rest
    BY <2>1, <2>2 DEF Creation, AddToTotal
  <2>6. item \notin create[o].lines
    BY <2>1, <2>3 DEF RunningTotal
  <2>7. \A l \in create[o].lines \cup {item} : l.subTotal \in Nat
    BY <2>1, <2>4 DEF Creation, OrderLine
  <2>8. /\ Total(create'[o].lines) = create'[o].totalAmount
        /\ IsFiniteSet(create'[o].lines)
    BY <2>1, <2>5, <2>6, <2>7, TotalOfOneMore DEF RunningTotal
  <2>9. \A l \in create'[o].lines : l.line \notin create'[o].pending
    BY <2>1, <2>3, <2>5 DEF RunningTotal, rest
  <2>10. create'[o].step # "emit"
    BY <2>1, <2>2 DEF Creation
  <2> QED
    BY <2>5, <2>8, <2>9, <2>10 DEF RunningTotal
<1>4. ASSUME CommitOrder(o) PROVE RunningTotal(create'[o])
  <2>1. create[o] # None /\ create[o].step = "saving"
    BY <1>4 DEF CommitOrder
  <2>3. create[o] \in Creation /\ RunningTotal(create[o])
    BY <2>1 DEF TotalsInv
  <2>2. create'[o] = [create[o] EXCEPT !.step = "emit"]
    BY <1>4 DEF CommitOrder
  <2> QED
    BY <1>4, <2>1, <2>2, <2>3 DEF RunningTotal, Creation, CommitOrder
<1>5. ASSUME NEW c \in Orders, c # o, CreateStep(c) PROVE create'[o] = create[o]
  BY <1>5 DEF CreateStep, FetchLine, RejectLine, RejectTotal, Rollback, CommitOrder,
              EmitOrderCreated
<1>6. ASSUME CreateStep(o) PROVE RunningTotal(create'[o])
  BY <1>3, <1>4, <1>6 DEF CreateStep, RejectLine, RejectTotal, Rollback, EmitOrderCreated
<1>7. ASSUME NEW c \in Orders, FailCreateOrder(c) PROVE create'[o] = create[o]
  BY <1>7 DEF FailCreateOrder, Rollback
<1>8. ~Crash
  BY DEF Crash
<1>9. ASSUME NEW r \in Requests, NEW c \in Orders, Arrive(r, c) PROVE UNCHANGED create
  BY <1>9 DEF Arrive, CancelMyOrder, HandlePaymentConfirmed, HandleFailedPayment,
              ChangeStatus, BeginDelete
<1>10. ASSUME NEW r \in Requests, RequestStep(r) PROVE UNCHANGED create
  BY <1>10 DEF RequestStep, Reload, Update, Insert, DeleteOrder
<1> HIDE DEF TypeOK
<1> QED
  BY <1>1, <1>2, <1>5, <1>6, <1>7, <1>8, <1>9, <1>10 DEF Next, SellerEdits, vars

\* The items of an order appear with the commit of its transaction, are
\* exactly the lines collected, and change only when it is deleted.
LEMMA ItemsOfOrder ==
    ASSUME TypeOK, IdsAreFresh, TotalsInv, [Next]_vars, NEW o \in placed'
    PROVE  \/ o \in placed /\ ItemsOf(o)' = ItemsOf(o)
           \/ o \in placed /\ o \in deleted' /\ ItemsOf(o)' = {}
           \/ CommitOrder(o) /\ ItemsOf(o)' = create[o].lines
<1>1. ASSUME NEW c \in Orders, CommitOrder(c), o # c
      PROVE o \in placed /\ ItemsOf(o)' = ItemsOf(o)
  <2>1. o \in placed
    BY <1>1 DEF CommitOrder
  <2>2. \A i : i \in itemTable' /\ i.orderId = o <=> i \in itemTable /\ i.orderId = o
    BY <1>1 DEF CommitOrder
  <2> QED
    BY <2>1, <2>2 DEF ItemsOf
<1>2. ASSUME CommitOrder(o) PROVE ItemsOf(o)' = create[o].lines
  <2>1. o \notin placed
    BY <1>2 DEF CommitOrder, IdsAreFresh, TypeOK
  <2>2. \A i \in itemTable : i.orderId # o
    BY <2>1 DEF TotalsInv
  <2>3. { j \in itemTable' : j.orderId = o }
            = { [orderId |-> o, item |-> l] : l \in create[o].lines }
    BY <1>2, <2>2 DEF CommitOrder
  <2>4. ItemsOf(o)'
            = { i.item : i \in { [orderId |-> o, item |-> l] : l \in create[o].lines } }
    BY <2>3 DEF ItemsOf
  <2>5. \A l : [orderId |-> o, item |-> l].item = l
    OBVIOUS
  <2>6. ASSUME NEW lines
        PROVE { i.item : i \in { [orderId |-> o, item |-> l] : l \in lines } } = lines
    BY <2>5, Zenon
  <2> QED
    BY <2>4, <2>6
<1>3. ASSUME NEW r \in Requests, DeleteOrder(r), o # request[r].order
      PROVE ItemsOf(o)' = ItemsOf(o)
  <2>1. \A i : i \in itemTable' /\ i.orderId = o <=> i \in itemTable /\ i.orderId = o
    BY <1>3 DEF DeleteOrder
  <2> QED
    BY <2>1 DEF ItemsOf
<1>4. ASSUME NEW r \in Requests, DeleteOrder(r), o = request[r].order
      PROVE o \in deleted' /\ ItemsOf(o)' = {}
  BY <1>4 DEF DeleteOrder, ItemsOf
<1>5. ASSUME UNCHANGED itemTable PROVE ItemsOf(o)' = ItemsOf(o)
  BY <1>5 DEF ItemsOf
<1>6. ASSUME NEW r \in Requests, Update(r) \/ Insert(r) PROVE UNCHANGED itemTable
  BY <1>6 DEF Update, Insert
<1>7. ASSUME NEW r \in Requests, Update(r) \/ Insert(r) \/ DeleteOrder(r)
      PROVE UNCHANGED placed
  BY <1>7 DEF Update, Insert, DeleteOrder
<1> QED
  BY <1>1, <1>2, <1>3, <1>4, <1>5, <1>6, <1>7, Writers

\* Rows are written by createOrder once and by save; save changes nothing but
\* the status of an order that has not been deleted.
LEMMA RowKeepsTotal ==
    ASSUME TypeOK, IdsAreFresh, [Next]_vars, NEW o \in placed, o \notin deleted',
           Stored(o)
    PROVE  /\ o \notin deleted
           /\ Stored(o)'
           /\ orderTable'[o].totalAmount = orderTable[o].totalAmount
<1> USE DEF TypeOK, Stored
<1>1. ASSUME NEW c \in Orders, CommitOrder(c)
      PROVE UNCHANGED deleted /\ orderTable'[o] = orderTable[o]
  BY <1>1 DEF CommitOrder, IdsAreFresh
<1>2. ASSUME NEW r \in Requests, Update(r)
      PROVE /\ UNCHANGED deleted
            /\ orderTable'[o] # None
            /\ orderTable'[o].totalAmount = orderTable[o].totalAmount
  <2> DEFINE status == request[r].entity.orderStatus
  <2>1. orderTable[o] \in OrderRow /\ status \in OrderStatuses
    BY <1>2 DEF Update, Request, OrderRow
  <2>2. \/ orderTable'[o] = orderTable[o]
        \/ orderTable'[o] = [orderTable[o] EXCEPT !.orderStatus = status]
    BY <1>2 DEF Update
  <2> HIDE DEF status
  <2>3. orderTable'[o] \in OrderRow
        /\ orderTable'[o].totalAmount = orderTable[o].totalAmount
    BY <2>1, <2>2 DEF OrderRow
  <2> QED
    BY <1>2, <2>3, NoneAssumption DEF Update
<1>3. ASSUME NEW r \in Requests, Insert(r)
      PROVE UNCHANGED deleted /\ orderTable'[o] = orderTable[o]
  BY <1>3 DEF Insert
<1>4. ASSUME NEW r \in Requests, DeleteOrder(r)
      PROVE o \notin deleted /\ orderTable'[o] = orderTable[o]
  BY <1>4 DEF DeleteOrder
<1> HIDE DEF TypeOK
<1> QED
  BY <1>1, <1>2, <1>3, <1>4, Writers

\* The running totals, the items and the rows fit together in every state.
THEOREM TotalsInvariant == Spec => []TotalsInv
<1>1. Init => TotalsInv
  BY DEF Init, TotalsInv, TotalMatchesItems
<1>2. TypeOK /\ IdsAreFresh /\ TotalsInv /\ [Next]_vars => TotalsInv'
  <2> SUFFICES ASSUME TypeOK, IdsAreFresh, TotalsInv, [Next]_vars PROVE TotalsInv'
    OBVIOUS
  <2>1. \A o \in Orders : create'[o] # None => RunningTotal(create'[o])
    BY RunningTotalIsKept
  <2>2. \A i \in itemTable' : i.orderId \in placed'
    <3>1. ASSUME NEW c \in Orders, CommitOrder(c)
          PROVE \A i \in itemTable' : i.orderId \in placed'
      BY <3>1 DEF CommitOrder, TotalsInv
    <3>2. ASSUME NEW r \in Requests, Update(r) \/ Insert(r) \/ DeleteOrder(r)
          PROVE itemTable' \subseteq itemTable /\ UNCHANGED placed
      BY <3>2 DEF Update, Insert, DeleteOrder
    <3> QED
      BY <3>1, <3>2, Writers DEF TotalsInv
  <2>3. ASSUME NEW o \in placed', CommitOrder(o), ItemsOf(o)' = create[o].lines
        PROVE /\ IsFiniteSet(ItemsOf(o)')
              /\ Stored(o)'
              /\ ItemsOf(o)' # {}
              /\ orderTable'[o].totalAmount = Total(ItemsOf(o)')
    <3>1. create[o] # None /\ create[o].step = "saving" /\ o \in Orders
      <4>1. placed' \subseteq Orders
        BY TypeIsKept DEF TypeOK
      <4> QED
        BY <2>3, <4>1 DEF CommitOrder
    <3>2. RunningTotal(create[o])
      BY <3>1 DEF TotalsInv
    <3>3. orderTable'[o] = NewOrder(create[o])
      BY <2>3, <3>1 DEF CommitOrder, TypeOK
    <3>4. Stored(o)' /\ orderTable'[o].totalAmount = create[o].totalAmount
      <4>1. NewOrder(create[o]) \in OrderRow
        BY <3>1 DEF TypeOK, NewOrder, OrderRow, Creation, OrderStatuses
      <4> QED
        BY <3>3, <4>1, NoneAssumption DEF Stored, NewOrder
    <3> QED
      BY <2>3, <3>1, <3>2, <3>4 DEF RunningTotal
  <2>4. \A o \in placed' : IsFiniteSet(ItemsOf(o)')
    BY <2>3, ItemsOfOrder, FS_EmptySet DEF TotalsInv
  <2>5. ASSUME NEW o \in placed', o \notin deleted'
        PROVE /\ Stored(o)'
              /\ ItemsOf(o)' # {}
              /\ orderTable'[o].totalAmount = Total(ItemsOf(o)')
    <3>1. CASE o \in placed /\ ItemsOf(o)' = ItemsOf(o)
      <4>1. o \notin deleted
        <5>1. deleted \subseteq deleted'
          BY Writers DEF CommitOrder, Update, Insert, DeleteOrder
        <5> QED
          BY <2>5, <5>1
      <4>2. Stored(o) /\ ItemsOf(o) # {} /\ orderTable[o].totalAmount = Total(ItemsOf(o))
        BY <3>1, <4>1 DEF TotalsInv, TotalMatchesItems
      <4> QED
        BY <2>5, <3>1, <4>2, RowKeepsTotal
    <3> QED
      BY <2>3, <2>5, <3>1, ItemsOfOrder
  <2>6. TotalMatchesItems'
    BY <2>5 DEF TotalMatchesItems
  <2> QED
    BY <2>1, <2>2, <2>4, <2>6 DEF TotalsInv
<1> QED
  BY <1>1, <1>2, TypeCorrect, FreshIds, PTL DEF Spec

\* An order that is visible and was never deleted has items, and its total is
\* the sum of their subtotals: for carts of any length, whatever order the
\* answers of the product service come in, and over every edit of the seller,
\* concurrent handler and crash.
THEOREM TotalsMatchItems == Spec => []TotalMatchesItems
<1>1. TotalsInv => TotalMatchesItems
  BY DEF TotalsInv
<1> QED
  BY <1>1, TotalsInvariant, PTL

\* The conjunction of all the parts is an invariant of the service.
THEOREM ServiceInvariant == Spec => []IInv
<1>1. TypeOK /\ IdsAreFresh /\ StatusInv /\ DeletionInv /\ AnnouncementsAgree
      /\ TotalsInv => IInv
  BY DEF IInv
<1> QED
  BY <1>1, TypeCorrect, FreshIds, OnlyCancellationsAreSaved, DeletionInvariant,
     AnnouncementsInvariant, TotalsInvariant, PTL

==============================================================================
