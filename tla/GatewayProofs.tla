---------------------------- MODULE GatewayProofs ----------------------------
(***************************************************************************)
(* The type invariant of Gateway; that the answer to a request tells what  *)
(* was done; that a request runs its own handler and no other; and that    *)
(* one in order is served: for any number of requests, any limit of the    *)
(* throttler and any number of crashes.                                    *)
(***************************************************************************)
EXTENDS Gateway, TLAPS

\* A route of the gateway is for one of its functions.
LEMMA RouteOp ==
    ASSUME NEW to \in Services, NEW verb, NEW path,
           NEW entry \in Resolve(GatewayTable[to], verb, path)
    PROVE  entry.op \in Ops \cup Local
<1>1. PICK i \in DOMAIN GatewayTable[to] : entry = GatewayTable[to][i]
  BY DEF Resolve
<1>2. CASE to = "auth"
  <2>1. GatewayTable[to] = AuthController
    BY <1>2 DEF GatewayTable
  <2> QED
    BY <1>1, <2>1 DEF Ops, AuthOps
<1>3. CASE to = "products"
  <2>1. GatewayTable[to] = ProductController
    BY <1>3 DEF GatewayTable
  <2> QED
    BY <1>1, <2>1 DEF Ops, ProductOps
<1>4. CASE to = "order"
  <2>1. GatewayTable[to] = OrderController
    BY <1>4 DEF GatewayTable
  <2> QED
    BY <1>1, <2>1 DEF Ops, OrderOps
<1> QED
  BY <1>2, <1>3, <1>4 DEF Services

\* A route of a service is for one of its handlers.
LEMMA HandlerOp ==
    ASSUME NEW to \in Services, NEW verb, NEW path,
           NEW entry \in Resolve(ServiceTable[to], verb, path)
    PROVE  entry.op \in ServiceOps
<1>1. PICK i \in DOMAIN ServiceTable[to] : entry = ServiceTable[to][i]
  BY DEF Resolve
<1> QED
  BY <1>1 DEF ServiceOps

\* An error of the service is passed on as an error.
LEMMA ErrorIsPassedOn ==
    ASSUME NEW op, NEW status \in Status \ {200}
    PROVE  WithResponse(op, status) \in Status \ {200}
  BY DEF WithResponse, Status

\* The answer to a call without a reply is an error, but for an update.
LEMMA ErrorOfBrokenCall ==
    ASSUME NEW op
    PROVE  /\ WithoutResponse(op) \in Status
           /\ WithoutResponse(op) = 200 => op = "updateProduct"
<1>1. CASE op \in AuthOps
  BY <1>1 DEF WithoutResponse, Status
<1>2. CASE op \notin AuthOps /\ op \in ToBadRequest \ { "getAllOrders" }
  BY <1>2 DEF WithoutResponse, Status
<1>3. CASE op \notin AuthOps /\ op \notin ToBadRequest \ { "getAllOrders" }
  BY <1>3 DEF WithoutResponse, Status
<1> QED
  BY <1>1, <1>2, <1>3

-------------------------------------------------------------------------------
(***************************************************************************)
(* The tables                                                              *)
(***************************************************************************)

\* A sequence of any length.
IsPath(path) == Len(path) \in Nat /\ DOMAIN path = 1..Len(path)

\* What the proofs need of an entry of a table.
Reads(entry, verb, path, op) == entry.verb = verb /\ entry.path = path /\ entry.op = op

\* The entries of the six tables, whose order matters where they overlap.
LEMMA AuthControllerEntries ==
    ASSUME NEW i \in DOMAIN AuthController, NEW entry, entry = AuthController[i]
    PROVE  \/ Reads(entry, "POST", << "register" >>, "registerUser")
           \/ Reads(entry, "POST", << "verify" >>, "verifyRegisterUser")
           \/ Reads(entry, "GET", << "health" >>, "health")
           \/ Reads(entry, "GET", << "google" >>, "redirect")
           \/ Reads(entry, "GET", << "google", "callback" >>, "redirect")
           \/ Reads(entry, "GET", << "users" >>, "getAllUsers")
           \/ Reads(entry, "GET", << "user" >>, "getAUser")
           \/ Reads(entry, "POST", << "change-password" >>, "changePassword")
           \/ Reads(entry, "POST", << "reset-password" >>, "resetPassword")
           \/ Reads(entry, "POST", << "forgot-password" >>, "forgotPassword")
           \/ Reads(entry, "POST", << "login" >>, "loginUser")
           \/ Reads(entry, "POST", << "logout" >>, "logout")
           \/ Reads(entry, "POST", << "logout-all" >>, "logoutAll")
           \/ Reads(entry, "POST", << "refresh-token" >>, "refreshToken")
           \/ Reads(entry, "POST", << "resend-otp" >>, "resendOtp")
           \/ Reads(entry, "PATCH", << "me" >>, "updateUserData")
           \/ Reads(entry, "POST", << "me", "image" >>, "updateUserImage")
<1>1. i \in 1..17
  BY DEF AuthController
<1>2. /\ Reads(AuthController[1], "POST", << "register" >>, "registerUser")
      /\ Reads(AuthController[2], "POST", << "verify" >>, "verifyRegisterUser")
      /\ Reads(AuthController[3], "GET", << "health" >>, "health")
      /\ Reads(AuthController[4], "GET", << "google" >>, "redirect")
      /\ Reads(AuthController[5], "GET", << "google", "callback" >>, "redirect")
      /\ Reads(AuthController[6], "GET", << "users" >>, "getAllUsers")
      /\ Reads(AuthController[7], "GET", << "user" >>, "getAUser")
      /\ Reads(AuthController[8], "POST", << "change-password" >>, "changePassword")
      /\ Reads(AuthController[9], "POST", << "reset-password" >>, "resetPassword")
      /\ Reads(AuthController[10], "POST", << "forgot-password" >>, "forgotPassword")
      /\ Reads(AuthController[11], "POST", << "login" >>, "loginUser")
      /\ Reads(AuthController[12], "POST", << "logout" >>, "logout")
      /\ Reads(AuthController[13], "POST", << "logout-all" >>, "logoutAll")
      /\ Reads(AuthController[14], "POST", << "refresh-token" >>, "refreshToken")
      /\ Reads(AuthController[15], "POST", << "resend-otp" >>, "resendOtp")
      /\ Reads(AuthController[16], "PATCH", << "me" >>, "updateUserData")
      /\ Reads(AuthController[17], "POST", << "me", "image" >>, "updateUserImage")
  BY DEF AuthController, Route, Reads
<1>3. \/ i = 1 \/ i = 2 \/ i = 3 \/ i = 4 \/ i = 5 \/ i = 6 \/ i = 7 \/ i = 8
      \/ i = 9 \/ i = 10 \/ i = 11 \/ i = 12 \/ i = 13 \/ i = 14 \/ i = 15 \/ i = 16 \/ i = 17
  BY <1>1
<1> QED
  BY ZenonT(30), <1>2, <1>3

LEMMA ProductControllerEntries ==
    ASSUME NEW i \in DOMAIN ProductController, NEW entry, entry = ProductController[i]
    PROVE  \/ Reads(entry, "GET", << "health" >>, "health")
           \/ Reads(entry, "POST", << "category" >>, "createProductCategory")
           \/ Reads(entry, "GET", << "category" >>, "getAllCategories")
           \/ Reads(entry, "GET", << "categories" >>, "getProductsCategory")
           \/ Reads(entry, "POST", << >>, "createProduct")
           \/ Reads(entry, "DELETE", << ":id" >>, "deleteProduct")
           \/ Reads(entry, "GET", << >>, "getAllProduct")
           \/ Reads(entry, "GET", << "my-products" >>, "getMyProducts")
           \/ Reads(entry, "GET", << ":id" >>, "getSingleProduct")
           \/ Reads(entry, "PATCH", << ":uuid" >>, "updateProduct")
<1>1. i \in 1..10
  BY DEF ProductController
<1> QED
  BY <1>1 DEF ProductController, Route, Reads

LEMMA OrderControllerEntries ==
    ASSUME NEW i \in DOMAIN OrderController, NEW entry, entry = OrderController[i]
    PROVE  \/ Reads(entry, "GET", << "health" >>, "health")
           \/ Reads(entry, "POST", << >>, "createOrder")
           \/ Reads(entry, "GET", << >>, "getMyOrders")
           \/ Reads(entry, "GET", << "all-orders" >>, "getAllOrders")
           \/ Reads(entry, "GET", << ":uuid", "my-order" >>, "getMyOrderById")
           \/ Reads(entry, "GET", << ":uuid" >>, "getSingleOrder")
           \/ Reads(entry, "GET", << ":uuid", "cancel" >>, "cancelMyOrder")
           \/ Reads(entry, "GET", << ":uuid", "confirm-payment" >>, "confirmMyOrder")
           \/ Reads(entry, "DELETE", << ":uuid" >>, "deleteOrder")
<1>1. i \in 1..9
  BY DEF OrderController
<1> QED
  BY <1>1 DEF OrderController, Route, Reads

LEMMA AuthServiceControllerEntries ==
    ASSUME NEW i \in DOMAIN AuthServiceController, NEW entry, entry = AuthServiceController[i]
    PROVE  \/ Reads(entry, "GET", << >>, "getHello")
           \/ Reads(entry, "POST", << "register" >>, "registerUser")
           \/ Reads(entry, "POST", << "verify" >>, "verifyRegisterUser")
           \/ Reads(entry, "POST", << "login" >>, "loginUser")
           \/ Reads(entry, "GET", << "users" >>, "getAllUsers")
           \/ Reads(entry, "GET", << "user" >>, "getAUser")
           \/ Reads(entry, "POST", << "forgot-password" >>, "forgotPassword")
           \/ Reads(entry, "POST", << "reset-password" >>, "resetPassword")
           \/ Reads(entry, "POST", << "change-password" >>, "changePassword")
           \/ Reads(entry, "POST", << "logout" >>, "logout")
           \/ Reads(entry, "POST", << "logout-all" >>, "logoutAll")
           \/ Reads(entry, "POST", << "refresh-token" >>, "refreshToken")
           \/ Reads(entry, "POST", << "resend-otp" >>, "resendOtp")
           \/ Reads(entry, "PATCH", << "me" >>, "updateUserData")
           \/ Reads(entry, "POST", << "me", "image" >>, "updateUserImage")
<1>1. i \in 1..15
  BY DEF AuthServiceController
<1>2. /\ Reads(AuthServiceController[1], "GET", << >>, "getHello")
      /\ Reads(AuthServiceController[2], "POST", << "register" >>, "registerUser")
      /\ Reads(AuthServiceController[3], "POST", << "verify" >>, "verifyRegisterUser")
      /\ Reads(AuthServiceController[4], "POST", << "login" >>, "loginUser")
      /\ Reads(AuthServiceController[5], "GET", << "users" >>, "getAllUsers")
      /\ Reads(AuthServiceController[6], "GET", << "user" >>, "getAUser")
      /\ Reads(AuthServiceController[7], "POST", << "forgot-password" >>, "forgotPassword")
      /\ Reads(AuthServiceController[8], "POST", << "reset-password" >>, "resetPassword")
      /\ Reads(AuthServiceController[9], "POST", << "change-password" >>, "changePassword")
      /\ Reads(AuthServiceController[10], "POST", << "logout" >>, "logout")
      /\ Reads(AuthServiceController[11], "POST", << "logout-all" >>, "logoutAll")
      /\ Reads(AuthServiceController[12], "POST", << "refresh-token" >>, "refreshToken")
      /\ Reads(AuthServiceController[13], "POST", << "resend-otp" >>, "resendOtp")
      /\ Reads(AuthServiceController[14], "PATCH", << "me" >>, "updateUserData")
      /\ Reads(AuthServiceController[15], "POST", << "me", "image" >>, "updateUserImage")
  BY DEF AuthServiceController, Handler, Reads
<1>3. \/ i = 1 \/ i = 2 \/ i = 3 \/ i = 4 \/ i = 5 \/ i = 6 \/ i = 7 \/ i = 8
      \/ i = 9 \/ i = 10 \/ i = 11 \/ i = 12 \/ i = 13 \/ i = 14 \/ i = 15
  BY <1>1
<1> QED
  BY ZenonT(30), <1>2, <1>3

LEMMA ProductServiceControllerEntries ==
    ASSUME NEW i \in DOMAIN ProductServiceController, NEW entry, entry = ProductServiceController[i]
    PROVE  \/ Reads(entry, "POST", << "category" >>, "createProductCategory")
           \/ Reads(entry, "GET", << "category" >>, "getAllCategories")
           \/ Reads(entry, "GET", << "categories" >>, "getProductsCategory")
           \/ Reads(entry, "POST", << >>, "createProduct")
           \/ Reads(entry, "DELETE", << ":uuid" >>, "deleteProduct")
           \/ Reads(entry, "GET", << >>, "getAllProduct")
           \/ Reads(entry, "GET", << "my-products" >>, "getMyProducts")
           \/ Reads(entry, "PATCH", << ":uuid" >>, "updateProduct")
           \/ Reads(entry, "GET", << ":uuid" >>, "getSingleProduct")
<1>1. i \in 1..9
  BY DEF ProductServiceController
<1> QED
  BY <1>1 DEF ProductServiceController, Handler, Reads

LEMMA OrderServiceControllerEntries ==
    ASSUME NEW i \in DOMAIN OrderServiceController, NEW entry, entry = OrderServiceController[i]
    PROVE  \/ Reads(entry, "POST", << >>, "createOrder")
           \/ Reads(entry, "GET", << >>, "getMyOrders")
           \/ Reads(entry, "GET", << >>, "getAllOrders")
           \/ Reads(entry, "GET", << ":uuid" >>, "getSingleOrder")
           \/ Reads(entry, "GET", << ":uuid", "my-order" >>, "getMyOrderById")
           \/ Reads(entry, "GET", << ":uuid", "cancel" >>, "cancelMyOrder")
           \/ Reads(entry, "GET", << ":uuid", "confirm-payment" >>, "confirmMyOrder")
           \/ Reads(entry, "GET", << ":uuid", "failed-payment" >>, "failedPayment")
           \/ Reads(entry, "DELETE", << ":uuid" >>, "deleteOrder")
<1>1. i \in 1..9
  BY DEF OrderServiceController
<1> QED
  BY <1>1 DEF OrderServiceController, Handler, Reads

\* A handler and the route of the gateway that both take a request: the handler's
\* pipes let it through only if it is the one the route is for, and they do if the
\* parameters are in order, but on getAllOrders, whose path is a parameter to the
\* service.
Agree(entry, handler, path) ==
    /\ ParsesParameters(handler, path) => handler.op = entry.op
    /\ /\ \A k \in DOMAIN path : entry.path[k] \in Parameter => path[k] = "uuid"
       /\ entry.op # "getAllOrders"
       => ParsesParameters(handler, path)

LEMMA AuthAgree ==
    ASSUME NEW verb, NEW S, NEW path \in Seq(S),
           NEW entry \in Resolve(AuthController, verb, path), entry.op \notin Local,
           NEW handler \in Resolve(AuthServiceController, verb, path)
    PROVE  Agree(entry, handler, path)
<1>1. PICK i \in DOMAIN AuthController :
          entry = AuthController[i] /\ Matches(entry, verb, path)
  BY DEF Resolve
<1>2. PICK j \in DOMAIN AuthServiceController :
          handler = AuthServiceController[j] /\ Matches(handler, verb, path)
  BY DEF Resolve
<1>3. handler.op = entry.op
  BY <1>1, <1>2, AuthControllerEntries, AuthServiceControllerEntries,
     SMTT(30)
  DEF Reads, Matches, Parameter, Local
<1>4. ParsesParameters(handler, path)
  BY <1>2, AuthServiceControllerEntries DEF Reads, Matches, ParsesParameters
<1> QED
  BY <1>3, <1>4 DEF Agree

\* The literal segments that both products tables take before a parameter.
Literals == { "category", "categories", "my-products" }

LEMMA ProductsAgree ==
    ASSUME NEW verb, NEW S, NEW path \in Seq(S),
           NEW entry \in Resolve(ProductController, verb, path), entry.op \notin Local,
           NEW handler \in Resolve(ProductServiceController, verb, path)
    PROVE  Agree(entry, handler, path)
<1>1. PICK i \in DOMAIN ProductController :
          /\ entry = ProductController[i] /\ Matches(entry, verb, path)
          /\ \A k \in 1..(i - 1) : ~Matches(ProductController[k], verb, path)
  BY DEF Resolve
<1>2. PICK j \in DOMAIN ProductServiceController :
          /\ handler = ProductServiceController[j] /\ Matches(handler, verb, path)
          /\ \A k \in 1..(j - 1) : ~Matches(ProductServiceController[k], verb, path)
  BY DEF Resolve
<1>3. entry.op = "getSingleProduct" => path[1] \notin Literals
  <2> SUFFICES ASSUME entry.op = "getSingleProduct" PROVE path[1] \notin Literals
    OBVIOUS
  <2>1. i = 9
    <3>1. i \in 1..10
      BY DEF ProductController
    <3> QED
      BY <1>1, <3>1 DEF ProductController, Route
  <2>2. verb = "GET" /\ Len(path) = 1
    BY <1>1, <2>1 DEF ProductController, Route, Matches
  <2>3. /\ ~Matches(ProductController[3], verb, path)
        /\ ~Matches(ProductController[4], verb, path)
        /\ ~Matches(ProductController[8], verb, path)
    BY <1>1, <2>1
  <2> QED
    BY <2>2, <2>3 DEF ProductController, Route, Matches, Literals
<1>4. handler.op = "getSingleProduct" => path[1] \notin Literals
  <2> SUFFICES ASSUME handler.op = "getSingleProduct" PROVE path[1] \notin Literals
    OBVIOUS
  <2>1. j = 9
    <3>1. j \in 1..9
      BY DEF ProductServiceController
    <3> QED
      BY <1>2, <3>1 DEF ProductServiceController, Handler
  <2>2. verb = "GET" /\ Len(path) = 1
    BY <1>2, <2>1 DEF ProductServiceController, Handler, Matches
  <2>3. /\ ~Matches(ProductServiceController[2], verb, path)
        /\ ~Matches(ProductServiceController[3], verb, path)
        /\ ~Matches(ProductServiceController[7], verb, path)
    BY <1>2, <2>1
  <2> QED
    BY <2>2, <2>3 DEF ProductServiceController, Handler, Matches, Literals
<1>5. handler.op = entry.op
  BY <1>1, <1>2, <1>3, <1>4, ProductControllerEntries, ProductServiceControllerEntries,
     SMTT(30)
  DEF Reads, Matches, Parameter, Local, Literals
<1>6. (\A k \in DOMAIN path : entry.path[k] \in Parameter => path[k] = "uuid")
          => ParsesParameters(handler, path)
  BY <1>1, <1>2, <1>5, ProductControllerEntries, ProductServiceControllerEntries,
     SMTT(30)
  DEF Reads, Matches, Parameter, ParsesParameters
<1> QED
  BY <1>5, <1>6 DEF Agree

LEMMA OrdersAgree ==
    ASSUME NEW verb, NEW S, NEW path \in Seq(S),
           NEW entry \in Resolve(OrderController, verb, path), entry.op \notin Local,
           NEW handler \in Resolve(OrderServiceController, verb, path)
    PROVE  Agree(entry, handler, path)
<1>1. PICK i \in DOMAIN OrderController :
          entry = OrderController[i] /\ Matches(entry, verb, path)
  BY DEF Resolve
<1>2. PICK j \in DOMAIN OrderServiceController :
          /\ handler = OrderServiceController[j] /\ Matches(handler, verb, path)
          /\ \A k \in 1..(j - 1) : ~Matches(OrderServiceController[k], verb, path)
  BY DEF Resolve
<1>3. handler.op # "getAllOrders"
  <2> SUFFICES ASSUME handler.op = "getAllOrders" PROVE FALSE
    OBVIOUS
  <2>1. j = 3
    <3>1. j \in 1..9
      BY DEF OrderServiceController
    <3> QED
      BY <1>2, <3>1 DEF OrderServiceController, Handler
  <2>2. ~Matches(OrderServiceController[2], verb, path)
    BY <1>2, <2>1
  <2> QED
    BY <1>2, <2>1, <2>2 DEF OrderServiceController, Handler, Matches
<1>4. ParsesParameters(handler, path) => handler.op = entry.op
  BY <1>1, <1>2, <1>3, OrderControllerEntries, OrderServiceControllerEntries,
     SMTT(30)
  DEF Reads, Matches, Parameter, Local, ParsesParameters
<1>5. /\ \A k \in DOMAIN path : entry.path[k] \in Parameter => path[k] = "uuid"
      /\ entry.op # "getAllOrders"
      => ParsesParameters(handler, path)
  BY <1>1, <1>2, <1>3, OrderControllerEntries, OrderServiceControllerEntries,
     SMTT(30)
  DEF Reads, Matches, Parameter, ParsesParameters, Local
<1> QED
  BY <1>4, <1>5 DEF Agree

\* The tables of the gateway and of the services agree, for every path.
LEMMA RoutesAgree ==
    ASSUME NEW to \in Services, NEW verb, NEW S, NEW path \in Seq(S),
           NEW entry \in Resolve(GatewayTable[to], verb, path), entry.op \notin Local,
           NEW handler \in Resolve(ServiceTable[to], verb, path)
    PROVE  Agree(entry, handler, path)
<1>1. CASE to = "auth"
  <2>1. GatewayTable[to] = AuthController /\ ServiceTable[to] = AuthServiceController
    BY <1>1 DEF GatewayTable, ServiceTable
  <2> QED
    BY <2>1, AuthAgree
<1>2. CASE to = "products"
  <2>1. GatewayTable[to] = ProductController /\ ServiceTable[to] = ProductServiceController
    BY <1>2 DEF GatewayTable, ServiceTable
  <2> QED
    BY <2>1, ProductsAgree
<1>3. CASE to = "order"
  <2>1. GatewayTable[to] = OrderController /\ ServiceTable[to] = OrderServiceController
    BY <1>3 DEF GatewayTable, ServiceTable
  <2> QED
    BY <2>1, OrdersAgree
<1> QED
  BY <1>1, <1>2, <1>3 DEF Services

\* What a client asks for is a sequence of segments.
LEMMA PathIsPath ==
    ASSUME NEW to \in Services, NEW path \in Paths(to)
    PROVE  \E S : path \in Seq(S)
<1>1. CASE path = << "uuid", "failed-payment" >>
  <2>1. \A s, t : << s, t >> \in Seq({ s, t })
    OBVIOUS
  <2> QED
    BY Zenon, <1>1, <2>1
<1>2. CASE path # << "uuid", "failed-payment" >>
  <2>1. PICK k \in DOMAIN GatewayTable[to], id \in Ids :
            path = [i \in DOMAIN GatewayTable[to][k].path |->
                       IF GatewayTable[to][k].path[i] \in Parameter THEN id
                       ELSE GatewayTable[to][k].path[i]]
    BY <1>2 DEF Paths
  <2> DEFINE p == GatewayTable[to][k].path
  <2>2. IsPath(p)
    <3>1. CASE to = "auth"
      <4>1. GatewayTable[to] = AuthController
        BY <3>1 DEF GatewayTable
      <4> QED
        BY <2>1, <4>1, AuthControllerEntries DEF Reads, IsPath
    <3>2. CASE to = "products"
      <4>1. GatewayTable[to] = ProductController
        BY <3>2 DEF GatewayTable
      <4> QED
        BY <2>1, <4>1, ProductControllerEntries DEF Reads, IsPath
    <3>3. CASE to = "order"
      <4>1. GatewayTable[to] = OrderController
        BY <3>3 DEF GatewayTable
      <4> QED
        BY <2>1, <4>1, OrderControllerEntries DEF Reads, IsPath
    <3> QED
      BY <3>1, <3>2, <3>3 DEF Services
  <2> DEFINE segment(i) == IF p[i] \in Parameter THEN id ELSE p[i]
             S == { segment(i) : i \in 1..Len(p) }
  <2>3. path = [i \in 1..Len(p) |-> segment(i)]
    BY <2>1, <2>2 DEF IsPath
  <2> HIDE DEF p, segment
  <2>4. path \in [1..Len(p) -> S]
    BY <2>3
  <2>5. path \in Seq(S)
    BY <2>2, <2>4 DEF IsPath
  <2> QED
    BY <2>5
<1> QED
  BY <1>1, <1>2

-------------------------------------------------------------------------------
(***************************************************************************)
(* Requests                                                                *)
(***************************************************************************)

\* No request is None, and no status is.
LEMMA NoneIsNone == /\ \A p \in Request : p # None
                    /\ \A status \in Status : status # None
  BY NoneAssumption

\* Only the entry of r changes.
LEMMA Others ==
    ASSUME TypeOK, NEW r \in Requests, NEW q \in Request,
           request' = [request EXCEPT ![r] = q]
    PROVE  /\ request' \in [Requests -> Request \cup {None}]
           /\ request'[r] = q
           /\ \A o \in Requests \ {r} : request'[o] = request[o]
  BY DEF TypeOK

\* A request that is not concerned keeps what it has.
LEMMA KeptByOthers ==
    ASSUME IInv, NEW o \in Requests, request'[o] = request[o], done'[o] = done[o]
    PROVE  Keeps(o)'
<1>1. Keeps(o)
  BY DEF IInv
<1> QED
  BY <1>1 DEF Keeps, At, Answered, Forwarded, Tells

\* An answer that tells the outcome of a forwarded request.
LEMMA AnswerKeeps ==
    ASSUME IInv, NEW r \in Requests, NEW status \in Status,
           request[r] # None, Answer(r, status),
           request[r].op # None =>
               /\ request[r].reply # None => (status = 200 <=> done[r])
               /\ status = 200 =>
                      done[r] \/ (request[r].op = "updateProduct" /\ request[r].reply = None)
    PROVE  IInv'
<1> DEFINE q == [request[r] EXCEPT !.step = "answered", !.status = status]
<1>1. TypeOK /\ request[r] \in Request
  BY DEF IInv, TypeOK
<1>2. q \in Request
  BY <1>1 DEF Request, Steps
<1>3. request' = [request EXCEPT ![r] = q] /\ UNCHANGED << ran, done, serviceVars >>
  BY DEF Answer
<1> HIDE DEF q
<1>4. /\ request' \in [Requests -> Request \cup {None}]
      /\ request'[r] = q
      /\ \A o \in Requests \ {r} : request'[o] = request[o]
  BY <1>1, <1>2, <1>3, Others
<1>5. TypeOK'
  BY <1>1, <1>3, <1>4 DEF TypeOK, serviceVars
<1>6. /\ q.step = "answered" /\ q.status = status
      /\ q.op = request[r].op /\ q.reply = request[r].reply
      /\ q # None
  BY <1>1, <1>2, NoneIsNone DEF q, Request
<1>7. Keeps(r)'
  BY <1>3, <1>4, <1>6 DEF Keeps, At, Answered, Forwarded, Tells
<1>8. ASSUME NEW o \in Requests PROVE Keeps(o)'
  BY <1>3, <1>4, <1>7, KeptByOthers
<1> QED
  BY <1>5, <1>8 DEF IInv

\* A reply that tells the outcome.
LEMMA ReplyKeeps ==
    ASSUME IInv, NEW r \in Requests, NEW status \in Status,
           At(r, "calling") \/ At(r, "running"), Reply(r, status),
           \/ status = 200 /\ done' = [done EXCEPT ![r] = TRUE]
           \/ status # 200 /\ done' = done,
           hits' \in [Throttled -> 0..Limit],
           UNCHANGED << ran, alive, faults >>
    PROVE  IInv'
<1> DEFINE q == [request[r] EXCEPT !.step = "replying", !.reply = status]
<1>1. TypeOK /\ request[r] \in Request
  BY DEF IInv, TypeOK, At
<1>2. q \in Request
  BY <1>1 DEF Request, Steps
<1>3. request' = [request EXCEPT ![r] = q]
  BY DEF Reply
<1> HIDE DEF q
<1>4. /\ request' \in [Requests -> Request \cup {None}]
      /\ request'[r] = q
      /\ \A o \in Requests \ {r} : request'[o] = request[o]
  BY <1>1, <1>2, <1>3, Others
<1>5. /\ done' \in [Requests -> BOOLEAN]
      /\ \A o \in Requests \ {r} : done'[o] = done[o]
      /\ status = 200 <=> done'[r]
  <2>1. ~done[r] /\ done \in [Requests -> BOOLEAN]
    BY <1>1 DEF IInv, Keeps, TypeOK
  <2>2. CASE status = 200 /\ done' = [done EXCEPT ![r] = TRUE]
    BY <2>1, <2>2
  <2>3. CASE status # 200 /\ done' = done
    BY <2>1, <2>3
  <2> QED
    BY <2>2, <2>3
<1>6. TypeOK'
  BY <1>1, <1>4, <1>5 DEF TypeOK
<1>7. q.step = "replying" /\ q.reply = status /\ q # None /\ status # None
  BY <1>1, <1>2, NoneIsNone DEF q, Request
<1>8. Keeps(r)'
  BY <1>4, <1>5, <1>7 DEF Keeps, At, Answered, Forwarded
<1>9. ASSUME NEW o \in Requests PROVE Keeps(o)'
  BY <1>4, <1>5, <1>8, KeptByOthers
<1> QED
  BY <1>6, <1>9 DEF IInv

\* The counters stay within the limit.
LEMMA CountKeeps ==
    ASSUME TypeOK, NEW r \in Requests, Count(r)
    PROVE  hits' \in [Throttled -> 0..Limit]
<1>1. ASSUME NEW h \in Throttled
      PROVE  hits[h] + (IF h = request[r].op THEN 1 ELSE 0) \in 0..Limit
  <2>1. hits[h] \in 0..Limit
    BY DEF TypeOK
  <2>2. CASE h = request[r].op
    BY <2>1, <2>2, BoundsAssumption DEF Count
  <2>3. CASE h # request[r].op
    BY <2>1, <2>3, BoundsAssumption
  <2> QED
    BY <2>2, <2>3
<1> QED
  BY <1>1 DEF Count

-------------------------------------------------------------------------------
(***************************************************************************)
(* The actions                                                             *)
(***************************************************************************)
LEMMA ReceiveKeeps ==
    ASSUME IInv, NEW r \in Requests, NEW to \in Services, NEW verb \in Verbs,
           NEW path \in Paths(to), NEW token \in Tokens, NEW fits \in BOOLEAN,
           Receive(r, to, verb, path, token, fits)
    PROVE  IInv'
<1> DEFINE q == [to |-> to, verb |-> verb, path |-> path, token |-> token, fits |-> fits,
                 op |-> None, step |-> "received", reply |-> None, status |-> None]
<1>1. TypeOK
  BY DEF IInv
<1>2. q \in Request
  <2>1. path \in UNION { Paths(s) : s \in Services }
    OBVIOUS
  <2> QED
    BY <2>1 DEF Request, Steps
<1>3. /\ request' = [request EXCEPT ![r] = q]
      /\ request[r] = None
      /\ UNCHANGED << ran, done, serviceVars >>
  BY DEF Receive
<1>4. q.step = "received" /\ q.op = None /\ q.reply = None
  OBVIOUS
<1> HIDE DEF q
<1>5. /\ request' \in [Requests -> Request \cup {None}]
      /\ request'[r] = q
      /\ \A o \in Requests \ {r} : request'[o] = request[o]
  BY <1>1, <1>2, <1>3, Others
<1>6. TypeOK'
  BY <1>1, <1>3, <1>5 DEF TypeOK, serviceVars
<1>7. ~done[r]
  BY <1>3 DEF IInv, Keeps
<1>8. Keeps(r)'
  BY <1>3, <1>4, <1>5, <1>7 DEF Keeps, At, Answered, Forwarded
<1>9. ASSUME NEW o \in Requests PROVE Keeps(o)'
  BY <1>3, <1>5, <1>8, KeptByOthers
<1> QED
  BY <1>6, <1>9 DEF IInv

LEMMA RejectionKeeps ==
    ASSUME IInv, NEW r \in Requests,
           NotFound(r) \/ RejectInput(r) \/ RejectToken(r) \/ AnswerLocally(r)
    PROVE  IInv'
<1>1. At(r, "received")
  BY DEF NotFound, RejectInput, RejectToken, AnswerLocally
<1>2. request[r] # None /\ request[r].op = None
  BY <1>1 DEF IInv, Keeps, At
<1>3. PICK status \in Status : Answer(r, status)
  BY DEF NotFound, RejectInput, RejectToken, AnswerLocally, Status
<1> QED
  BY <1>2, <1>3, AnswerKeeps

LEMMA ForwardKeeps ==
    ASSUME IInv, NEW r \in Requests, Forward(r)
    PROVE  IInv'
<1>1. /\ At(r, "received")
      /\ UNCHANGED << ran, done, serviceVars >>
  BY DEF Forward
<1>2. PICK entry \in GatewayRoute(r) :
          /\ entry.op \notin Local
          /\ request' = [request EXCEPT ![r] = [@ EXCEPT !.step = "calling", !.op = entry.op]]
  BY DEF Forward
<1> DEFINE q == [request[r] EXCEPT !.step = "calling", !.op = entry.op]
<1>3. TypeOK /\ request[r] \in Request
  BY <1>1 DEF IInv, TypeOK, At
<1>4. entry.op \in Ops
  <2>1. request[r].to \in Services
    BY <1>3 DEF Request
  <2> QED
    BY <1>2, <2>1, RouteOp DEF GatewayRoute
<1>5. q \in Request
  BY <1>3, <1>4 DEF Request, Steps
<1>6. request' = [request EXCEPT ![r] = q]
  BY <1>2
<1> HIDE DEF q
<1>7. /\ request' \in [Requests -> Request \cup {None}]
      /\ request'[r] = q
      /\ \A o \in Requests \ {r} : request'[o] = request[o]
  BY <1>3, <1>5, <1>6, Others
<1>8. TypeOK'
  BY <1>1, <1>3, <1>7 DEF TypeOK, serviceVars
<1>9. q.step = "calling" /\ q.reply = request[r].reply
  BY <1>3 DEF q, Request
<1>10. ~done[r] /\ request[r].reply = None
  BY <1>1 DEF IInv, Keeps, At
<1>11. Keeps(r)'
  BY <1>1, <1>7, <1>9, <1>10 DEF Keeps, At, Answered, Forwarded
<1>12. ASSUME NEW o \in Requests PROVE Keeps(o)'
  BY <1>1, <1>7, <1>11, KeptByOthers
<1> QED
  BY <1>8, <1>12 DEF IInv

LEMMA PassOnKeeps ==
    ASSUME IInv, NEW r \in Requests, PassOn(r)
    PROVE  IInv'
<1> DEFINE status == IF request[r].reply = 200 THEN 200
                     ELSE WithResponse(request[r].op, request[r].reply)
<1>1. Answer(r, status) /\ request[r] # None
  BY DEF PassOn, At
<1>2. request[r].reply # None /\ (request[r].reply = 200 <=> done[r])
  BY DEF PassOn, IInv, Keeps
<1>3. request[r].reply \in Status
  BY <1>1, <1>2 DEF IInv, TypeOK, Request
<1>4. status \in Status /\ (status = 200 <=> done[r])
  <2>1. CASE request[r].reply = 200
    BY <1>2, <1>3, <2>1
  <2>2. CASE request[r].reply # 200
    <3>1. status \in Status \ {200}
      BY <1>3, <2>2, ErrorIsPassedOn
    <3> QED
      BY <1>2, <2>2, <3>1
  <2> QED
    BY <2>1, <2>2
<1> HIDE DEF status
<1> QED
  BY <1>1, <1>4, AnswerKeeps

LEMMA GiveUpKeeps ==
    ASSUME IInv, NEW r \in Requests, GiveUp(r)
    PROVE  IInv'
<1>1. Answer(r, WithoutResponse(request[r].op)) /\ request[r] # None
  BY DEF GiveUp, At
<1>2. request[r].reply = None
  BY DEF GiveUp, IInv, Keeps, At
<1>3. /\ WithoutResponse(request[r].op) \in Status
      /\ WithoutResponse(request[r].op) = 200 => request[r].op = "updateProduct"
  BY ErrorOfBrokenCall
<1> QED
  BY <1>1, <1>2, <1>3, AnswerKeeps

LEMMA RefusalKeeps ==
    ASSUME IInv, NEW r \in Requests, Throttle(r) \/ RefuseCaller(r) \/ RefuseInput(r)
    PROVE  IInv'
<1>1. At(r, "calling") /\ done' = done /\ UNCHANGED << ran, alive, faults >>
  BY DEF Throttle, RefuseCaller, RefuseInput, Arrives, serviceVars
<1>2. PICK status \in Status \ {200} : Reply(r, status)
  BY DEF Throttle, RefuseCaller, RefuseInput, Status
<1>3. hits' \in [Throttled -> 0..Limit]
  <2>1. TypeOK
    BY DEF IInv
  <2>2. CASE Throttle(r)
    BY <2>1, <2>2 DEF Throttle, TypeOK, serviceVars
  <2>3. CASE RefuseCaller(r) \/ RefuseInput(r)
    BY <2>1, <2>3, CountKeeps DEF RefuseCaller, RefuseInput
  <2> QED
    BY <2>2, <2>3
<1> QED
  BY <1>1, <1>2, <1>3, ReplyKeeps

LEMMA RunHandlerKeeps ==
    ASSUME IInv, NEW r \in Requests, RunHandler(r)
    PROVE  IInv'
<1> DEFINE q == [request[r] EXCEPT !.step = "running"]
<1>1. /\ At(r, "calling") /\ Count(r)
      /\ request' = [request EXCEPT ![r] = q]
      /\ UNCHANGED << done, alive, faults >>
  BY DEF RunHandler, Arrives
<1>2. TypeOK /\ request[r] \in Request
  BY <1>1 DEF IInv, TypeOK, At
<1>3. q \in Request
  BY <1>2 DEF Request, Steps
<1>4. q.step = "running" /\ q.reply = request[r].reply
  BY <1>2 DEF Request
<1> HIDE DEF q
<1>5. /\ request' \in [Requests -> Request \cup {None}]
      /\ request'[r] = q
      /\ \A o \in Requests \ {r} : request'[o] = request[o]
  BY <1>1, <1>2, <1>3, Others
<1>6. ran' \in [Requests -> Seq(ServiceOps)]
  <2>1. PICK entry \in ServiceRoute(r) : ran' = [ran EXCEPT ![r] = Append(@, entry.op)]
    BY DEF RunHandler
  <2>2. entry.op \in ServiceOps
    <3>1. request[r].to \in Services
      BY <1>2 DEF Request
    <3> QED
      BY <2>1, <3>1, HandlerOp DEF ServiceRoute
  <2>3. ran[r] \in Seq(ServiceOps)
    BY <1>2 DEF TypeOK
  <2>4. Append(ran[r], entry.op) \in Seq(ServiceOps)
    BY <2>2, <2>3
  <2> QED
    BY <1>2, <2>1, <2>4 DEF TypeOK
<1>7. hits' \in [Throttled -> 0..Limit]
  BY <1>1, <1>2, CountKeeps
<1>8. TypeOK'
  BY <1>1, <1>2, <1>5, <1>6, <1>7 DEF TypeOK
<1>9. ~done[r] /\ request[r].reply = None
  BY <1>1 DEF IInv, Keeps, At
<1>10. Keeps(r)'
  BY <1>1, <1>4, <1>5, <1>9 DEF Keeps, At, Answered, Forwarded
<1>11. ASSUME NEW o \in Requests PROVE Keeps(o)'
  BY <1>1, <1>5, <1>10, KeptByOthers
<1> QED
  BY <1>8, <1>11 DEF IInv

LEMMA EndHandlerKeeps ==
    ASSUME IInv, NEW r \in Requests, EndHandler(r)
    PROVE  IInv'
<1>1. /\ At(r, "running")
      /\ UNCHANGED << ran, serviceVars >>
  BY DEF EndHandler
<1>2. hits' \in [Throttled -> 0..Limit]
  BY <1>1 DEF IInv, TypeOK, serviceVars
<1>3. CASE Reply(r, 200) /\ done' = [done EXCEPT ![r] = TRUE]
  <2>1. 200 \in Status
    BY DEF Status
  <2> QED
    BY <1>1, <1>2, <1>3, <2>1, ReplyKeeps DEF serviceVars
<1>4. CASE (\E status \in HandlerErrors : Reply(r, status)) /\ UNCHANGED done
  <2>1. PICK status \in HandlerErrors : Reply(r, status)
    BY <1>4
  <2>2. status \in Status /\ status # 200
    BY <2>1 DEF HandlerErrors, Status
  <2> QED
    BY <1>1, <1>2, <1>4, <2>1, <2>2, ReplyKeeps DEF serviceVars
<1> QED
  BY <1>3, <1>4 DEF EndHandler

\* A crash breaks the calls of its service and takes their replies.
LEMMA CrashKeeps ==
    ASSUME IInv, NEW s \in Services, Crash(s)
    PROVE  IInv'
<1> DEFINE Broken(o) == (At(o, "running") \/ At(o, "replying")) /\ request[o].to = s
           q(o) == [request[o] EXCEPT !.step = "broken", !.reply = None]
<1>1. /\ \A o \in Requests : request'[o] = IF Broken(o) THEN q(o) ELSE request[o]
      /\ request' = [o \in Requests |-> IF Broken(o) THEN q(o) ELSE request[o]]
      /\ UNCHANGED << ran, done >>
  BY DEF Crash
<1>2. TypeOK
  BY DEF IInv
<1>3. ASSUME NEW o \in Requests, Broken(o)
      PROVE  /\ request[o] \in Request /\ q(o) \in Request
             /\ q(o).step = "broken" /\ q(o).reply = None
  <2>1. request[o] \in Request
    BY <1>2, <1>3 DEF TypeOK, At
  <2>2. q(o) \in Request
    BY <2>1 DEF Request, Steps
  <2> QED
    BY <2>1, <2>2 DEF Request
<1>4. ASSUME NEW o \in Requests PROVE Keeps(o)'
  <2>1. CASE Broken(o)
    <3>1. request'[o].step = "broken" /\ request'[o].reply = None
      BY <1>1, <1>3, <2>1
    <3>2. request'[o] # None
      BY <1>1, <1>3, <2>1, NoneIsNone
    <3> QED
      BY <3>1, <3>2 DEF Keeps, At, Answered, Forwarded
  <2>2. CASE ~Broken(o)
    BY <1>1, <2>2, KeptByOthers
  <2> QED
    BY <2>1, <2>2
<1>5. \A o \in Requests : request'[o] \in Request \cup {None}
  BY <1>1, <1>2, <1>3 DEF TypeOK
<1> HIDE DEF Broken, q
<1>6. request' \in [Requests -> Request \cup {None}]
  BY <1>1, <1>5
<1>7. alive' \in [Services -> BOOLEAN] /\ faults' \in 0..MaxFaults
  <2>1. faults \in 0..MaxFaults /\ alive \in [Services -> BOOLEAN]
    BY <1>2 DEF TypeOK
  <2>2. faults < MaxFaults /\ faults' = faults + 1 /\ alive' = [alive EXCEPT ![s] = FALSE]
    BY DEF Crash
  <2>3. faults' \in 0..MaxFaults
    BY <2>1, <2>2, BoundsAssumption
  <2> QED
    BY <2>1, <2>2, <2>3
<1>8. hits' \in [Throttled -> 0..Limit]
  <2>1. hits \in [Throttled -> 0..Limit] /\ 0 \in 0..Limit
    BY <1>2, BoundsAssumption DEF TypeOK
  <2>2. hits' = [h \in Throttled |-> 0] \/ hits' = hits
    BY DEF Crash
  <2> QED
    BY <2>1, <2>2
<1>9. TypeOK'
  BY <1>1, <1>2, <1>6, <1>7, <1>8 DEF TypeOK
<1> QED
  BY <1>4, <1>9 DEF IInv

LEMMA SurroundingsKeep ==
    ASSUME IInv,
           \/ \E s \in Services : Restart(s)
           \/ \E h \in Throttled : OtherClient(h) \/ WindowEnds(h)
           \/ UNCHANGED vars
    PROVE  IInv'
<1>1. UNCHANGED << request, ran, done, faults >>
  BY DEF Restart, OtherClient, WindowEnds, vars, serviceVars
<1>2. TypeOK
  BY DEF IInv
<1>3. alive' \in [Services -> BOOLEAN]
  BY <1>2 DEF TypeOK, Restart, OtherClient, WindowEnds, vars, serviceVars
<1>4. hits' \in [Throttled -> 0..Limit]
  <2>1. CASE \E h \in Throttled : OtherClient(h)
    BY <1>2, <2>1, BoundsAssumption DEF TypeOK, OtherClient
  <2>2. CASE \E h \in Throttled : WindowEnds(h)
    BY <1>2, <2>2, BoundsAssumption DEF TypeOK, WindowEnds
  <2>3. CASE (\E s \in Services : Restart(s)) \/ UNCHANGED vars
    BY <1>2, <2>3 DEF TypeOK, Restart, vars, serviceVars
  <2> QED
    BY <2>1, <2>2, <2>3
<1>5. TypeOK'
  BY <1>1, <1>2, <1>3, <1>4 DEF TypeOK
<1>6. ASSUME NEW o \in Requests PROVE Keeps(o)'
  BY <1>1, KeptByOthers
<1> QED
  BY <1>5, <1>6 DEF IInv

-------------------------------------------------------------------------------
(***************************************************************************)
(* What a request runs                                                     *)
(***************************************************************************)

\* A request that is not concerned has run what it had.
LEMMA RunsIsKept ==
    ASSUME NEW o \in Requests, Runs(o), request'[o] = request[o], ran'[o] = ran[o],
           faults' = 0 => faults = 0
    PROVE  Runs(o)'
  BY DEF Runs, At, Forwarded, Answered, InOrder, GatewayRoute

\* A step of one request that no crash is part of.
LEMMA RunsOfOne ==
    ASSUME TypeOK, RunsInv, NEW r \in Requests, NEW q,
           request' = [request EXCEPT ![r] = q], q.step # "broken",
           ran' = ran \/ \E ops : ran' = [ran EXCEPT ![r] = ops],
           UNCHANGED << alive, faults >>,
           Runs(r)'
    PROVE  RunsInv'
<1>1. \A o \in Requests \ {r} : request'[o] = request[o] /\ ran'[o] = ran[o]
  BY DEF TypeOK
<1>2. request'[r] = q
  BY DEF TypeOK
<1>3. ASSUME NEW o \in Requests PROVE Runs(o)'
  BY <1>1, RunsIsKept DEF RunsInv
<1>4. ASSUME NEW o \in Requests, faults' = 0 PROVE ~At(o, "broken")'
  BY <1>1, <1>2, <1>4 DEF RunsInv, At
<1>5. ASSUME NEW s \in Services, faults' = 0 PROVE alive'[s]
  BY <1>5 DEF RunsInv
<1> QED
  BY <1>3, <1>4, <1>5 DEF RunsInv

\* What a request asks for stays what it was.
Asks(q) == << q.to, q.verb, q.path, q.token, q.fits >>

LEMMA SameRequest ==
    ASSUME TypeOK, NEW r \in Requests, NEW q \in Request,
           request' = [request EXCEPT ![r] = q], Asks(q) = Asks(request[r])
    PROVE  /\ request'[r] = q
           /\ q # None
           /\ GatewayRoute(r)' = GatewayRoute(r)
           /\ InOrder(r)' <=> InOrder(r)
<1>1. request'[r] = q
  BY DEF TypeOK
<1>2. q # None
  BY NoneIsNone
<1>3. /\ q.to = request[r].to /\ q.verb = request[r].verb /\ q.path = request[r].path
      /\ q.token = request[r].token /\ q.fits = request[r].fits
  BY DEF Asks
<1>4. GatewayRoute(r)' = GatewayRoute(r)
  BY <1>1, <1>3 DEF GatewayRoute
<1>5. InOrder(r)' <=> InOrder(r)
  BY <1>1, <1>3, <1>4 DEF InOrder
<1> QED
  BY <1>1, <1>2, <1>4, <1>5

LEMMA ReceiveRuns ==
    ASSUME IInv, RunsInv, NEW r \in Requests, NEW to, NEW verb, NEW path, NEW token, NEW fits,
           Receive(r, to, verb, path, token, fits)
    PROVE  RunsInv'
<1> DEFINE q == [to |-> to, verb |-> verb, path |-> path, token |-> token, fits |-> fits,
                 op |-> None, step |-> "received", reply |-> None, status |-> None]
<1>1. request' = [request EXCEPT ![r] = q] /\ UNCHANGED << ran, done, serviceVars >>
  BY DEF Receive
<1>2. q.step = "received" /\ q.op = None
  OBVIOUS
<1> HIDE DEF q
<1>3. TypeOK /\ request'[r] = q
  BY <1>1 DEF IInv, TypeOK
<1>4. ran[r] = << >>
  BY DEF Receive, RunsInv, Runs
<1>5. Runs(r)'
  BY <1>1, <1>2, <1>3, <1>4 DEF Runs, At, Forwarded, Answered
<1> QED
  BY <1>1, <1>2, <1>3, <1>5, RunsOfOne DEF serviceVars

\* An answer: nothing is run for it.
LEMMA AnswerRuns ==
    ASSUME IInv, RunsInv, NEW r \in Requests, request[r] # None, NEW status \in Status,
           Answer(r, status),
           At(r, "received") \/ At(r, "replying") \/ faults # 0
    PROVE  RunsInv'
<1> DEFINE q == [request[r] EXCEPT !.step = "answered", !.status = status]
<1>1. TypeOK /\ request[r] \in Request
  BY DEF IInv, TypeOK
<1>2. q \in Request
  BY <1>1 DEF Request, Steps
<1>3. request' = [request EXCEPT ![r] = q] /\ UNCHANGED << ran, done, serviceVars >>
  BY DEF Answer
<1>4. /\ q.step = "answered" /\ q.op = request[r].op /\ q.reply = request[r].reply
      /\ Asks(q) = Asks(request[r])
  BY <1>1 DEF Request, Asks
<1> HIDE DEF q
<1>5. /\ request'[r] = q /\ q # None
      /\ GatewayRoute(r)' = GatewayRoute(r)
      /\ InOrder(r)' <=> InOrder(r)
  BY <1>1, <1>2, <1>3, <1>4, SameRequest
<1>6. Runs(r)
  BY DEF RunsInv
<1>7. At(r, "received") => request[r].op = None
  BY DEF IInv, Keeps
<1>8. Runs(r)'
  BY <1>3, <1>4, <1>5, <1>6, <1>7 DEF Runs, At, Forwarded, Answered, serviceVars
<1> QED
  BY <1>1, <1>3, <1>4, <1>8, RunsOfOne DEF serviceVars

LEMMA GatewayRuns ==
    ASSUME IInv, RunsInv, NEW r \in Requests, GatewayStep(r)
    PROVE  RunsInv'
<1>1. CASE NotFound(r) \/ RejectInput(r) \/ RejectToken(r) \/ AnswerLocally(r)
  <2>1. At(r, "received") /\ request[r] # None
    BY <1>1 DEF NotFound, RejectInput, RejectToken, AnswerLocally, At
  <2>2. PICK status \in Status : Answer(r, status)
    BY <1>1 DEF NotFound, RejectInput, RejectToken, AnswerLocally, Status
  <2> QED
    BY <2>1, <2>2, AnswerRuns
<1>2. CASE Forward(r)
  <2>1. PICK entry \in GatewayRoute(r) :
            /\ entry.op \notin Local
            /\ request' = [request EXCEPT ![r] = [@ EXCEPT !.step = "calling", !.op = entry.op]]
    BY <1>2 DEF Forward
  <2> DEFINE q == [request[r] EXCEPT !.step = "calling", !.op = entry.op]
  <2>2. TypeOK /\ request[r] \in Request /\ At(r, "received")
    BY <1>2 DEF IInv, TypeOK, Forward, At
  <2>3. entry.op \in Ops
    BY <2>1, <2>2, RouteOp DEF GatewayRoute, Request
  <2>4. q \in Request
    BY <2>2, <2>3 DEF Request, Steps
  <2>5. request' = [request EXCEPT ![r] = q] /\ UNCHANGED << ran, done, serviceVars >>
    BY <1>2, <2>1 DEF Forward
  <2>6. q.step = "calling" /\ q.op = entry.op /\ Asks(q) = Asks(request[r])
    BY <2>2 DEF Request, Asks
  <2> HIDE DEF q
  <2>7. request'[r] = q /\ q # None /\ GatewayRoute(r)' = GatewayRoute(r)
    BY <2>2, <2>4, <2>5, <2>6, SameRequest
  <2>8. ran[r] = << >>
    BY <2>2 DEF RunsInv, Runs
  <2>9. entry.op # None
    BY <2>3, NoneAssumption
  <2>10. Runs(r)'
    BY <2>1, <2>5, <2>6, <2>7, <2>8, <2>9 DEF Runs, At, Forwarded, Answered
  <2> QED
    BY <2>2, <2>5, <2>6, <2>10, RunsOfOne DEF serviceVars
<1>3. CASE PassOn(r)
  <2>1. /\ At(r, "replying") /\ request[r] # None
        /\ Answer(r, IF request[r].reply = 200 THEN 200
                     ELSE WithResponse(request[r].op, request[r].reply))
    BY <1>3 DEF PassOn, At
  <2>2. request[r].reply \in Status
    BY <2>1 DEF IInv, TypeOK, Keeps, Request
  <2>3. request[r].reply # 200 =>
            WithResponse(request[r].op, request[r].reply) \in Status
    BY <2>2, ErrorIsPassedOn
  <2>4. PICK status \in Status : Answer(r, status)
    BY <2>1, <2>2, <2>3
  <2> QED
    BY <2>1, <2>4, AnswerRuns
<1>4. CASE GiveUp(r)
  <2>1. Answer(r, WithoutResponse(request[r].op)) /\ request[r] # None
    BY <1>4 DEF GiveUp, At
  <2>2. WithoutResponse(request[r].op) \in Status
    BY ErrorOfBrokenCall
  <2>3. faults # 0
    <3>1. At(r, "broken") \/ ~alive[request[r].to]
      BY <1>4 DEF GiveUp
    <3>2. request[r].to \in Services
      BY <2>1 DEF IInv, TypeOK, Request
    <3> QED
      BY <3>1, <3>2 DEF RunsInv
  <2> QED
    BY <2>1, <2>2, <2>3, AnswerRuns
<1> QED
  BY <1>1, <1>2, <1>3, <1>4 DEF GatewayStep

\* The handler a request finds is the one it is for, and a request that is in order
\* fits its parameters.
LEMMA HandlerIsFor ==
    ASSUME IInv, RunsInv, NEW r \in Requests, At(r, "calling"),
           NEW handler \in ServiceRoute(r)
    PROVE  /\ ParsesParameters(handler, request[r].path) => handler.op = request[r].op
           /\ InOrder(r) /\ request[r].op # "getAllOrders" =>
                  ParsesParameters(handler, request[r].path)
<1>1. request[r] \in Request /\ Forwarded(r) /\ Runs(r)
  BY DEF IInv, TypeOK, RunsInv, Runs, At
<1>2. request[r].to \in Services /\ request[r].path \in UNION { Paths(s) : s \in Services }
  BY <1>1 DEF Request
<1>3. PICK S : request[r].path \in Seq(S)
  BY <1>2, PathIsPath
<1>4. PICK entry \in GatewayRoute(r) : entry.op = request[r].op
  BY <1>1 DEF Runs
<1>5. entry.op \notin Local
  <2>1. request[r].op \in Ops
    BY <1>1 DEF Request, Forwarded
  <2> QED
    BY <1>4, <2>1 DEF Ops, AuthOps, OrderOps, ProductOps
<1>6. Agree(entry, handler, request[r].path)
  BY <1>2, <1>3, <1>4, <1>5, RoutesAgree DEF GatewayRoute, ServiceRoute
<1> QED
  BY <1>4, <1>6 DEF Agree, InOrder

\* A refusal by the service: of a request in order only by the throttler, or on a
\* route nobody is served on.
LEMMA RefusalRuns ==
    ASSUME IInv, RunsInv, NEW r \in Requests,
           Throttle(r) \/ RefuseCaller(r) \/ RefuseInput(r)
    PROVE  RunsInv'
<1>1. At(r, "calling") /\ UNCHANGED << ran, alive, faults >>
  BY DEF Throttle, RefuseCaller, RefuseInput, Arrives, serviceVars
<1>2. PICK status \in Status :
          Reply(r, status) /\ (InOrder(r) => status = 429 \/ request[r].op \in Unserved)
  <2>1. CASE Throttle(r)
    BY <2>1 DEF Throttle, Status
  <2>2. CASE RefuseCaller(r)
    <3>1. ~InOrder(r)
      BY <2>2 DEF RefuseCaller, AdmitsCaller, InOrder
    <3> QED
      BY <2>2, <3>1 DEF RefuseCaller, Status
  <2>3. CASE RefuseInput(r)
    <3>1. Reply(r, 400) /\ 400 \in Status
      BY <2>3 DEF RefuseInput, Status
    <3>2. PICK handler \in ServiceRoute(r) : ~AdmitsInput(r, handler)
      BY <2>3 DEF RefuseInput
    <3>3. InOrder(r) => request[r].op \in Unserved
      BY <1>1, <3>2, HandlerIsFor DEF AdmitsInput, PostsItsDto, Unserved
    <3> QED
      BY <3>1, <3>3
  <2> QED
    BY <2>1, <2>2, <2>3
<1> DEFINE q == [request[r] EXCEPT !.step = "replying", !.reply = status]
<1>3. TypeOK /\ request[r] \in Request
  BY <1>1 DEF IInv, TypeOK, At
<1>4. q \in Request
  BY <1>3 DEF Request, Steps
<1>5. request' = [request EXCEPT ![r] = q]
  BY <1>2 DEF Reply
<1>6. /\ q.step = "replying" /\ q.reply = status /\ q.op = request[r].op
      /\ Asks(q) = Asks(request[r])
  BY <1>3 DEF Request, Asks
<1> HIDE DEF q
<1>7. /\ request'[r] = q /\ q # None
      /\ GatewayRoute(r)' = GatewayRoute(r)
      /\ InOrder(r)' <=> InOrder(r)
  BY <1>3, <1>4, <1>5, <1>6, SameRequest
<1>8. Runs(r)
  BY DEF RunsInv
<1>9. Forwarded(r) /\ ran[r] = << >>
  BY <1>1, <1>8 DEF Runs, At
<1>10. Runs(r)'
  BY <1>1, <1>2, <1>6, <1>7, <1>8, <1>9 DEF Runs, At, Forwarded, Answered
<1> QED
  BY <1>1, <1>3, <1>5, <1>6, <1>10, RunsOfOne

LEMMA RunHandlerRuns ==
    ASSUME IInv, RunsInv, NEW r \in Requests, RunHandler(r)
    PROVE  RunsInv'
<1> DEFINE q == [request[r] EXCEPT !.step = "running"]
<1>1. /\ At(r, "calling")
      /\ request' = [request EXCEPT ![r] = q]
      /\ UNCHANGED << done, alive, faults >>
  BY DEF RunHandler, Arrives
<1>2. TypeOK /\ request[r] \in Request
  BY <1>1 DEF IInv, TypeOK, At
<1>3. q \in Request
  BY <1>2 DEF Request, Steps
<1>4. q.step = "running" /\ q.op = request[r].op /\ Asks(q) = Asks(request[r])
  BY <1>2 DEF Request, Asks
<1> HIDE DEF q
<1>5. /\ request'[r] = q /\ q # None
      /\ GatewayRoute(r)' = GatewayRoute(r)
  BY <1>1, <1>2, <1>3, <1>4, SameRequest
<1>6. PICK handler \in ServiceRoute(r) :
          /\ AdmitsInput(r, handler)
          /\ ran' = [ran EXCEPT ![r] = Append(@, handler.op)]
  BY DEF RunHandler
<1>7. handler.op = request[r].op
  BY <1>1, <1>6, HandlerIsFor DEF AdmitsInput
<1>8. Runs(r)
  BY DEF RunsInv
<1>9. Forwarded(r) /\ ran[r] = << >>
  BY <1>1, <1>8 DEF Runs, At
<1>10. ran'[r] = << request[r].op >> /\ ran'[r] # << >>
  <2>1. ran'[r] = Append(<< >>, handler.op)
    BY <1>2, <1>6, <1>9 DEF TypeOK
  <2>2. Append(<< >>, handler.op) = << handler.op >> /\ << handler.op >> # << >>
    OBVIOUS
  <2> QED
    BY <1>7, <2>1, <2>2
<1>11. Runs(r)'
  BY <1>4, <1>5, <1>8, <1>9, <1>10 DEF Runs, At, Forwarded, Answered
<1> QED
  BY <1>1, <1>2, <1>4, <1>6, <1>11, RunsOfOne

LEMMA EndHandlerRuns ==
    ASSUME IInv, RunsInv, NEW r \in Requests, EndHandler(r)
    PROVE  RunsInv'
<1>1. At(r, "running") /\ UNCHANGED << ran, serviceVars >>
  BY DEF EndHandler
<1>2. PICK status \in Status : Reply(r, status)
  BY DEF EndHandler, HandlerErrors, Status
<1> DEFINE q == [request[r] EXCEPT !.step = "replying", !.reply = status]
<1>3. TypeOK /\ request[r] \in Request
  BY <1>1 DEF IInv, TypeOK, At
<1>4. q \in Request
  BY <1>3 DEF Request, Steps
<1>5. request' = [request EXCEPT ![r] = q]
  BY <1>2 DEF Reply
<1>6. q.step = "replying" /\ q.op = request[r].op /\ Asks(q) = Asks(request[r])
  BY <1>3 DEF Request, Asks
<1> HIDE DEF q
<1>7. request'[r] = q /\ q # None /\ GatewayRoute(r)' = GatewayRoute(r)
  BY <1>3, <1>4, <1>5, <1>6, SameRequest
<1>8. Runs(r) /\ ran[r] # << >> /\ Forwarded(r)
  BY <1>1 DEF RunsInv, Runs, At
<1>9. Runs(r)'
  BY <1>1, <1>6, <1>7, <1>8 DEF Runs, At, Forwarded, Answered
<1> QED
  BY <1>1, <1>3, <1>5, <1>6, <1>9, RunsOfOne DEF serviceVars

\* A crash breaks calls that have run their handler, and is counted.
LEMMA CrashRuns ==
    ASSUME IInv, RunsInv, NEW s \in Services, Crash(s)
    PROVE  RunsInv'
<1>1. faults' # 0
  <2>1. faults \in 0..MaxFaults /\ faults' = faults + 1
    BY DEF Crash, IInv, TypeOK
  <2> QED
    BY <2>1, BoundsAssumption
<1>2. ASSUME NEW o \in Requests PROVE Runs(o)'
  <2> DEFINE q == [request[o] EXCEPT !.step = "broken", !.reply = None]
  <2>1. Runs(o) /\ ran' = ran
    BY DEF RunsInv, Crash
  <2>2. CASE request'[o] = request[o]
    BY <1>1, <2>1, <2>2 DEF Runs, At, Forwarded, Answered, GatewayRoute
  <2>3. CASE request'[o] # request[o]
    <3>1. /\ At(o, "running") \/ At(o, "replying")
          /\ request'[o] = q
      BY <2>3 DEF Crash
    <3>2. request[o] \in Request /\ Forwarded(o)
      BY <2>1, <3>1 DEF IInv, TypeOK, At, Runs
    <3>3. q.step = "broken" /\ q.op = request[o].op /\ Asks(q) = Asks(request[o]) /\ q # None
      <4>1. q \in Request
        BY <3>2 DEF Request, Steps
      <4> QED
        BY <3>2, <4>1, NoneIsNone DEF Request, Asks
    <3> HIDE DEF q
    <3>4. GatewayRoute(o)' = GatewayRoute(o)
      BY <3>1, <3>3 DEF GatewayRoute, Asks
    <3> QED
      BY <1>1, <2>1, <3>1, <3>2, <3>3, <3>4 DEF Runs, At, Forwarded, Answered
  <2> QED
    BY <2>2, <2>3
<1> QED
  BY <1>1, <1>2 DEF RunsInv

LEMMA SurroundingsRun ==
    ASSUME IInv, RunsInv,
           \/ \E s \in Services : Restart(s)
           \/ \E h \in Throttled : OtherClient(h) \/ WindowEnds(h)
           \/ UNCHANGED vars
    PROVE  RunsInv'
<1>1. UNCHANGED << request, ran, faults >>
  BY DEF Restart, OtherClient, WindowEnds, vars, serviceVars
<1>2. ASSUME NEW o \in Requests PROVE Runs(o)'
  BY <1>1, RunsIsKept DEF RunsInv
<1>3. ASSUME NEW o \in Requests, faults' = 0 PROVE ~At(o, "broken")'
  BY <1>1, <1>3 DEF RunsInv, At
<1>4. ASSUME NEW s \in Services, faults' = 0 PROVE alive'[s]
  <2>1. alive[s] /\ alive \in [Services -> BOOLEAN]
    BY <1>1, <1>4 DEF RunsInv, IInv, TypeOK
  <2>2. CASE \E t \in Services : Restart(t)
    BY <2>1, <2>2 DEF Restart
  <2>3. CASE UNCHANGED alive
    BY <2>1, <2>3
  <2> QED
    BY <2>2, <2>3 DEF OtherClient, WindowEnds, vars, serviceVars
<1> QED
  BY <1>2, <1>3, <1>4 DEF RunsInv

-------------------------------------------------------------------------------
(***************************************************************************)
(* Theorems                                                                *)
(***************************************************************************)

\* What a request has of its handler at each step of its way from the gateway to
\* the service and back, for any number of requests and crashes.
THEOREM Invariant == Spec => []IInv
<1>1. Init => IInv
  <2> SUFFICES ASSUME Init PROVE IInv
    OBVIOUS
  <2>1. TypeOK
    BY BoundsAssumption DEF Init, TypeOK
  <2>2. \A r \in Requests : Keeps(r)
    BY DEF Init, Keeps, At, Answered, Forwarded
  <2> QED
    BY <2>1, <2>2 DEF IInv
<1>2. IInv /\ [Next]_vars => IInv'
  <2> SUFFICES ASSUME IInv, [Next]_vars PROVE IInv'
    OBVIOUS
  <2>1. ASSUME NEW r \in Requests, NEW to \in Services, NEW verb \in Verbs,
               NEW path \in Paths(to), NEW token \in Tokens, NEW fits \in BOOLEAN,
               Receive(r, to, verb, path, token, fits)
        PROVE  IInv'
    BY <2>1, ReceiveKeeps
  <2>2. ASSUME NEW r \in Requests, GatewayStep(r) PROVE IInv'
    BY <2>2, RejectionKeeps, ForwardKeeps, PassOnKeeps, GiveUpKeeps DEF GatewayStep
  <2>3. ASSUME NEW r \in Requests, ServiceStep(r) PROVE IInv'
    BY <2>3, RefusalKeeps, RunHandlerKeeps, EndHandlerKeeps DEF ServiceStep
  <2>4. ASSUME NEW s \in Services, Crash(s) PROVE IInv'
    BY <2>4, CrashKeeps
  <2>5. CASE \/ \E s \in Services : Restart(s)
             \/ \E h \in Throttled : OtherClient(h) \/ WindowEnds(h)
             \/ UNCHANGED vars
    BY <2>5, SurroundingsKeep
  <2> QED
    BY <2>1, <2>2, <2>3, <2>4, <2>5 DEF Next
<1> QED
  BY <1>1, <1>2, PTL DEF Spec

\* The gateway's answer to a forwarded request says success if and only if the
\* handler succeeded, when it comes of a reply; and without a reply it says so of
\* nothing but the update of a product.
THEOREM AnswersTell == Spec => []AnswerTellsOutcome
<1>1. IInv => AnswerTellsOutcome
  BY DEF IInv, Keeps, AnswerTellsOutcome
<1> QED
  BY <1>1, Invariant, PTL

\* What a request has run at each step of its way, and that nothing breaks before
\* the first crash.
THEOREM RunsInvariant == Spec => []RunsInv
<1>1. Init => RunsInv
  BY DEF Init, RunsInv, Runs, At, Forwarded, Answered
<1>2. IInv /\ RunsInv /\ [Next]_vars => RunsInv'
  <2> SUFFICES ASSUME IInv, RunsInv, [Next]_vars PROVE RunsInv'
    OBVIOUS
  <2>1. ASSUME NEW r \in Requests, NEW to \in Services, NEW verb \in Verbs,
               NEW path \in Paths(to), NEW token \in Tokens, NEW fits \in BOOLEAN,
               Receive(r, to, verb, path, token, fits)
        PROVE  RunsInv'
    BY <2>1, ReceiveRuns
  <2>2. ASSUME NEW r \in Requests, GatewayStep(r) PROVE RunsInv'
    BY <2>2, GatewayRuns
  <2>3. ASSUME NEW r \in Requests, ServiceStep(r) PROVE RunsInv'
    BY <2>3, RefusalRuns, RunHandlerRuns, EndHandlerRuns DEF ServiceStep
  <2>4. ASSUME NEW s \in Services, Crash(s) PROVE RunsInv'
    BY <2>4, CrashRuns
  <2>5. CASE \/ \E s \in Services : Restart(s)
             \/ \E h \in Throttled : OtherClient(h) \/ WindowEnds(h)
             \/ UNCHANGED vars
    BY <2>5, SurroundingsRun
  <2> QED
    BY <2>1, <2>2, <2>3, <2>4, <2>5 DEF Next
<1> QED
  BY <1>1, <1>2, Invariant, PTL DEF Spec

\* Whatever path a client asks for, at most one handler is run for a request, and
\* it is the one the gateway's route is for: the two sets of tables, matched in
\* their own order, agree.
THEOREM OnlyHandler == Spec => []OnlyItsHandlerRuns
<1>1. RunsInv => OnlyItsHandlerRuns
  BY DEF RunsInv, Runs, OnlyItsHandlerRuns
<1> QED
  BY <1>1, RunsInvariant, PTL

\* Until a service dies, a request that is in order is refused by nothing but the
\* throttler, on every route but the two nobody is served on.
THEOREM GoodRequests == Spec => []GoodRequestIsServed
<1>1. RunsInv => GoodRequestIsServed
  BY DEF RunsInv, Runs, GoodRequestIsServed
<1> QED
  BY <1>1, RunsInvariant, PTL

===============================================================================
