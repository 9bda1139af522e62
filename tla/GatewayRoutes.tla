---------------------------- MODULE GatewayRoutes ----------------------------
(***************************************************************************)
(* The routes of the gateway (apps/gateway) and of the three services it   *)
(* calls, in the order of their declaration, which decides when two of     *)
(* them match; and how the gateway turns the error of a call into an       *)
(* answer.                                                                 *)
(*                                                                         *)
(* A path is the sequence of its segments behind the prefix of the         *)
(* controller.  ":uuid" is a parameter with a ParseUUIDPipe, ":id" one     *)
(* without.  Every function of the gateway's services calls the path of    *)
(* its own route with the same verb.                                       *)
(***************************************************************************)
EXTENDS Integers, Sequences

Services == { "auth", "order", "products" }

\* token: what becomes of a request without an authorization header.  "throws"
\* is token.startsWith of undefined, "asked" a check in the handler, "free" and
\* "optional" go on.  body: whether a pipe checks a body, a query or files.
Route(verb, path, op, token, body) ==
    [verb |-> verb, path |-> path, op |-> op, token |-> token, body |-> body]

AuthController == <<
    Route("POST", << "register" >>, "registerUser", "free", TRUE),
    Route("POST", << "verify" >>, "verifyRegisterUser", "free", TRUE),
    Route("GET", << "health" >>, "health", "free", FALSE),
    Route("GET", << "google" >>, "redirect", "free", FALSE),
    Route("GET", << "google", "callback" >>, "redirect", "free", FALSE),
    Route("GET", << "users" >>, "getAllUsers", "throws", FALSE),
    Route("GET", << "user" >>, "getAUser", "throws", FALSE),
    Route("POST", << "change-password" >>, "changePassword", "throws", TRUE),
    Route("POST", << "reset-password" >>, "resetPassword", "free", TRUE),
    Route("POST", << "forgot-password" >>, "forgotPassword", "free", TRUE),
    Route("POST", << "login" >>, "loginUser", "free", TRUE),
    Route("POST", << "logout" >>, "logout", "throws", FALSE),
    Route("POST", << "logout-all" >>, "logoutAll", "throws", FALSE),
    Route("POST", << "refresh-token" >>, "refreshToken", "free", TRUE),
    Route("POST", << "resend-otp" >>, "resendOtp", "free", TRUE),
    Route("PATCH", << "me" >>, "updateUserData", "throws", TRUE),
    Route("POST", << "me", "image" >>, "updateUserImage", "throws", TRUE) >>

ProductController == <<
    Route("GET", << "health" >>, "health", "free", FALSE),
    Route("POST", << "category" >>, "createProductCategory", "asked", TRUE),
    Route("GET", << "category" >>, "getAllCategories", "throws", FALSE),
    Route("GET", << "categories" >>, "getProductsCategory", "free", TRUE),
    Route("POST", << >>, "createProduct", "throws", TRUE),
    Route("DELETE", << ":id" >>, "deleteProduct", "throws", FALSE),
    Route("GET", << >>, "getAllProduct", "optional", TRUE),
    Route("GET", << "my-products" >>, "getMyProducts", "throws", TRUE),
    Route("GET", << ":id" >>, "getSingleProduct", "free", FALSE),
    Route("PATCH", << ":uuid" >>, "updateProduct", "throws", TRUE) >>

OrderController == <<
    Route("GET", << "health" >>, "health", "free", FALSE),
    Route("POST", << >>, "createOrder", "throws", TRUE),
    Route("GET", << >>, "getMyOrders", "throws", FALSE),
    Route("GET", << "all-orders" >>, "getAllOrders", "throws", FALSE),
    Route("GET", << ":uuid", "my-order" >>, "getMyOrderById", "throws", FALSE),
    Route("GET", << ":uuid" >>, "getSingleOrder", "throws", FALSE),
    Route("GET", << ":uuid", "cancel" >>, "cancelMyOrder", "throws", FALSE),
    Route("GET", << ":uuid", "confirm-payment" >>, "confirmMyOrder", "throws", FALSE),
    Route("DELETE", << ":uuid" >>, "deleteOrder", "throws", FALSE) >>

GatewayTable ==
    [auth |-> AuthController, products |-> ProductController, order |-> OrderController]

-------------------------------------------------------------------------------
\* guard: "user" is JwtAuthGuard, "seller" RolesGuard with SELLER and ADMIN
\* behind it.  A handler is named as the gateway's function that is for it.  The
\* two Google routes are left out: browsers reach them by a redirect.
Handler(verb, path, handler, guard) ==
    [verb |-> verb, path |-> path, op |-> handler, guard |-> guard]

AuthServiceController == <<
    Handler("GET", << >>, "getHello", "free"),
    Handler("POST", << "register" >>, "registerUser", "free"),
    Handler("POST", << "verify" >>, "verifyRegisterUser", "free"),
    Handler("POST", << "login" >>, "loginUser", "free"),
    Handler("GET", << "users" >>, "getAllUsers", "user"),
    Handler("GET", << "user" >>, "getAUser", "user"),
    Handler("POST", << "forgot-password" >>, "forgotPassword", "free"),
    Handler("POST", << "reset-password" >>, "resetPassword", "free"),
    Handler("POST", << "change-password" >>, "changePassword", "user"),
    Handler("POST", << "logout" >>, "logout", "user"),
    Handler("POST", << "logout-all" >>, "logoutAll", "user"),
    Handler("POST", << "refresh-token" >>, "refreshToken", "free"),
    Handler("POST", << "resend-otp" >>, "resendOtp", "free"),
    Handler("PATCH", << "me" >>, "updateUserData", "user"),
    Handler("POST", << "me", "image" >>, "updateUserImage", "user") >>

ProductServiceController == <<
    Handler("POST", << "category" >>, "createProductCategory", "user"),
    Handler("GET", << "category" >>, "getAllCategories", "user"),
    Handler("GET", << "categories" >>, "getProductsCategory", "free"),
    Handler("POST", << >>, "createProduct", "seller"),
    Handler("DELETE", << ":uuid" >>, "deleteProduct", "user"),
    Handler("GET", << >>, "getAllProduct", "free"),
    Handler("GET", << "my-products" >>, "getMyProducts", "seller"),
    Handler("PATCH", << ":uuid" >>, "updateProduct", "seller"),
    Handler("GET", << ":uuid" >>, "getSingleProduct", "free") >>

OrderServiceController == <<
    Handler("POST", << >>, "createOrder", "user"),
    Handler("GET", << >>, "getMyOrders", "user"),
    Handler("GET", << >>, "getAllOrders", "user"),
    Handler("GET", << ":uuid" >>, "getSingleOrder", "user"),
    Handler("GET", << ":uuid", "my-order" >>, "getMyOrderById", "user"),
    Handler("GET", << ":uuid", "cancel" >>, "cancelMyOrder", "user"),
    Handler("GET", << ":uuid", "confirm-payment" >>, "confirmMyOrder", "user"),
    Handler("GET", << ":uuid", "failed-payment" >>, "failedPayment", "user"),
    Handler("DELETE", << ":uuid" >>, "deleteOrder", "user") >>

ServiceTable ==
    [auth |-> AuthServiceController, products |-> ProductServiceController,
     order |-> OrderServiceController]

-------------------------------------------------------------------------------
Parameter == { ":id", ":uuid" }

Matches(entry, verb, path) ==
    /\ entry.verb = verb
    /\ Len(entry.path) = Len(path)
    /\ \A i \in DOMAIN path : entry.path[i] \in Parameter \cup { path[i] }

\* Express tries the routes in the order of their declaration.
Resolve(table, verb, path) ==
    { table[i] : i \in { j \in DOMAIN table :
                            /\ Matches(table[j], verb, path)
                            /\ \A k \in 1..(j - 1) : ~Matches(table[k], verb, path) } }

\* Mutation: no parameter has a pipe.
ParsesAnything(entry, path) == TRUE

\* ParseUUIDPipe.
ParsesParameters(entry, path) ==
    \A i \in DOMAIN path : entry.path[i] = ":uuid" => path[i] = "uuid"

-------------------------------------------------------------------------------
Local == { "health", "redirect" }

AuthOps == { AuthController[i].op : i \in DOMAIN AuthController } \ Local

OrderOps == { OrderController[i].op : i \in DOMAIN OrderController } \ Local

ProductOps == { ProductController[i].op : i \in DOMAIN ProductController } \ Local

Ops == AuthOps \cup OrderOps \cup ProductOps

ServiceOps ==
    UNION { { ServiceTable[s][i].op : i \in DOMAIN ServiceTable[s] } : s \in Services }

\* The catch blocks that answer 400 whatever went wrong.
ToBadRequest == OrderOps \cup { "getAllCategories", "getAllProduct", "deleteProduct" }

\* Mutation: every catch block that reads no status answers as updateProduct's.
NoStatus(op) == 200

\* The answer to an error without a response: the service cannot be reached, or
\* the connection broke.  Two catch blocks read error.response.data of it and
\* throw, which is a 500.  updateProduct's has no status to give to its
\* HttpException, and Nest sends the one the route has when all goes well.
WithoutResponse(op) ==
    CASE op \in AuthOps -> 502
      [] op \in ToBadRequest \ { "getAllOrders" } -> 400
      [] op = "updateProduct" -> 200
      [] OTHER -> 500

\* The answer to an error with a response of this status.
WithResponse(op, status) ==
    IF op \in ToBadRequest THEN 400 ELSE status

===============================================================================
