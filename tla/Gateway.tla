------------------------------- MODULE Gateway -------------------------------
(***************************************************************************)
(* The gateway (apps/gateway) with the three services behind it: what      *)
(* becomes of a request from its arrival to its answer.                    *)
(*                                                                         *)
(* A request is routed, checked by the pipes and by the handler, and       *)
(* forwarded by HTTP; the service routes it again, checks it with its own  *)
(* guards and pipes, runs a handler and replies; the gateway turns the     *)
(* reply, or the error of a call without one, into its answer.  What a     *)
(* handler does is the subject of the other modules: here it succeeds or   *)
(* refuses.  The gateway keeps nothing between requests.                   *)
(***************************************************************************)
EXTENDS GatewayRoutes

CONSTANTS
    Requests,
    Limit,      \* calls of a throttled handler in a window (5 in the code)
    MaxFaults,  \* bound on crashes of services
    None

ASSUME BoundsAssumption == Limit \in Nat /\ MaxFaults \in Nat

VARIABLES
    request,  \* each request and how far it has come, None before it is sent
    ran,      \* history: the handlers that were run for each request
    done,     \* history: whether one of them succeeded
    alive,    \* whether each service is running
    hits,     \* calls of each throttled handler in its current window
    faults    \* crashes so far

serviceVars == << alive, hits, faults >>
vars == << request, ran, done, serviceVars >>

\* The handlers behind a ThrottlerGuard.
Throttled == { "registerUser", "verifyRegisterUser" }

\* no header, one that JwtStrategy refuses, a buyer's, a seller's or an admin's
Tokens == { "none", "bad", "buyer", "seller" }

\* What handlers throw: a refusal, and an error of their own.
HandlerErrors == { 404, 500 }

\* 200 stands for every success.
Status == { 200, 400, 401, 403, 404, 429, 500, 502 }

Steps == { "received", "calling", "running", "replying", "broken", "answered" }

Ids == { "uuid", "word" }

\* The paths a client may ask for: those of the routes, with any parameters, and
\* one the gateway does not offer.
Paths(to) ==
    { << "uuid", "failed-payment" >> } \cup
    { [i \in DOMAIN GatewayTable[to][k].path |->
          IF GatewayTable[to][k].path[i] \in Parameter THEN id ELSE GatewayTable[to][k].path[i]] :
      k \in DOMAIN GatewayTable[to], id \in Ids }

Verbs == { "GET", "POST", "PATCH", "DELETE" }

\* op: the gateway's function, None until the request is forwarded.  reply: the
\* status of the service's reply, None without one.  status: the answer.
Request == [to : Services, verb : Verbs, path : UNION { Paths(s) : s \in Services },
            token : Tokens, fits : BOOLEAN, op : Ops \cup {None},
            step : Steps, reply : Status \cup {None}, status : Status \cup {None}]

ASSUME NoneAssumption == None \notin Request \cup Status \cup Ops

TypeOK ==
    /\ request \in [Requests -> Request \cup {None}]
    /\ ran \in [Requests -> Seq(ServiceOps)]
    /\ done \in [Requests -> BOOLEAN]
    /\ alive \in [Services -> BOOLEAN]
    /\ hits \in [Throttled -> 0..Limit]
    /\ faults \in 0..MaxFaults

Init ==
    /\ request = [r \in Requests |-> None]
    /\ ran = [r \in Requests |-> << >>]
    /\ done = [r \in Requests |-> FALSE]
    /\ alive = [s \in Services |-> TRUE]
    /\ hits = [h \in Throttled |-> 0]
    /\ faults = 0

At(r, step) == request[r] # None /\ request[r].step = step

Answer(r, status) ==
    /\ request' = [request EXCEPT ![r] = [@ EXCEPT !.step = "answered", !.status = status]]
    /\ UNCHANGED << ran, done, serviceVars >>

-------------------------------------------------------------------------------
(***************************************************************************)
(* The gateway                                                             *)
(***************************************************************************)
Receive(r, to, verb, path, token, fits) ==
    /\ request[r] = None
    /\ request' = [request EXCEPT ![r] =
           [to |-> to, verb |-> verb, path |-> path, token |-> token, fits |-> fits,
            op |-> None, step |-> "received", reply |-> None, status |-> None]]
    /\ UNCHANGED << ran, done, serviceVars >>

GatewayRoute(r) ==
    Resolve(GatewayTable[request[r].to], request[r].verb, request[r].path)

NotFound(r) ==
    /\ At(r, "received")
    /\ GatewayRoute(r) = {}
    /\ Answer(r, 404)

\* The pipes run before the handler.
PassesPipes(r, entry) ==
    /\ ParsesParameters(entry, request[r].path)
    /\ entry.body => request[r].fits

RejectInput(r) ==
    /\ At(r, "received")
    /\ \E entry \in GatewayRoute(r) : ~PassesPipes(r, entry)
    /\ Answer(r, 400)

\* The handler looks at the authorization header, and throws without one.
RejectToken(r) ==
    /\ At(r, "received")
    /\ request[r].token = "none"
    /\ \E entry \in GatewayRoute(r) :
           /\ PassesPipes(r, entry)
           /\ \/ entry.token = "throws" /\ Answer(r, 500)
              \/ entry.token = "asked" /\ Answer(r, 400)

AnswerLocally(r) ==
    /\ At(r, "received")
    /\ \E entry \in GatewayRoute(r) : entry.op \in Local
    /\ Answer(r, 200)

\* httpService.get, post, patch or delete, with the token.
Forward(r) ==
    /\ At(r, "received")
    /\ \E entry \in GatewayRoute(r) :
           /\ PassesPipes(r, entry)
           /\ request[r].token = "none" => entry.token \in { "free", "optional" }
           /\ entry.op \notin Local
           /\ request' = [request EXCEPT ![r] = [@ EXCEPT !.step = "calling", !.op = entry.op]]
    /\ UNCHANGED << ran, done, serviceVars >>

\* The reply is passed on, or goes through the catch block.
PassOn(r) ==
    /\ At(r, "replying")
    /\ Answer(r, IF request[r].reply = 200 THEN 200
                 ELSE WithResponse(request[r].op, request[r].reply))

\* Mutation: a call that is not answered waits.
WaitForService(r) ==
    /\ At(r, "broken")
    /\ Answer(r, WithoutResponse(request[r].op))

\* Nobody listens, or the connection broke.
GiveUp(r) ==
    /\ \/ At(r, "broken")
       \/ At(r, "calling") /\ ~alive[request[r].to]
    /\ Answer(r, WithoutResponse(request[r].op))

-------------------------------------------------------------------------------
(***************************************************************************)
(* A service                                                               *)
(***************************************************************************)
Arrives(r) == At(r, "calling") /\ alive[request[r].to]

\* Mutation: the handlers are declared in the reverse order.
ReversedRoute(r) ==
    LET table == ServiceTable[request[r].to]
        turned == [i \in DOMAIN table |-> table[Len(table) + 1 - i]]
    IN  Resolve(turned, request[r].verb, request[r].path)

ServiceRoute(r) ==
    Resolve(ServiceTable[request[r].to], request[r].verb, request[r].path)

Reply(r, status) ==
    request' = [request EXCEPT ![r] = [@ EXCEPT !.step = "replying", !.reply = status]]

\* ThrottlerGuard counts by handler and address, and the address is the gateway's
\* for every client.
Count(r) ==
    /\ request[r].op \in Throttled => hits[request[r].op] < Limit
    /\ hits' = [h \in Throttled |-> hits[h] + (IF h = request[r].op THEN 1 ELSE 0)]

Throttle(r) ==
    /\ Arrives(r)
    /\ request[r].op \in Throttled
    /\ hits[request[r].op] = Limit
    /\ Reply(r, 429)
    /\ UNCHANGED << ran, done, serviceVars >>

\* JwtAuthGuard, then RolesGuard.
AdmitsCaller(r, entry) ==
    /\ entry.guard \in { "user", "seller" } => request[r].token \in { "buyer", "seller" }
    /\ entry.guard = "seller" => request[r].token = "seller"

RefuseCaller(r) ==
    /\ Arrives(r)
    /\ Count(r)
    /\ \E entry \in ServiceRoute(r) :
           /\ ~AdmitsCaller(r, entry)
           /\ Reply(r, IF request[r].token = "buyer" THEN 403 ELSE 401)
    /\ UNCHANGED << ran, done, alive, faults >>

\* forgotPassword posts the address instead of an object with it.
PostsItsDto(op) == op # "forgotPassword"

\* The pipes of the service: the gateway has checked the same DTO.
AdmitsInput(r, entry) ==
    /\ ParsesParameters(entry, request[r].path)
    /\ PostsItsDto(request[r].op)

RefuseInput(r) ==
    /\ Arrives(r)
    /\ Count(r)
    /\ \E entry \in ServiceRoute(r) :
           /\ AdmitsCaller(r, entry)
           /\ ~AdmitsInput(r, entry)
    /\ Reply(r, 400)
    /\ UNCHANGED << ran, done, alive, faults >>

RunHandler(r) ==
    /\ Arrives(r)
    /\ Count(r)
    /\ \E entry \in ServiceRoute(r) :
           /\ AdmitsCaller(r, entry)
           /\ AdmitsInput(r, entry)
           /\ ran' = [ran EXCEPT ![r] = Append(@, entry.op)]
    /\ request' = [request EXCEPT ![r].step = "running"]
    /\ UNCHANGED << done, alive, faults >>

\* The handler has had its effects, or has refused.
EndHandler(r) ==
    /\ At(r, "running")
    /\ \/ Reply(r, 200) /\ done' = [done EXCEPT ![r] = TRUE]
       \/ (\E status \in HandlerErrors : Reply(r, status)) /\ UNCHANGED done
    /\ UNCHANGED << ran, serviceVars >>

-------------------------------------------------------------------------------
(***************************************************************************)
(* The surroundings                                                        *)
(***************************************************************************)

\* A service dies, with its handlers, its replies and its counters.
Crash(s) ==
    /\ alive[s]
    /\ faults < MaxFaults
    /\ faults' = faults + 1
    /\ alive' = [alive EXCEPT ![s] = FALSE]
    /\ request' = [r \in Requests |->
           IF (At(r, "running") \/ At(r, "replying")) /\ request[r].to = s
           THEN [request[r] EXCEPT !.step = "broken", !.reply = None]
           ELSE request[r]]
    /\ hits' = IF s = "auth" THEN [h \in Throttled |-> 0] ELSE hits
    /\ UNCHANGED << ran, done >>

Restart(s) ==
    /\ ~alive[s]
    /\ alive' = [alive EXCEPT ![s] = TRUE]
    /\ UNCHANGED << request, ran, done, hits, faults >>

\* A request of another client of the gateway.
OtherClient(h) ==
    /\ alive["auth"]
    /\ hits[h] < Limit
    /\ hits' = [hits EXCEPT ![h] = @ + 1]
    /\ UNCHANGED << request, ran, done, alive, faults >>

WindowEnds(h) ==
    /\ hits[h] > 0
    /\ hits' = [hits EXCEPT ![h] = 0]
    /\ UNCHANGED << request, ran, done, alive, faults >>

-------------------------------------------------------------------------------
GatewayStep(r) ==
    \/ NotFound(r) \/ RejectInput(r) \/ RejectToken(r) \/ AnswerLocally(r)
    \/ Forward(r) \/ PassOn(r) \/ GiveUp(r)

ServiceStep(r) ==
    \/ Throttle(r) \/ RefuseCaller(r) \/ RefuseInput(r) \/ RunHandler(r) \/ EndHandler(r)

Next ==
    \/ \E r \in Requests :
           \/ \E to \in Services : \E verb \in Verbs, path \in Paths(to), token \in Tokens,
                 fits \in BOOLEAN : Receive(r, to, verb, path, token, fits)
           \/ GatewayStep(r)
           \/ ServiceStep(r)
    \/ \E s \in Services : Crash(s) \/ Restart(s)
    \/ \E h \in Throttled : OtherClient(h) \/ WindowEnds(h)

Spec == Init /\ [][Next]_vars

\* The event loop goes on, and a handler of a service that lives comes to an end:
\* HttpModule has no timeout, so the gateway waits as long as it takes.
Fairness == \A r \in Requests : WF_vars(GatewayStep(r) \/ ServiceStep(r))

FairSpec == Spec /\ Fairness

-------------------------------------------------------------------------------
(***************************************************************************)
(* Properties                                                              *)
(***************************************************************************)
Forwarded(r) == request[r] # None /\ request[r].op # None

Answered(r) == Forwarded(r) /\ request[r].step = "answered"

\* Success if and only if the handler succeeded, for an answer that comes of a
\* reply; without one, success is said of nothing but a product's update.
Tells(r) ==
    /\ request[r].reply # None => (request[r].status = 200 <=> done[r])
    /\ request[r].status = 200 =>
           done[r] \/ (request[r].op = "updateProduct" /\ request[r].reply = None)

\* The answer to a forwarded request tells what was done: success if and only if
\* its handler succeeded, as long as the service's reply came.  Without a reply
\* only an update of a product is answered with a success nobody can vouch for;
\* every other answer is an error, though the handler may have succeeded before
\* its reply was lost.  (The catch blocks of the gateway's services.)
AnswerTellsOutcome == \A r \in Requests : Answered(r) => Tells(r)

\* A request runs the handler its route is for, at most once, and no other, for
\* every path a client can ask for: the tables of the gateway and of the services
\* are written apart, and match paths in their own order.  (The controllers.)
OnlyItsHandlerRuns ==
    \A r \in Requests :
        ran[r] # << >> => Forwarded(r) /\ ran[r] = << request[r].op >>

\* The routes nobody can be served on: the order service's getAllOrders is behind
\* getMyOrders, and forgotPassword sends no DTO.
Unserved == { "getAllOrders", "forgotPassword" }

InOrder(r) ==
    /\ request[r].token = "seller"
    /\ request[r].fits
    /\ \A entry \in GatewayRoute(r), i \in DOMAIN request[r].path :
           entry.path[i] \in Parameter => request[r].path[i] = "uuid"

\* A request that is in order reaches a handler, unless its service died, other
\* clients have used up the window, or its route is one of the unserved.  (The
\* two tables agree, the token is passed on, the guards admit it.)
GoodRequestIsServed ==
    \A r \in Requests :
        Answered(r) /\ InOrder(r) /\ faults = 0 =>
            \/ ran[r] # << >>
            \/ request[r].reply = 429
            \/ request[r].op \in Unserved

\* What a request has of its handler at each step of its way.
Keeps(r) ==
    /\ request[r] = None \/ At(r, "received") => ~done[r]
    /\ At(r, "received") => request[r].op = None
    /\ At(r, "calling") \/ At(r, "running") => ~done[r]
    /\ At(r, "replying") => request[r].reply # None /\ (request[r].reply = 200 <=> done[r])
    /\ request[r] # None /\ request[r].step \notin { "replying", "answered" } =>
           request[r].reply = None
    /\ Answered(r) => Tells(r)

\* Types, and what a request keeps on its way: success is never told of a call
\* whose reply has not come, and a broken one loses its reply.
IInv == TypeOK /\ \A r \in Requests : Keeps(r)

\* What a request has run at each step of its way, and, until a service dies, why
\* one that is in order has run nothing.
Runs(r) ==
    /\ request[r] = None \/ At(r, "received") \/ At(r, "calling") => ran[r] = << >>
    /\ request[r] # None /\ request[r].step \notin { "received", "answered" } => Forwarded(r)
    /\ Forwarded(r) => \E entry \in GatewayRoute(r) : entry.op = request[r].op
    /\ ran[r] # << >> => Forwarded(r) /\ ran[r] = << request[r].op >>
    /\ At(r, "running") => ran[r] # << >>
    /\ (At(r, "replying") \/ Answered(r)) /\ InOrder(r) /\ faults = 0 =>
           ran[r] # << >> \/ request[r].reply = 429 \/ request[r].op \in Unserved

\* What a request runs, and that nothing breaks before the first crash.
RunsInv ==
    /\ \A r \in Requests : Runs(r)
    /\ faults = 0 => /\ \A s \in Services : alive[s]
                    /\ \A r \in Requests : ~At(r, "broken")

\* Every request is answered, whatever dies on the way.  (Each call is inside a
\* try block, and a refused or broken connection is an error.)
EveryRequestIsAnswered ==
    \A r \in Requests : request[r] # None ~> At(r, "answered")

===============================================================================
