----------------------------- MODULE AuthAccount -----------------------------
(***************************************************************************)
(* How an account comes to be and how its password is reset: registration  *)
(* with an OTP, the first sign-in with Google, the forgotten password, and  *)
(* the OTPs that are sent again.  One e-mail address: every key of the      *)
(* cache and every query of these handlers contains it.                    *)
(*                                                                         *)
(* The cache is in the memory of the process, so a handler is interrupted  *)
(* only where it waits for Postgres or bcrypt.  An action is what a handler *)
(* does between two such waits.                                            *)
(***************************************************************************)
EXTENDS Naturals, FiniteSets

CONSTANTS
    Requests,       \* requests that may arrive, each at most once
    Initial,        \* the password of an account that is there from the start
    ResendLimit,    \* OTPs sent again before one has to wait, 3 in the code
    None,           \* null
    MaxFaults       \* bound on failed statements and crashes together

ASSUME BoundsAssumption == ResendLimit \in Nat /\ MaxFaults \in Nat

VARIABLES
    user,           \* the row with this address in table "user"
    registration,   \* cache key user-reg
    resetOtp,       \* cache key forget-password: the OTP
    attempts,       \* cache keys resend-limit, by type of OTP
    request,        \* the handler of each request, None before it arrives
    mailed,         \* topics REGISTER_USER_OTP and FORGOT_PASSWORD_OTP
    created,        \* topics USER_CREATED and GOOGLE_USER_CREATED
    resent,         \* OTPs sent again since attempts was last forgotten (history)
    faults          \* failed statements and crashes so far

vars == << user, registration, resetOtp, attempts, request, mailed, created,
           resent, faults >>

cache == << registration, resetOtp, attempts >>

topics == << mailed, created >>

-------------------------------------------------------------------------------
\* An OTP, and a password, has the name of the request it was drawn for, or
\* came with; no two OTPs are taken to be equal.
Otp == Requests

Password == Requests \cup {Initial}

User == [provider : {"local"}, password : Password \cup {None}]
        \cup [provider : {"google"}, password : {None}]

\* The password is optional in CreateUserDto.
Registration == [otp : Otp, password : Password \cup {None}]

Type == { "registration", "forgot-password" }

Ops == { "registerUser", "verifyOtpRegisterUser", "validateGoogleUser",
         "forgotPasswordToken", "resetPassword", "resendOtp" }

Running == { "store", "check", "select", "renew", "insert", "announce", "token",
             "update", "delete" }

Finished == { "ok", "refused", "failed" }

\* A handler holds the OTP it was called with and the registration it found.
Handler == [op : Ops, step : Running \cup Finished, otp : Otp \cup {None},
            held : Registration \cup {None}]

ASSUME NoneAssumption ==
    None \notin User \cup Registration \cup Handler \cup Otp \cup Password

TypeOK ==
    /\ user \in User \cup {None}
    /\ registration \in Registration \cup {None}
    /\ resetOtp \in Otp \cup {None}
    /\ attempts \in [Type -> 0..ResendLimit]
    /\ request \in [Requests -> Handler \cup {None}]
    /\ mailed \subseteq [type : Type, otp : Otp]
    /\ created \subseteq [provider : { "local", "google" }, by : Requests]
    /\ resent \in [Type -> Nat]
    /\ faults \in 0..MaxFaults

\* The address is new, or has an account already.
Init ==
    /\ user \in { None, [provider |-> "local", password |-> Initial],
                  [provider |-> "google", password |-> None] }
    /\ registration = None
    /\ resetOtp = None
    /\ attempts = [t \in Type |-> 0]
    /\ request = [q \in Requests |-> None]
    /\ mailed = {}
    /\ created = {}
    /\ resent = [t \in Type |-> 0]
    /\ faults = 0

-------------------------------------------------------------------------------
At(q, op, step) == request[q] # None /\ request[q].op = op /\ request[q].step = step

InFlight(q) == request[q] # None /\ request[q].step \in Running

Is(provider) == user # None /\ user.provider = provider

Holds(q, op, step, otp, held) ==
    request' = [request EXCEPT
        ![q] = [op |-> op, step |-> step, otp |-> otp, held |-> held]]

Begin(q, op, step) == Holds(q, op, step, None, None)

Goto(q, step) == request' = [request EXCEPT ![q].step = step]

\* kafkaClient.emit, which nobody waits for.
Mail(type, otp) == mailed' \in { mailed, mailed \cup {[type |-> type, otp |-> otp]} }

Announce(provider, q) ==
    created' \in { created, created \cup {[provider |-> provider, by |-> q]} }

-------------------------------------------------------------------------------
(***************************************************************************)
(* Registration                                                            *)
(***************************************************************************)
RegisterUser(q) ==
    /\ request[q] = None
    /\ Begin(q, "registerUser", IF user = None THEN "store" ELSE "refused")
    /\ UNCHANGED << user, cache, topics, resent, faults >>

StoreRegistration(q) ==
    /\ At(q, "registerUser", "store")
    /\ \E password \in { q, None } :
           registration' = [otp |-> q, password |-> password]
    /\ Mail("registration", q)
    /\ Goto(q, "ok")
    /\ UNCHANGED << user, resetOtp, attempts, created, resent, faults >>

\* The cache is read before the table; both are looked at afterwards.
VerifyOtp(q, otp) ==
    /\ request[q] = None
    /\ Holds(q, "verifyOtpRegisterUser", "check", otp, registration)
    /\ UNCHANGED << user, cache, topics, resent, faults >>

CheckRegistration(q) ==
    /\ At(q, "verifyOtpRegisterUser", "check")
    /\ LET held == request[q].held
           accepted == user = None /\ held # None /\ held.otp = request[q].otp
       IN Goto(q, IF accepted THEN "insert" ELSE "refused")
    /\ UNCHANGED << user, cache, topics, resent, faults >>

\* Mutation: addresses are not unique in the table.
InsertUserUnchecked(q, op, row) ==
    /\ At(q, op, "insert")
    /\ user' = row
    /\ Goto(q, "announce")
    /\ UNCHANGED << cache, topics, resent, faults >>

\* Mutation: the INSERT is tried again until the address is free.
InsertUserRetried(q, op, row) ==
    /\ At(q, op, "insert")
    /\ user = None
    /\ user' = row
    /\ Goto(q, "announce")
    /\ UNCHANGED << cache, topics, resent, faults >>

\* INSERT: the address is unique.
InsertUser(q, op, row) ==
    /\ At(q, op, "insert")
    /\ IF user = None
       THEN user' = row /\ Goto(q, "announce")
       ELSE UNCHANGED user /\ Goto(q, "failed")
    /\ UNCHANGED << cache, topics, resent, faults >>

InsertLocal(q) ==
    InsertUser(q, "verifyOtpRegisterUser",
               [provider |-> "local", password |-> request[q].held.password])

AnnounceLocal(q) ==
    /\ At(q, "verifyOtpRegisterUser", "announce")
    /\ registration' = None
    /\ Announce("local", q)
    /\ Goto(q, "token")
    /\ UNCHANGED << user, resetOtp, attempts, mailed, resent, faults >>

\* The hash of the refresh token is stored and the caller gets the tokens.
StoreToken(q) ==
    /\ request[q] # None
    /\ request[q].step = "token"
    /\ Goto(q, "ok")
    /\ UNCHANGED << user, cache, topics, resent, faults >>

-------------------------------------------------------------------------------
(***************************************************************************)
(* Sign-in with Google                                                     *)
(***************************************************************************)

\* Only an account of the provider Google is found.
ValidateGoogleUser(q) ==
    /\ request[q] = None
    /\ Begin(q, "validateGoogleUser", IF Is("google") THEN "token" ELSE "insert")
    /\ UNCHANGED << user, cache, topics, resent, faults >>

InsertGoogle(q) ==
    InsertUser(q, "validateGoogleUser", [provider |-> "google", password |-> None])

AnnounceGoogle(q) ==
    /\ At(q, "validateGoogleUser", "announce")
    /\ Announce("google", q)
    /\ Goto(q, "token")
    /\ UNCHANGED << user, cache, mailed, resent, faults >>

-------------------------------------------------------------------------------
(***************************************************************************)
(* The forgotten password                                                  *)
(***************************************************************************)

\* Mutation: Google accounts get an OTP as well.
ForgotPasswordOfAnyone(q) ==
    /\ request[q] = None
    /\ Begin(q, "forgotPasswordToken", IF user = None THEN "ok" ELSE "store")
    /\ UNCHANGED << user, cache, topics, resent, faults >>

\* An unknown address gets the same answer, and no OTP.
ForgotPassword(q) ==
    /\ request[q] = None
    /\ Begin(q, "forgotPasswordToken",
             IF user = None THEN "ok"
             ELSE IF Is("google") THEN "refused" ELSE "store")
    /\ UNCHANGED << user, cache, topics, resent, faults >>

StoreReset(q) ==
    /\ At(q, "forgotPasswordToken", "store")
    /\ resetOtp' = q
    /\ Mail("forgot-password", q)
    /\ Goto(q, "ok")
    /\ UNCHANGED << user, registration, attempts, created, resent, faults >>

ResetPassword(q, otp) ==
    /\ request[q] = None
    /\ Holds(q, "resetPassword", IF resetOtp = otp THEN "check" ELSE "refused", otp, None)
    /\ UNCHANGED << user, cache, topics, resent, faults >>

CheckReset(q) ==
    /\ At(q, "resetPassword", "check")
    /\ Goto(q, IF user = None THEN "refused" ELSE "update")
    /\ UNCHANGED << user, cache, topics, resent, faults >>

\* UPDATE by id: the password has been hashed.
UpdatePassword(q) ==
    /\ At(q, "resetPassword", "update")
    /\ user' = IF user = None THEN None ELSE [user EXCEPT !.password = q]
    /\ Goto(q, "delete")
    /\ UNCHANGED << cache, topics, resent, faults >>

\* Mutation: the OTP stays until it expires.
KeepResetOtp(q) ==
    /\ At(q, "resetPassword", "delete")
    /\ Goto(q, "ok")
    /\ UNCHANGED << user, cache, topics, resent, faults >>

DeleteResetOtp(q) ==
    /\ At(q, "resetPassword", "delete")
    /\ resetOtp' = None
    /\ Goto(q, "ok")
    /\ UNCHANGED << user, registration, attempts, topics, resent, faults >>

-------------------------------------------------------------------------------
(***************************************************************************)
(* OTPs sent again                                                         *)
(***************************************************************************)
CountAttempt(type) == attempts' = [attempts EXCEPT ![type] = @ + 1]

CountResent(type) == resent' = [resent EXCEPT ![type] = @ + 1]

\* Mutation: one attempt too many is let through.
ResendRegistrationOtpOffByOne(q) ==
    /\ request[q] = None
    /\ IF attempts["registration"] > ResendLimit
       THEN Begin(q, "resendOtp", "refused") /\ UNCHANGED attempts
       ELSE Begin(q, "resendOtp", "select") /\ CountAttempt("registration")
    /\ UNCHANGED << user, registration, resetOtp, topics, resent, faults >>

ResendRegistrationOtp(q) ==
    /\ request[q] = None
    /\ IF attempts["registration"] >= ResendLimit
       THEN Begin(q, "resendOtp", "refused") /\ UNCHANGED attempts
       ELSE Begin(q, "resendOtp", "select") /\ CountAttempt("registration")
    /\ UNCHANGED << user, registration, resetOtp, topics, resent, faults >>

\* Only a local account is verified.
SelectVerified(q) ==
    /\ At(q, "resendOtp", "select")
    /\ Goto(q, IF Is("local") THEN "refused" ELSE "renew")
    /\ UNCHANGED << user, cache, topics, resent, faults >>

\* The data of the registration stay, with a new OTP.
RenewRegistrationOtp(q) ==
    /\ At(q, "resendOtp", "renew")
    /\ IF registration = None
       THEN Goto(q, "refused") /\ UNCHANGED << registration, mailed, resent >>
       ELSE /\ registration' = [registration EXCEPT !.otp = q]
            /\ Mail("registration", q)
            /\ CountResent("registration")
            /\ Goto(q, "ok")
    /\ UNCHANGED << user, resetOtp, attempts, created, faults >>

\* Mutation: the attempt is not counted.
ResendResetOtpUncounted(q) ==
    /\ request[q] = None
    /\ IF attempts["forgot-password"] >= ResendLimit \/ resetOtp = None
       THEN Begin(q, "resendOtp", "refused") /\ UNCHANGED << resetOtp, mailed, resent >>
       ELSE /\ resetOtp' = q
            /\ Mail("forgot-password", q)
            /\ CountResent("forgot-password")
            /\ Begin(q, "resendOtp", "ok")
    /\ UNCHANGED << user, registration, attempts, created, faults >>

\* No wait: there is no query.
ResendResetOtp(q) ==
    /\ request[q] = None
    /\ IF attempts["forgot-password"] >= ResendLimit
       THEN UNCHANGED attempts
       ELSE CountAttempt("forgot-password")
    /\ IF attempts["forgot-password"] >= ResendLimit \/ resetOtp = None
       THEN Begin(q, "resendOtp", "refused") /\ UNCHANGED << resetOtp, mailed, resent >>
       ELSE /\ resetOtp' = q
            /\ Mail("forgot-password", q)
            /\ CountResent("forgot-password")
            /\ Begin(q, "resendOtp", "ok")
    /\ UNCHANGED << user, registration, created, faults >>

-------------------------------------------------------------------------------
(***************************************************************************)
(* Expiry and faults                                                       *)
(***************************************************************************)

\* Five minutes after an OTP was drawn.
ExpireOtp ==
    /\ \/ registration # None /\ registration' = None /\ UNCHANGED resetOtp
       \/ resetOtp # None /\ resetOtp' = None /\ UNCHANGED registration
    /\ UNCHANGED << user, attempts, request, topics, resent, faults >>

\* Ten minutes after the last attempt, long after its handler has ended.
ExpireAttempts(type) ==
    /\ attempts[type] > 0
    /\ \A q \in Requests : InFlight(q) => request[q].op # "resendOtp"
    /\ attempts' = [attempts EXCEPT ![type] = 0]
    /\ resent' = [resent EXCEPT ![type] = 0]
    /\ UNCHANGED << user, registration, resetOtp, request, topics, faults >>

\* A statement fails, and with it the request.
StatementFails(q) ==
    /\ InFlight(q)
    /\ request[q].step \in { "check", "select", "insert", "update", "token" }
    /\ faults < MaxFaults
    /\ faults' = faults + 1
    /\ Goto(q, "failed")
    /\ UNCHANGED << user, cache, topics, resent >>

\* The process dies with its handlers and its cache.
Crash ==
    /\ faults < MaxFaults
    /\ faults' = faults + 1
    /\ registration' = None
    /\ resetOtp' = None
    /\ attempts' = [t \in Type |-> 0]
    /\ resent' = [t \in Type |-> 0]
    /\ request' = [q \in Requests |->
           IF InFlight(q) THEN [request[q] EXCEPT !.step = "failed"] ELSE request[q]]
    /\ UNCHANGED << user, topics >>

-------------------------------------------------------------------------------
Arrives(q) ==
    \/ RegisterUser(q)
    \/ ValidateGoogleUser(q)
    \/ ForgotPassword(q)
    \/ \E otp \in Otp : VerifyOtp(q, otp) \/ ResetPassword(q, otp)
    \/ ResendRegistrationOtp(q)
    \/ ResendResetOtp(q)

HandlerStep(q) ==
    \/ StoreRegistration(q)
    \/ CheckRegistration(q)
    \/ InsertLocal(q)
    \/ AnnounceLocal(q)
    \/ StoreToken(q)
    \/ InsertGoogle(q)
    \/ AnnounceGoogle(q)
    \/ StoreReset(q)
    \/ CheckReset(q)
    \/ UpdatePassword(q)
    \/ DeleteResetOtp(q)
    \/ SelectVerified(q)
    \/ RenewRegistrationOtp(q)

Next ==
    \/ \E q \in Requests : Arrives(q) \/ HandlerStep(q) \/ StatementFails(q)
    \/ ExpireOtp
    \/ \E t \in Type : ExpireAttempts(t)
    \/ Crash

Spec == Init /\ [][Next]_vars

\* The event loop runs.
FairSpec == Spec /\ \A q \in Requests : WF_vars(HandlerStep(q))

-------------------------------------------------------------------------------
(***************************************************************************)
(* Properties                                                              *)
(***************************************************************************)

\* Registrations and first sign-ins with Google that overlap: the account is
\* created and announced at most once, with the provider it keeps, and each
\* flow only ends well in an account of its own provider.
OneAccount ==
    /\ \A a, b \in created : a = b
    /\ \A a \in created : Is(a.provider)
    /\ \A q \in Requests :
           request[q] # None /\ request[q].step \in { "announce", "token", "ok" } =>
               /\ request[q].op = "verifyOtpRegisterUser" => Is("local")
               /\ request[q].op = "validateGoogleUser" => Is("google")

\* A Google account has no password, and nobody is mailed an OTP to set one,
\* although resetPassword and resendOtp do not look at the provider.
ResetsAreLocal ==
    /\ Is("google") => user.password = None
    /\ resetOtp # None => Is("local")
    /\ \A m \in mailed : m.type = "forgot-password" => Is("local")

\* An OTP that was used for an answered reset is never accepted again, over
\* OTPs sent again and other resets.
SpentOtpIsGone ==
    \A q \in Requests :
        At(q, "resetPassword", "ok") => resetOtp # request[q].otp

\* "Too many OTP requests. Please wait 10 minutes before trying again.": the
\* counter is read and written before the wait for the SELECT.
ResendsAreLimited == \A t \in Type : resent[t] <= ResendLimit

\* Every request is answered.
RequestsAnswered ==
    \A q \in Requests :
        request[q] # None ~> request[q] # None /\ request[q].step \in Finished

-------------------------------------------------------------------------------
(***************************************************************************)
(* The inductive invariant behind the safety properties.                   *)
(***************************************************************************)

\* What a handler in progress has made sure of: a registration found, and an
\* account of the right provider, which no handler ever takes away. Only two
\* handlers create an account and hand out tokens.
HandlerInv ==
    \A q \in Requests :
        /\ At(q, "verifyOtpRegisterUser", "insert") => request[q].held # None
        /\ At(q, "forgotPasswordToken", "store") => Is("local")
        /\ request[q] # None /\ request[q].op = "resetPassword"
              /\ request[q].step \in Running => Is("local")
        /\ request[q] # None /\ request[q].step \in { "announce", "token" } =>
              request[q].op \in { "verifyOtpRegisterUser", "validateGoogleUser" }

\* Whoever inserted the account has yet to announce it, and is alone.
Announcing(q) == request[q] # None /\ request[q].step = "announce"

AnnounceInv ==
    /\ user = None => created = {}
    /\ \A p, q \in Requests : Announcing(p) /\ Announcing(q) => p = q
    /\ \A q \in Requests : Announcing(q) => created = {}

\* An OTP in the cache, or accepted by a reset, was drawn before: a handler
\* that has yet to draw one cannot bring it back.
Drawn(otp) == otp # None /\ request[otp] # None /\ request[otp].step # "store"

OtpInv ==
    /\ resetOtp # None => Drawn(resetOtp)
    /\ \A q \in Requests :
           request[q] # None /\ request[q].op = "resetPassword"
               /\ request[q].step \in { "check", "update", "delete", "ok" } =>
                   Drawn(request[q].otp)

\* Every OTP sent again, or about to be, has been counted.
Resending == { q \in Requests : request[q] # None /\ request[q].op = "resendOtp"
                                  /\ request[q].step \in { "select", "renew" } }

ResendInv ==
    /\ IsFiniteSet(Resending)
    /\ resent["registration"] + Cardinality(Resending) <= attempts["registration"]
    /\ resent["forgot-password"] <= attempts["forgot-password"]

IInv ==
    /\ TypeOK
    /\ HandlerInv
    /\ OneAccount
    /\ AnnounceInv
    /\ ResetsAreLocal
    /\ SpentOtpIsGone
    /\ OtpInv
    /\ ResendInv

===============================================================================
