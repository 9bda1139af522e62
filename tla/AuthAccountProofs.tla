-------------------------- MODULE AuthAccountProofs --------------------------
(***************************************************************************)
(* Proofs of the safety properties of AuthAccount, for any number of       *)
(* requests, any resend limit and any number of faults.                    *)
(*                                                                         *)
(* First what every step leaves alone: types, and the account with its     *)
(* provider. Then one lemma for each part of IInv, with one step per       *)
(* action.                                                                 *)
(***************************************************************************)
EXTENDS AuthAccount, FiniteSetTheorems, TLAPS

\* Accounts are not removed and keep their provider.
AccountStays == user # None => user' # None /\ user'.provider = user.provider

-------------------------------------------------------------------------------
\* Types. An account to insert has the password of a registration that was
\* found, and only local accounts get a new one: HandlerInv.
LEMMA TypeStays ==
    ASSUME TypeOK, HandlerInv, [Next]_vars
    PROVE  TypeOK'
<1> USE NoneAssumption DEF vars, cache, topics, TypeOK, HandlerInv, User,
            Registration, Handler, Otp, Password, Type, Ops, Running, Finished,
            At, Is
<1>1. ASSUME NEW q \in Requests, RegisterUser(q) PROVE TypeOK'
    BY <1>1, BoundsAssumption DEF RegisterUser, Begin, Holds
<1>2. ASSUME NEW q \in Requests, StoreRegistration(q) PROVE TypeOK'
    BY <1>2, BoundsAssumption DEF StoreRegistration, Mail, Goto, At
<1>3. ASSUME NEW q \in Requests, NEW otp \in Otp, VerifyOtp(q, otp)
      PROVE  TypeOK'
    BY <1>3, BoundsAssumption DEF VerifyOtp, Holds
<1>4. ASSUME NEW q \in Requests, CheckRegistration(q) PROVE TypeOK'
    BY <1>4, BoundsAssumption DEF CheckRegistration, Goto, At
<1>5. ASSUME NEW q \in Requests, InsertLocal(q) PROVE TypeOK'
    BY <1>5, BoundsAssumption DEF InsertLocal, InsertUser, Goto, At
<1>6. ASSUME NEW q \in Requests, AnnounceLocal(q) PROVE TypeOK'
    BY <1>6, BoundsAssumption DEF AnnounceLocal, Announce, Goto, At
<1>7. ASSUME NEW q \in Requests, StoreToken(q) PROVE TypeOK'
    BY <1>7, BoundsAssumption DEF StoreToken, Goto
<1>8. ASSUME NEW q \in Requests, ValidateGoogleUser(q) PROVE TypeOK'
    BY <1>8, BoundsAssumption DEF ValidateGoogleUser, Begin, Holds
<1>9. ASSUME NEW q \in Requests, InsertGoogle(q) PROVE TypeOK'
    BY <1>9, BoundsAssumption DEF InsertGoogle, InsertUser, Goto, At
<1>10. ASSUME NEW q \in Requests, AnnounceGoogle(q) PROVE TypeOK'
    BY <1>10, BoundsAssumption DEF AnnounceGoogle, Announce, Goto, At
<1>11. ASSUME NEW q \in Requests, ForgotPassword(q) PROVE TypeOK'
    BY <1>11, BoundsAssumption DEF ForgotPassword, Begin, Holds
<1>12. ASSUME NEW q \in Requests, StoreReset(q) PROVE TypeOK'
    BY <1>12, BoundsAssumption DEF StoreReset, Mail, Goto, At
<1>13. ASSUME NEW q \in Requests, NEW otp \in Otp, ResetPassword(q, otp)
      PROVE  TypeOK'
    BY <1>13, BoundsAssumption DEF ResetPassword, Holds
<1>14. ASSUME NEW q \in Requests, CheckReset(q) PROVE TypeOK'
    BY <1>14, BoundsAssumption DEF CheckReset, Goto, At
<1>15. ASSUME NEW q \in Requests, UpdatePassword(q) PROVE TypeOK'
    BY <1>15, BoundsAssumption DEF UpdatePassword, Goto, At
<1>16. ASSUME NEW q \in Requests, DeleteResetOtp(q) PROVE TypeOK'
    BY <1>16, BoundsAssumption DEF DeleteResetOtp, Goto, At
<1>17. ASSUME NEW q \in Requests, ResendRegistrationOtp(q) PROVE TypeOK'
    BY <1>17, BoundsAssumption
        DEF ResendRegistrationOtp, CountAttempt, Begin, Holds
<1>18. ASSUME NEW q \in Requests, SelectVerified(q) PROVE TypeOK'
    BY <1>18, BoundsAssumption DEF SelectVerified, Goto, At
<1>19. ASSUME NEW q \in Requests, RenewRegistrationOtp(q) PROVE TypeOK'
    BY <1>19, BoundsAssumption
        DEF RenewRegistrationOtp, Mail, CountResent, Goto, At
<1>20. ASSUME NEW q \in Requests, ResendResetOtp(q) PROVE TypeOK'
    BY <1>20, BoundsAssumption
        DEF ResendResetOtp, Mail, CountAttempt, CountResent, Begin, Holds
<1>21. ASSUME NEW q \in Requests, StatementFails(q) PROVE TypeOK'
    BY <1>21, BoundsAssumption DEF StatementFails, InFlight, Goto
<1>22. ASSUME ExpireOtp PROVE TypeOK'
    BY <1>22, BoundsAssumption DEF ExpireOtp
<1>23. ASSUME NEW t \in Type, ExpireAttempts(t) PROVE TypeOK'
    BY <1>23, BoundsAssumption DEF ExpireAttempts, InFlight
<1>24. ASSUME Crash PROVE TypeOK'
    BY <1>24, BoundsAssumption DEF Crash, InFlight
<1>25. ASSUME UNCHANGED vars PROVE TypeOK'
    BY <1>25, BoundsAssumption
<1> QED BY <1>1, <1>2, <1>3, <1>4, <1>5, <1>6, <1>7, <1>8, <1>9, <1>10, <1>11,
        <1>12, <1>13, <1>14, <1>15, <1>16, <1>17, <1>18, <1>19, <1>20, <1>21,
        <1>22, <1>23, <1>24, <1>25 DEF Next, Arrives, HandlerStep

\* No step removes the account or changes its provider.
LEMMA AccountPersists ==
    ASSUME TypeOK, HandlerInv, [Next]_vars
    PROVE  AccountStays
<1> USE NoneAssumption DEF vars, cache, topics, AccountStays, TypeOK,
            HandlerInv, User, Is, At, Running
<1>1. ASSUME NEW q \in Requests, RegisterUser(q) PROVE AccountStays
    BY <1>1 DEF RegisterUser, Begin, Holds
<1>2. ASSUME NEW q \in Requests, StoreRegistration(q) PROVE AccountStays
    BY <1>2 DEF StoreRegistration, Mail, Goto, At
<1>3. ASSUME NEW q \in Requests, NEW otp \in Otp, VerifyOtp(q, otp)
      PROVE  AccountStays
    BY <1>3 DEF VerifyOtp, Holds
<1>4. ASSUME NEW q \in Requests, CheckRegistration(q) PROVE AccountStays
  <2>1. PICK step \in { "insert", "refused" } :
            /\ At(q, "verifyOtpRegisterUser", "check")
            /\ request' = [request EXCEPT ![q].step = step]
            /\ UNCHANGED << user, cache, topics, resent, faults >>
            /\ step = "insert" => /\ user = None /\ request[q].held # None
                                  /\ request[q].held.otp = request[q].otp
    BY <1>4 DEF CheckRegistration, Goto
  <2> QED
    BY <2>1
<1>5. ASSUME NEW q \in Requests, InsertLocal(q) PROVE AccountStays
    BY <1>5 DEF InsertLocal, InsertUser, Goto, At
<1>6. ASSUME NEW q \in Requests, AnnounceLocal(q) PROVE AccountStays
    BY <1>6 DEF AnnounceLocal, Announce, Goto, At
<1>7. ASSUME NEW q \in Requests, StoreToken(q) PROVE AccountStays
    BY <1>7 DEF StoreToken, Goto
<1>8. ASSUME NEW q \in Requests, ValidateGoogleUser(q) PROVE AccountStays
    BY <1>8 DEF ValidateGoogleUser, Begin, Holds
<1>9. ASSUME NEW q \in Requests, InsertGoogle(q) PROVE AccountStays
    BY <1>9 DEF InsertGoogle, InsertUser, Goto, At
<1>10. ASSUME NEW q \in Requests, AnnounceGoogle(q) PROVE AccountStays
    BY <1>10 DEF AnnounceGoogle, Announce, Goto, At
<1>11. ASSUME NEW q \in Requests, ForgotPassword(q) PROVE AccountStays
    BY <1>11 DEF ForgotPassword, Begin, Holds
<1>12. ASSUME NEW q \in Requests, StoreReset(q) PROVE AccountStays
    BY <1>12 DEF StoreReset, Mail, Goto, At
<1>13. ASSUME NEW q \in Requests, NEW otp \in Otp, ResetPassword(q, otp)
      PROVE  AccountStays
    BY <1>13 DEF ResetPassword, Holds
<1>14. ASSUME NEW q \in Requests, CheckReset(q) PROVE AccountStays
    BY <1>14 DEF CheckReset, Goto, At
<1>15. ASSUME NEW q \in Requests, UpdatePassword(q) PROVE AccountStays
    <2>1. user # None /\ user \in User /\ user.provider = "local"
        BY <1>15 DEF UpdatePassword
    <2>2. user' = [user EXCEPT !.password = q]
        BY <1>15, <2>1 DEF UpdatePassword
    <2>3. user' \in User /\ user'.provider = "local"
        BY <2>1, <2>2 DEF Password
    <2> QED BY <2>1, <2>3
<1>16. ASSUME NEW q \in Requests, DeleteResetOtp(q) PROVE AccountStays
    BY <1>16 DEF DeleteResetOtp, Goto, At
<1>17. ASSUME NEW q \in Requests, ResendRegistrationOtp(q) PROVE AccountStays
    BY <1>17 DEF ResendRegistrationOtp, CountAttempt, Begin, Holds
<1>18. ASSUME NEW q \in Requests, SelectVerified(q) PROVE AccountStays
    BY <1>18 DEF SelectVerified, Goto, At
<1>19. ASSUME NEW q \in Requests, RenewRegistrationOtp(q) PROVE AccountStays
    BY <1>19 DEF RenewRegistrationOtp, Mail, CountResent, Goto, At
<1>20. ASSUME NEW q \in Requests, ResendResetOtp(q) PROVE AccountStays
    BY <1>20 DEF ResendResetOtp, Mail, CountAttempt, CountResent, Begin, Holds
<1>21. ASSUME NEW q \in Requests, StatementFails(q) PROVE AccountStays
    BY <1>21 DEF StatementFails, InFlight, Goto
<1>22. ASSUME ExpireOtp PROVE AccountStays
    BY <1>22 DEF ExpireOtp
<1>23. ASSUME NEW t \in Type, ExpireAttempts(t) PROVE AccountStays
    BY <1>23 DEF ExpireAttempts, InFlight
<1>24. ASSUME Crash PROVE AccountStays
    BY <1>24 DEF Crash, InFlight
<1>25. ASSUME UNCHANGED vars PROVE AccountStays
    BY <1>25
<1> QED BY <1>1, <1>2, <1>3, <1>4, <1>5, <1>6, <1>7, <1>8, <1>9, <1>10, <1>11,
        <1>12, <1>13, <1>14, <1>15, <1>16, <1>17, <1>18, <1>19, <1>20, <1>21,
        <1>22, <1>23, <1>24, <1>25 DEF Next, Arrives, HandlerStep

-------------------------------------------------------------------------------
\* What a handler has made sure of stays true, since the account persists.
LEMMA HandlerStays ==
    ASSUME TypeOK, TypeOK', HandlerInv, ResetsAreLocal, AccountStays, [Next]_vars
    PROVE  HandlerInv'
<1> USE NoneAssumption DEF vars, cache, topics, AccountStays, TypeOK,
            HandlerInv, ResetsAreLocal, Is, At, User, Handler, Running,
            Finished
<1>1. ASSUME NEW q \in Requests, RegisterUser(q) PROVE HandlerInv'
    BY <1>1 DEF RegisterUser, Begin, Holds
<1>2. ASSUME NEW q \in Requests, StoreRegistration(q) PROVE HandlerInv'
    BY <1>2 DEF StoreRegistration, Mail, Goto, At
<1>3. ASSUME NEW q \in Requests, NEW otp \in Otp, VerifyOtp(q, otp)
      PROVE  HandlerInv'
    BY <1>3 DEF VerifyOtp, Holds
<1>4. ASSUME NEW q \in Requests, CheckRegistration(q) PROVE HandlerInv'
  <2>1. PICK step \in { "insert", "refused" } :
            /\ At(q, "verifyOtpRegisterUser", "check")
            /\ request' = [request EXCEPT ![q].step = step]
            /\ UNCHANGED << user, cache, topics, resent, faults >>
            /\ step = "insert" => /\ user = None /\ request[q].held # None
                                  /\ request[q].held.otp = request[q].otp
    BY <1>4 DEF CheckRegistration, Goto
  <2> QED
    BY <2>1
<1>5. ASSUME NEW q \in Requests, InsertLocal(q) PROVE HandlerInv'
    BY <1>5 DEF InsertLocal, InsertUser, Goto, At
<1>6. ASSUME NEW q \in Requests, AnnounceLocal(q) PROVE HandlerInv'
    BY <1>6 DEF AnnounceLocal, Announce, Goto, At
<1>7. ASSUME NEW q \in Requests, StoreToken(q) PROVE HandlerInv'
    BY <1>7 DEF StoreToken, Goto
<1>8. ASSUME NEW q \in Requests, ValidateGoogleUser(q) PROVE HandlerInv'
    BY <1>8 DEF ValidateGoogleUser, Begin, Holds
<1>9. ASSUME NEW q \in Requests, InsertGoogle(q) PROVE HandlerInv'
    BY <1>9 DEF InsertGoogle, InsertUser, Goto, At
<1>10. ASSUME NEW q \in Requests, AnnounceGoogle(q) PROVE HandlerInv'
    BY <1>10 DEF AnnounceGoogle, Announce, Goto, At
<1>11. ASSUME NEW q \in Requests, ForgotPassword(q) PROVE HandlerInv'
    BY <1>11 DEF ForgotPassword, Begin, Holds
<1>12. ASSUME NEW q \in Requests, StoreReset(q) PROVE HandlerInv'
    BY <1>12 DEF StoreReset, Mail, Goto, At
<1>13. ASSUME NEW q \in Requests, NEW otp \in Otp, ResetPassword(q, otp)
      PROVE  HandlerInv'
    BY <1>13 DEF ResetPassword, Holds
<1>14. ASSUME NEW q \in Requests, CheckReset(q) PROVE HandlerInv'
    BY <1>14 DEF CheckReset, Goto, At
<1>15. ASSUME NEW q \in Requests, UpdatePassword(q) PROVE HandlerInv'
    BY <1>15 DEF UpdatePassword, Goto, At
<1>16. ASSUME NEW q \in Requests, DeleteResetOtp(q) PROVE HandlerInv'
    BY <1>16 DEF DeleteResetOtp, Goto, At
<1>17. ASSUME NEW q \in Requests, ResendRegistrationOtp(q) PROVE HandlerInv'
    BY <1>17 DEF ResendRegistrationOtp, CountAttempt, Begin, Holds
<1>18. ASSUME NEW q \in Requests, SelectVerified(q) PROVE HandlerInv'
    BY <1>18 DEF SelectVerified, Goto, At
<1>19. ASSUME NEW q \in Requests, RenewRegistrationOtp(q) PROVE HandlerInv'
    BY <1>19 DEF RenewRegistrationOtp, Mail, CountResent, Goto, At
<1>20. ASSUME NEW q \in Requests, ResendResetOtp(q) PROVE HandlerInv'
    BY <1>20 DEF ResendResetOtp, Mail, CountAttempt, CountResent, Begin, Holds
<1>21. ASSUME NEW q \in Requests, StatementFails(q) PROVE HandlerInv'
    BY <1>21 DEF StatementFails, InFlight, Goto
<1>22. ASSUME ExpireOtp PROVE HandlerInv'
    BY <1>22 DEF ExpireOtp
<1>23. ASSUME NEW t \in Type, ExpireAttempts(t) PROVE HandlerInv'
    BY <1>23 DEF ExpireAttempts, InFlight
<1>24. ASSUME Crash PROVE HandlerInv'
    BY <1>24 DEF Crash, InFlight
<1>25. ASSUME UNCHANGED vars PROVE HandlerInv'
    BY <1>25
<1> QED BY <1>1, <1>2, <1>3, <1>4, <1>5, <1>6, <1>7, <1>8, <1>9, <1>10, <1>11,
        <1>12, <1>13, <1>14, <1>15, <1>16, <1>17, <1>18, <1>19, <1>20, <1>21,
        <1>22, <1>23, <1>24, <1>25 DEF Next, Arrives, HandlerStep

\* Two inserts exclude each other, so only one handler announces, and it
\* announces the provider of the account it has just inserted.
LEMMA OneAccountStays ==
    ASSUME TypeOK, TypeOK', HandlerInv, OneAccount, AnnounceInv, AccountStays, [Next]_vars
    PROVE  OneAccount'
<1> USE NoneAssumption DEF vars, cache, topics, AccountStays, TypeOK,
            HandlerInv, OneAccount, AnnounceInv, Announcing, Is, At, User,
            Handler, Running, Finished
<1>1. ASSUME NEW q \in Requests, RegisterUser(q) PROVE OneAccount'
    BY <1>1 DEF RegisterUser, Begin, Holds
<1>2. ASSUME NEW q \in Requests, StoreRegistration(q) PROVE OneAccount'
    BY <1>2 DEF StoreRegistration, Mail, Goto, At
<1>3. ASSUME NEW q \in Requests, NEW otp \in Otp, VerifyOtp(q, otp)
      PROVE  OneAccount'
    BY <1>3 DEF VerifyOtp, Holds
<1>4. ASSUME NEW q \in Requests, CheckRegistration(q) PROVE OneAccount'
  <2>1. PICK step \in { "insert", "refused" } :
            /\ At(q, "verifyOtpRegisterUser", "check")
            /\ request' = [request EXCEPT ![q].step = step]
            /\ UNCHANGED << user, cache, topics, resent, faults >>
            /\ step = "insert" => /\ user = None /\ request[q].held # None
                                  /\ request[q].held.otp = request[q].otp
    BY <1>4 DEF CheckRegistration, Goto
  <2> QED
    BY <2>1
<1>5. ASSUME NEW q \in Requests, InsertLocal(q) PROVE OneAccount'
    <2>1. request[q] # None /\ request[q].op = "verifyOtpRegisterUser"
        BY <1>5 DEF InsertLocal, InsertUser
    <2>2. CASE user = None
        <3>1. request[q].held \in Registration /\ UNCHANGED created
            BY <1>5, <2>2 DEF InsertLocal, InsertUser
        <3>2. user' = [provider |-> "local", password |-> request[q].held.password]
            BY <1>5, <2>2 DEF InsertLocal, InsertUser
        <3>3. user' \in User /\ user'.provider = "local"
            BY <3>1, <3>2 DEF Registration, Password
        <3>4. request' = [request EXCEPT ![q].step = "announce"]
            BY <1>5, <2>2 DEF InsertLocal, InsertUser, Goto
        <3> QED BY <2>1, <2>2, <3>1, <3>3, <3>4
    <2>3. CASE user # None
        BY <1>5, <2>1, <2>3 DEF InsertLocal, InsertUser, Goto
    <2> QED BY <2>2, <2>3
<1>6. ASSUME NEW q \in Requests, AnnounceLocal(q) PROVE OneAccount'
    BY <1>6 DEF AnnounceLocal, Announce, Goto, At
<1>7. ASSUME NEW q \in Requests, StoreToken(q) PROVE OneAccount'
    BY <1>7 DEF StoreToken, Goto
<1>8. ASSUME NEW q \in Requests, ValidateGoogleUser(q) PROVE OneAccount'
    BY <1>8 DEF ValidateGoogleUser, Begin, Holds
<1>9. ASSUME NEW q \in Requests, InsertGoogle(q) PROVE OneAccount'
    BY <1>9 DEF InsertGoogle, InsertUser, Goto, At
<1>10. ASSUME NEW q \in Requests, AnnounceGoogle(q) PROVE OneAccount'
    BY <1>10 DEF AnnounceGoogle, Announce, Goto, At
<1>11. ASSUME NEW q \in Requests, ForgotPassword(q) PROVE OneAccount'
    BY <1>11 DEF ForgotPassword, Begin, Holds
<1>12. ASSUME NEW q \in Requests, StoreReset(q) PROVE OneAccount'
    BY <1>12 DEF StoreReset, Mail, Goto, At
<1>13. ASSUME NEW q \in Requests, NEW otp \in Otp, ResetPassword(q, otp)
      PROVE  OneAccount'
    BY <1>13 DEF ResetPassword, Holds
<1>14. ASSUME NEW q \in Requests, CheckReset(q) PROVE OneAccount'
    BY <1>14 DEF CheckReset, Goto, At
<1>15. ASSUME NEW q \in Requests, UpdatePassword(q) PROVE OneAccount'
    BY <1>15 DEF UpdatePassword, Goto, At
<1>16. ASSUME NEW q \in Requests, DeleteResetOtp(q) PROVE OneAccount'
    BY <1>16 DEF DeleteResetOtp, Goto, At
<1>17. ASSUME NEW q \in Requests, ResendRegistrationOtp(q) PROVE OneAccount'
    BY <1>17 DEF ResendRegistrationOtp, CountAttempt, Begin, Holds
<1>18. ASSUME NEW q \in Requests, SelectVerified(q) PROVE OneAccount'
    BY <1>18 DEF SelectVerified, Goto, At
<1>19. ASSUME NEW q \in Requests, RenewRegistrationOtp(q) PROVE OneAccount'
    BY <1>19 DEF RenewRegistrationOtp, Mail, CountResent, Goto, At
<1>20. ASSUME NEW q \in Requests, ResendResetOtp(q) PROVE OneAccount'
    BY <1>20 DEF ResendResetOtp, Mail, CountAttempt, CountResent, Begin, Holds
<1>21. ASSUME NEW q \in Requests, StatementFails(q) PROVE OneAccount'
    BY <1>21 DEF StatementFails, InFlight, Goto
<1>22. ASSUME ExpireOtp PROVE OneAccount'
    BY <1>22 DEF ExpireOtp
<1>23. ASSUME NEW t \in Type, ExpireAttempts(t) PROVE OneAccount'
    BY <1>23 DEF ExpireAttempts, InFlight
<1>24. ASSUME Crash PROVE OneAccount'
    BY <1>24 DEF Crash, InFlight
<1>25. ASSUME UNCHANGED vars PROVE OneAccount'
    BY <1>25
<1> QED BY <1>1, <1>2, <1>3, <1>4, <1>5, <1>6, <1>7, <1>8, <1>9, <1>10, <1>11,
        <1>12, <1>13, <1>14, <1>15, <1>16, <1>17, <1>18, <1>19, <1>20, <1>21,
        <1>22, <1>23, <1>24, <1>25 DEF Next, Arrives, HandlerStep

\* One announcement is outstanding at most, and none while there is no account.
LEMMA AnnounceStays ==
    ASSUME TypeOK, TypeOK', HandlerInv, OneAccount, AnnounceInv, AccountStays, [Next]_vars
    PROVE  AnnounceInv'
<1> USE NoneAssumption DEF vars, cache, topics, AccountStays, TypeOK,
            HandlerInv, OneAccount, AnnounceInv, Announcing, Is, At, User,
            Handler, Running, Finished
<1>1. ASSUME NEW q \in Requests, RegisterUser(q) PROVE AnnounceInv'
    BY <1>1 DEF RegisterUser, Begin, Holds
<1>2. ASSUME NEW q \in Requests, StoreRegistration(q) PROVE AnnounceInv'
    BY <1>2 DEF StoreRegistration, Mail, Goto, At
<1>3. ASSUME NEW q \in Requests, NEW otp \in Otp, VerifyOtp(q, otp)
      PROVE  AnnounceInv'
    BY <1>3 DEF VerifyOtp, Holds
<1>4. ASSUME NEW q \in Requests, CheckRegistration(q) PROVE AnnounceInv'
  <2>1. PICK step \in { "insert", "refused" } :
            /\ At(q, "verifyOtpRegisterUser", "check")
            /\ request' = [request EXCEPT ![q].step = step]
            /\ UNCHANGED << user, cache, topics, resent, faults >>
            /\ step = "insert" => /\ user = None /\ request[q].held # None
                                  /\ request[q].held.otp = request[q].otp
    BY <1>4 DEF CheckRegistration, Goto
  <2> QED
    BY <2>1
<1>5. ASSUME NEW q \in Requests, InsertLocal(q) PROVE AnnounceInv'
    BY <1>5 DEF InsertLocal, InsertUser, Goto, At
<1>6. ASSUME NEW q \in Requests, AnnounceLocal(q) PROVE AnnounceInv'
    BY <1>6 DEF AnnounceLocal, Announce, Goto, At
<1>7. ASSUME NEW q \in Requests, StoreToken(q) PROVE AnnounceInv'
    BY <1>7 DEF StoreToken, Goto
<1>8. ASSUME NEW q \in Requests, ValidateGoogleUser(q) PROVE AnnounceInv'
    BY <1>8 DEF ValidateGoogleUser, Begin, Holds
<1>9. ASSUME NEW q \in Requests, InsertGoogle(q) PROVE AnnounceInv'
    BY <1>9 DEF InsertGoogle, InsertUser, Goto, At
<1>10. ASSUME NEW q \in Requests, AnnounceGoogle(q) PROVE AnnounceInv'
    BY <1>10 DEF AnnounceGoogle, Announce, Goto, At
<1>11. ASSUME NEW q \in Requests, ForgotPassword(q) PROVE AnnounceInv'
    BY <1>11 DEF ForgotPassword, Begin, Holds
<1>12. ASSUME NEW q \in Requests, StoreReset(q) PROVE AnnounceInv'
    BY <1>12 DEF StoreReset, Mail, Goto, At
<1>13. ASSUME NEW q \in Requests, NEW otp \in Otp, ResetPassword(q, otp)
      PROVE  AnnounceInv'
    BY <1>13 DEF ResetPassword, Holds
<1>14. ASSUME NEW q \in Requests, CheckReset(q) PROVE AnnounceInv'
    BY <1>14 DEF CheckReset, Goto, At
<1>15. ASSUME NEW q \in Requests, UpdatePassword(q) PROVE AnnounceInv'
    BY <1>15 DEF UpdatePassword, Goto, At
<1>16. ASSUME NEW q \in Requests, DeleteResetOtp(q) PROVE AnnounceInv'
    BY <1>16 DEF DeleteResetOtp, Goto, At
<1>17. ASSUME NEW q \in Requests, ResendRegistrationOtp(q) PROVE AnnounceInv'
    BY <1>17 DEF ResendRegistrationOtp, CountAttempt, Begin, Holds
<1>18. ASSUME NEW q \in Requests, SelectVerified(q) PROVE AnnounceInv'
    BY <1>18 DEF SelectVerified, Goto, At
<1>19. ASSUME NEW q \in Requests, RenewRegistrationOtp(q) PROVE AnnounceInv'
    BY <1>19 DEF RenewRegistrationOtp, Mail, CountResent, Goto, At
<1>20. ASSUME NEW q \in Requests, ResendResetOtp(q) PROVE AnnounceInv'
    BY <1>20 DEF ResendResetOtp, Mail, CountAttempt, CountResent, Begin, Holds
<1>21. ASSUME NEW q \in Requests, StatementFails(q) PROVE AnnounceInv'
    BY <1>21 DEF StatementFails, InFlight, Goto
<1>22. ASSUME ExpireOtp PROVE AnnounceInv'
    BY <1>22 DEF ExpireOtp
<1>23. ASSUME NEW t \in Type, ExpireAttempts(t) PROVE AnnounceInv'
    BY <1>23 DEF ExpireAttempts, InFlight
<1>24. ASSUME Crash PROVE AnnounceInv'
    BY <1>24 DEF Crash, InFlight
<1>25. ASSUME UNCHANGED vars PROVE AnnounceInv'
    BY <1>25
<1> QED BY <1>1, <1>2, <1>3, <1>4, <1>5, <1>6, <1>7, <1>8, <1>9, <1>10, <1>11,
        <1>12, <1>13, <1>14, <1>15, <1>16, <1>17, <1>18, <1>19, <1>20, <1>21,
        <1>22, <1>23, <1>24, <1>25 DEF Next, Arrives, HandlerStep

\* An OTP for a reset is stored and mailed only for an account known to be
\* local: by the handler that has seen it, or by the OTP it replaces.
LEMMA ResetsStay ==
    ASSUME TypeOK, TypeOK', HandlerInv, ResetsAreLocal, AccountStays, [Next]_vars
    PROVE  ResetsAreLocal'
<1> USE NoneAssumption DEF vars, cache, topics, AccountStays, TypeOK,
            HandlerInv, ResetsAreLocal, Is, At, User, Handler, Running,
            Finished
<1>1. ASSUME NEW q \in Requests, RegisterUser(q) PROVE ResetsAreLocal'
    BY <1>1 DEF RegisterUser, Begin, Holds
<1>2. ASSUME NEW q \in Requests, StoreRegistration(q) PROVE ResetsAreLocal'
    BY <1>2 DEF StoreRegistration, Mail, Goto, At
<1>3. ASSUME NEW q \in Requests, NEW otp \in Otp, VerifyOtp(q, otp)
      PROVE  ResetsAreLocal'
    BY <1>3 DEF VerifyOtp, Holds
<1>4. ASSUME NEW q \in Requests, CheckRegistration(q) PROVE ResetsAreLocal'
  <2>1. PICK step \in { "insert", "refused" } :
            /\ At(q, "verifyOtpRegisterUser", "check")
            /\ request' = [request EXCEPT ![q].step = step]
            /\ UNCHANGED << user, cache, topics, resent, faults >>
            /\ step = "insert" => /\ user = None /\ request[q].held # None
                                  /\ request[q].held.otp = request[q].otp
    BY <1>4 DEF CheckRegistration, Goto
  <2> QED
    BY <2>1
<1>5. ASSUME NEW q \in Requests, InsertLocal(q) PROVE ResetsAreLocal'
    BY <1>5 DEF InsertLocal, InsertUser, Goto, At
<1>6. ASSUME NEW q \in Requests, AnnounceLocal(q) PROVE ResetsAreLocal'
    BY <1>6 DEF AnnounceLocal, Announce, Goto, At
<1>7. ASSUME NEW q \in Requests, StoreToken(q) PROVE ResetsAreLocal'
    BY <1>7 DEF StoreToken, Goto
<1>8. ASSUME NEW q \in Requests, ValidateGoogleUser(q) PROVE ResetsAreLocal'
    BY <1>8 DEF ValidateGoogleUser, Begin, Holds
<1>9. ASSUME NEW q \in Requests, InsertGoogle(q) PROVE ResetsAreLocal'
    BY <1>9 DEF InsertGoogle, InsertUser, Goto, At
<1>10. ASSUME NEW q \in Requests, AnnounceGoogle(q) PROVE ResetsAreLocal'
    BY <1>10 DEF AnnounceGoogle, Announce, Goto, At
<1>11. ASSUME NEW q \in Requests, ForgotPassword(q) PROVE ResetsAreLocal'
    BY <1>11 DEF ForgotPassword, Begin, Holds
<1>12. ASSUME NEW q \in Requests, StoreReset(q) PROVE ResetsAreLocal'
    BY <1>12 DEF StoreReset, Mail, Goto, At
<1>13. ASSUME NEW q \in Requests, NEW otp \in Otp, ResetPassword(q, otp)
      PROVE  ResetsAreLocal'
    BY <1>13 DEF ResetPassword, Holds
<1>14. ASSUME NEW q \in Requests, CheckReset(q) PROVE ResetsAreLocal'
    BY <1>14 DEF CheckReset, Goto, At
<1>15. ASSUME NEW q \in Requests, UpdatePassword(q) PROVE ResetsAreLocal'
    BY <1>15 DEF UpdatePassword, Goto, At
<1>16. ASSUME NEW q \in Requests, DeleteResetOtp(q) PROVE ResetsAreLocal'
    BY <1>16 DEF DeleteResetOtp, Goto, At
<1>17. ASSUME NEW q \in Requests, ResendRegistrationOtp(q)
      PROVE  ResetsAreLocal'
    BY <1>17 DEF ResendRegistrationOtp, CountAttempt, Begin, Holds
<1>18. ASSUME NEW q \in Requests, SelectVerified(q) PROVE ResetsAreLocal'
    BY <1>18 DEF SelectVerified, Goto, At
<1>19. ASSUME NEW q \in Requests, RenewRegistrationOtp(q) PROVE ResetsAreLocal'
    BY <1>19 DEF RenewRegistrationOtp, Mail, CountResent, Goto, At
<1>20. ASSUME NEW q \in Requests, ResendResetOtp(q) PROVE ResetsAreLocal'
    BY <1>20 DEF ResendResetOtp, Mail, CountAttempt, CountResent, Begin, Holds
<1>21. ASSUME NEW q \in Requests, StatementFails(q) PROVE ResetsAreLocal'
    BY <1>21 DEF StatementFails, InFlight, Goto
<1>22. ASSUME ExpireOtp PROVE ResetsAreLocal'
    BY <1>22 DEF ExpireOtp
<1>23. ASSUME NEW t \in Type, ExpireAttempts(t) PROVE ResetsAreLocal'
    BY <1>23 DEF ExpireAttempts, InFlight
<1>24. ASSUME Crash PROVE ResetsAreLocal'
    BY <1>24 DEF Crash, InFlight
<1>25. ASSUME UNCHANGED vars PROVE ResetsAreLocal'
    BY <1>25
<1> QED BY <1>1, <1>2, <1>3, <1>4, <1>5, <1>6, <1>7, <1>8, <1>9, <1>10, <1>11,
        <1>12, <1>13, <1>14, <1>15, <1>16, <1>17, <1>18, <1>19, <1>20, <1>21,
        <1>22, <1>23, <1>24, <1>25 DEF Next, Arrives, HandlerStep

\* OTPs in use have been drawn.
LEMMA OtpStays ==
    ASSUME TypeOK, TypeOK', HandlerInv, OtpInv, [Next]_vars
    PROVE  OtpInv'
<1> USE NoneAssumption DEF vars, cache, topics, TypeOK, HandlerInv, OtpInv,
            Drawn, At, Handler, Running, Finished, Otp
<1>1. ASSUME NEW q \in Requests, RegisterUser(q) PROVE OtpInv'
    BY <1>1 DEF RegisterUser, Begin, Holds
<1>2. ASSUME NEW q \in Requests, StoreRegistration(q) PROVE OtpInv'
    BY <1>2 DEF StoreRegistration, Mail, Goto, At
<1>3. ASSUME NEW q \in Requests, NEW otp \in Otp, VerifyOtp(q, otp)
      PROVE  OtpInv'
    BY <1>3 DEF VerifyOtp, Holds
<1>4. ASSUME NEW q \in Requests, CheckRegistration(q) PROVE OtpInv'
  <2>1. PICK step \in { "insert", "refused" } :
            /\ At(q, "verifyOtpRegisterUser", "check")
            /\ request' = [request EXCEPT ![q].step = step]
            /\ UNCHANGED << user, cache, topics, resent, faults >>
            /\ step = "insert" => /\ user = None /\ request[q].held # None
                                  /\ request[q].held.otp = request[q].otp
    BY <1>4 DEF CheckRegistration, Goto
  <2> QED
    BY <2>1
<1>5. ASSUME NEW q \in Requests, InsertLocal(q) PROVE OtpInv'
    BY <1>5 DEF InsertLocal, InsertUser, Goto, At
<1>6. ASSUME NEW q \in Requests, AnnounceLocal(q) PROVE OtpInv'
    BY <1>6 DEF AnnounceLocal, Announce, Goto, At
<1>7. ASSUME NEW q \in Requests, StoreToken(q) PROVE OtpInv'
    BY <1>7 DEF StoreToken, Goto
<1>8. ASSUME NEW q \in Requests, ValidateGoogleUser(q) PROVE OtpInv'
    BY <1>8 DEF ValidateGoogleUser, Begin, Holds
<1>9. ASSUME NEW q \in Requests, InsertGoogle(q) PROVE OtpInv'
    BY <1>9 DEF InsertGoogle, InsertUser, Goto, At
<1>10. ASSUME NEW q \in Requests, AnnounceGoogle(q) PROVE OtpInv'
    BY <1>10 DEF AnnounceGoogle, Announce, Goto, At
<1>11. ASSUME NEW q \in Requests, ForgotPassword(q) PROVE OtpInv'
    BY <1>11 DEF ForgotPassword, Begin, Holds
<1>12. ASSUME NEW q \in Requests, StoreReset(q) PROVE OtpInv'
    BY <1>12 DEF StoreReset, Mail, Goto, At
<1>13. ASSUME NEW q \in Requests, NEW otp \in Otp, ResetPassword(q, otp)
      PROVE  OtpInv'
    BY <1>13 DEF ResetPassword, Holds
<1>14. ASSUME NEW q \in Requests, CheckReset(q) PROVE OtpInv'
    BY <1>14 DEF CheckReset, Goto, At
<1>15. ASSUME NEW q \in Requests, UpdatePassword(q) PROVE OtpInv'
    BY <1>15 DEF UpdatePassword, Goto, At
<1>16. ASSUME NEW q \in Requests, DeleteResetOtp(q) PROVE OtpInv'
    BY <1>16 DEF DeleteResetOtp, Goto, At
<1>17. ASSUME NEW q \in Requests, ResendRegistrationOtp(q) PROVE OtpInv'
    BY <1>17 DEF ResendRegistrationOtp, CountAttempt, Begin, Holds
<1>18. ASSUME NEW q \in Requests, SelectVerified(q) PROVE OtpInv'
    BY <1>18 DEF SelectVerified, Goto, At
<1>19. ASSUME NEW q \in Requests, RenewRegistrationOtp(q) PROVE OtpInv'
    BY <1>19 DEF RenewRegistrationOtp, Mail, CountResent, Goto, At
<1>20. ASSUME NEW q \in Requests, ResendResetOtp(q) PROVE OtpInv'
    <2>1. request[q] = None /\ request' = [request EXCEPT ![q] = request'[q]]
        BY <1>20 DEF ResendResetOtp, Begin, Holds
    <2>2. request'[q] \in [op : {"resendOtp"}, step : { "ok", "refused" },
                           otp : {None}, held : {None}]
        BY <1>20 DEF ResendResetOtp, Begin, Holds
    <2>3. resetOtp' = q \/ UNCHANGED resetOtp
        BY <1>20 DEF ResendResetOtp
    <2>4. request'[q] # None
        BY <2>2 DEF Ops
    <2> QED BY <2>1, <2>2, <2>3, <2>4
<1>21. ASSUME NEW q \in Requests, StatementFails(q) PROVE OtpInv'
    BY <1>21 DEF StatementFails, InFlight, Goto
<1>22. ASSUME ExpireOtp PROVE OtpInv'
    BY <1>22 DEF ExpireOtp
<1>23. ASSUME NEW t \in Type, ExpireAttempts(t) PROVE OtpInv'
    BY <1>23 DEF ExpireAttempts, InFlight
<1>24. ASSUME Crash PROVE OtpInv'
    BY <1>24 DEF Crash, InFlight
<1>25. ASSUME UNCHANGED vars PROVE OtpInv'
    BY <1>25
<1> QED BY <1>1, <1>2, <1>3, <1>4, <1>5, <1>6, <1>7, <1>8, <1>9, <1>10, <1>11,
        <1>12, <1>13, <1>14, <1>15, <1>16, <1>17, <1>18, <1>19, <1>20, <1>21,
        <1>22, <1>23, <1>24, <1>25 DEF Next, Arrives, HandlerStep

\* A new OTP is drawn by a handler that had drawn none, so it is not a spent one.
LEMMA SpentStays ==
    ASSUME TypeOK, TypeOK', HandlerInv, OtpInv, SpentOtpIsGone, [Next]_vars
    PROVE  SpentOtpIsGone'
<1> USE NoneAssumption DEF vars, cache, topics, TypeOK, HandlerInv, OtpInv,
            SpentOtpIsGone, Drawn, At, Handler, Running, Finished, Otp
<1>1. ASSUME NEW q \in Requests, RegisterUser(q) PROVE SpentOtpIsGone'
    BY <1>1 DEF RegisterUser, Begin, Holds
<1>2. ASSUME NEW q \in Requests, StoreRegistration(q) PROVE SpentOtpIsGone'
    BY <1>2 DEF StoreRegistration, Mail, Goto, At
<1>3. ASSUME NEW q \in Requests, NEW otp \in Otp, VerifyOtp(q, otp)
      PROVE  SpentOtpIsGone'
    BY <1>3 DEF VerifyOtp, Holds
<1>4. ASSUME NEW q \in Requests, CheckRegistration(q) PROVE SpentOtpIsGone'
  <2>1. PICK step \in { "insert", "refused" } :
            /\ At(q, "verifyOtpRegisterUser", "check")
            /\ request' = [request EXCEPT ![q].step = step]
            /\ UNCHANGED << user, cache, topics, resent, faults >>
            /\ step = "insert" => /\ user = None /\ request[q].held # None
                                  /\ request[q].held.otp = request[q].otp
    BY <1>4 DEF CheckRegistration, Goto
  <2> QED
    BY <2>1
<1>5. ASSUME NEW q \in Requests, InsertLocal(q) PROVE SpentOtpIsGone'
    BY <1>5 DEF InsertLocal, InsertUser, Goto, At
<1>6. ASSUME NEW q \in Requests, AnnounceLocal(q) PROVE SpentOtpIsGone'
    BY <1>6 DEF AnnounceLocal, Announce, Goto, At
<1>7. ASSUME NEW q \in Requests, StoreToken(q) PROVE SpentOtpIsGone'
    BY <1>7 DEF StoreToken, Goto
<1>8. ASSUME NEW q \in Requests, ValidateGoogleUser(q) PROVE SpentOtpIsGone'
    BY <1>8 DEF ValidateGoogleUser, Begin, Holds
<1>9. ASSUME NEW q \in Requests, InsertGoogle(q) PROVE SpentOtpIsGone'
    BY <1>9 DEF InsertGoogle, InsertUser, Goto, At
<1>10. ASSUME NEW q \in Requests, AnnounceGoogle(q) PROVE SpentOtpIsGone'
    BY <1>10 DEF AnnounceGoogle, Announce, Goto, At
<1>11. ASSUME NEW q \in Requests, ForgotPassword(q) PROVE SpentOtpIsGone'
    BY <1>11 DEF ForgotPassword, Begin, Holds
<1>12. ASSUME NEW q \in Requests, StoreReset(q) PROVE SpentOtpIsGone'
    BY <1>12 DEF StoreReset, Mail, Goto, At
<1>13. ASSUME NEW q \in Requests, NEW otp \in Otp, ResetPassword(q, otp)
      PROVE  SpentOtpIsGone'
    BY <1>13 DEF ResetPassword, Holds
<1>14. ASSUME NEW q \in Requests, CheckReset(q) PROVE SpentOtpIsGone'
    BY <1>14 DEF CheckReset, Goto, At
<1>15. ASSUME NEW q \in Requests, UpdatePassword(q) PROVE SpentOtpIsGone'
    BY <1>15 DEF UpdatePassword, Goto, At
<1>16. ASSUME NEW q \in Requests, DeleteResetOtp(q) PROVE SpentOtpIsGone'
    BY <1>16 DEF DeleteResetOtp, Goto, At
<1>17. ASSUME NEW q \in Requests, ResendRegistrationOtp(q)
      PROVE  SpentOtpIsGone'
    BY <1>17 DEF ResendRegistrationOtp, CountAttempt, Begin, Holds
<1>18. ASSUME NEW q \in Requests, SelectVerified(q) PROVE SpentOtpIsGone'
    BY <1>18 DEF SelectVerified, Goto, At
<1>19. ASSUME NEW q \in Requests, RenewRegistrationOtp(q) PROVE SpentOtpIsGone'
    BY <1>19 DEF RenewRegistrationOtp, Mail, CountResent, Goto, At
<1>20. ASSUME NEW q \in Requests, ResendResetOtp(q) PROVE SpentOtpIsGone'
    BY <1>20 DEF ResendResetOtp, Mail, CountAttempt, CountResent, Begin, Holds
<1>21. ASSUME NEW q \in Requests, StatementFails(q) PROVE SpentOtpIsGone'
    BY <1>21 DEF StatementFails, InFlight, Goto
<1>22. ASSUME ExpireOtp PROVE SpentOtpIsGone'
    BY <1>22 DEF ExpireOtp
<1>23. ASSUME NEW t \in Type, ExpireAttempts(t) PROVE SpentOtpIsGone'
    BY <1>23 DEF ExpireAttempts, InFlight
<1>24. ASSUME Crash PROVE SpentOtpIsGone'
    BY <1>24 DEF Crash, InFlight
<1>25. ASSUME UNCHANGED vars PROVE SpentOtpIsGone'
    BY <1>25
<1> QED BY <1>1, <1>2, <1>3, <1>4, <1>5, <1>6, <1>7, <1>8, <1>9, <1>10, <1>11,
        <1>12, <1>13, <1>14, <1>15, <1>16, <1>17, <1>18, <1>19, <1>20, <1>21,
        <1>22, <1>23, <1>24, <1>25 DEF Next, Arrives, HandlerStep

-------------------------------------------------------------------------------
\* No resend begins, and none is counted or sent.
CountKept == Resending' \subseteq Resending /\ UNCHANGED << attempts, resent >>

\* A handler that stops resending, or has been counted, keeps the count.
LEMMA CountStays ==
    ASSUME TypeOK, TypeOK', ResendInv, CountKept
    PROVE  ResendInv'
<1> USE DEF CountKept
<1>1. IsFiniteSet(Resending') /\ Cardinality(Resending') <= Cardinality(Resending)
    BY FS_Subset DEF ResendInv
<1>2. Cardinality(Resending) \in Nat /\ Cardinality(Resending') \in Nat
    BY <1>1, FS_CardinalityType DEF ResendInv
<1> QED BY <1>1, <1>2 DEF ResendInv, TypeOK, Type

\* An attempt is counted before the wait, and a resend that is under way is
\* one that was counted.
LEMMA ResendStays ==
    ASSUME TypeOK, TypeOK', ResendInv, [Next]_vars
    PROVE  ResendInv'
<1> USE NoneAssumption DEF vars, cache, topics, TypeOK, At, Handler, Running,
            Finished
<1>1. ASSUME NEW q \in Requests, RegisterUser(q) PROVE CountKept
    BY <1>1 DEF RegisterUser, Begin, Holds, CountKept, Resending
<1>2. ASSUME NEW q \in Requests, StoreRegistration(q) PROVE CountKept
    BY <1>2 DEF StoreRegistration, Mail, Goto, At, CountKept, Resending
<1>3. ASSUME NEW q \in Requests, NEW otp \in Otp, VerifyOtp(q, otp)
      PROVE  CountKept
    BY <1>3 DEF VerifyOtp, Holds, CountKept, Resending
<1>4. ASSUME NEW q \in Requests, CheckRegistration(q) PROVE CountKept
    BY <1>4 DEF CheckRegistration, Goto, At, CountKept, Resending
<1>5. ASSUME NEW q \in Requests, InsertLocal(q) PROVE CountKept
    BY <1>5 DEF InsertLocal, InsertUser, Goto, At, CountKept, Resending
<1>6. ASSUME NEW q \in Requests, AnnounceLocal(q) PROVE CountKept
    BY <1>6 DEF AnnounceLocal, Announce, Goto, At, CountKept, Resending
<1>7. ASSUME NEW q \in Requests, StoreToken(q) PROVE CountKept
    BY <1>7 DEF StoreToken, Goto, CountKept, Resending
<1>8. ASSUME NEW q \in Requests, ValidateGoogleUser(q) PROVE CountKept
    BY <1>8 DEF ValidateGoogleUser, Begin, Holds, CountKept, Resending
<1>9. ASSUME NEW q \in Requests, InsertGoogle(q) PROVE CountKept
    BY <1>9 DEF InsertGoogle, InsertUser, Goto, At, CountKept, Resending
<1>10. ASSUME NEW q \in Requests, AnnounceGoogle(q) PROVE CountKept
    BY <1>10 DEF AnnounceGoogle, Announce, Goto, At, CountKept, Resending
<1>11. ASSUME NEW q \in Requests, ForgotPassword(q) PROVE CountKept
    BY <1>11 DEF ForgotPassword, Begin, Holds, CountKept, Resending
<1>12. ASSUME NEW q \in Requests, StoreReset(q) PROVE CountKept
    BY <1>12 DEF StoreReset, Mail, Goto, At, CountKept, Resending
<1>13. ASSUME NEW q \in Requests, NEW otp \in Otp, ResetPassword(q, otp)
      PROVE  CountKept
    BY <1>13 DEF ResetPassword, Holds, CountKept, Resending
<1>14. ASSUME NEW q \in Requests, CheckReset(q) PROVE CountKept
    BY <1>14 DEF CheckReset, Goto, At, CountKept, Resending
<1>15. ASSUME NEW q \in Requests, UpdatePassword(q) PROVE CountKept
    BY <1>15 DEF UpdatePassword, Goto, At, CountKept, Resending
<1>16. ASSUME NEW q \in Requests, DeleteResetOtp(q) PROVE CountKept
    BY <1>16 DEF DeleteResetOtp, Goto, At, CountKept, Resending
<1>17. ASSUME NEW q \in Requests, ResendRegistrationOtp(q) PROVE ResendInv'
    <2>1. CASE attempts["registration"] >= ResendLimit
        <3>1. CountKept
            BY <1>17, <2>1 DEF CountKept, Resending, ResendRegistrationOtp, Begin, Holds
        <3> QED BY <3>1, CountStays
    <2>2. CASE ~(attempts["registration"] >= ResendLimit)
        <3>1. q \notin Resending /\ Resending' = Resending \cup {q}
            <4> DEFINE h == [op |-> "resendOtp", step |-> "select",
                             otp |-> None, held |-> None]
            <4>1. request[q] = None /\ request' = [request EXCEPT ![q] = h]
                BY <1>17, <2>2 DEF ResendRegistrationOtp, Begin, Holds
            <4>2. h # None
                BY DEF Ops
            <4> QED BY <4>1, <4>2 DEF Resending
        <3>2. IsFiniteSet(Resending') /\ Cardinality(Resending') = Cardinality(Resending) + 1
            BY <3>1, FS_AddElement DEF ResendInv
        <3>3. /\ attempts'["registration"] = attempts["registration"] + 1
              /\ attempts'["forgot-password"] = attempts["forgot-password"]
              /\ resent' = resent
            BY <1>17, <2>2 DEF ResendRegistrationOtp, CountAttempt, Type
        <3>4. Cardinality(Resending) \in Nat
            BY FS_CardinalityType DEF ResendInv
        <3> QED BY <3>2, <3>3, <3>4 DEF ResendInv, Type
    <2> QED BY <2>1, <2>2
<1>18. ASSUME NEW q \in Requests, SelectVerified(q) PROVE CountKept
    BY <1>18 DEF SelectVerified, Goto, At, CountKept, Resending
<1>19. ASSUME NEW q \in Requests, RenewRegistrationOtp(q) PROVE ResendInv'
    <2>1. CASE registration = None
        <3>1. CountKept
            BY <1>19, <2>1 DEF CountKept, Resending, RenewRegistrationOtp, Goto, At
        <3> QED BY <3>1, CountStays
    <2>2. CASE registration # None
        <3>1. q \in Resending /\ Resending' = Resending \ {q}
            BY <1>19, <2>2 DEF Resending, RenewRegistrationOtp, Goto, At
        <3>2. IsFiniteSet(Resending') /\ Cardinality(Resending') = Cardinality(Resending) - 1
            BY <3>1, FS_RemoveElement DEF ResendInv
        <3>3. /\ resent'["registration"] = resent["registration"] + 1
              /\ resent'["forgot-password"] = resent["forgot-password"]
              /\ attempts' = attempts
            BY <1>19, <2>2 DEF RenewRegistrationOtp, CountResent, Type
        <3>4. Cardinality(Resending) \in Nat
            BY FS_CardinalityType DEF ResendInv
        <3> QED BY <3>2, <3>3, <3>4 DEF ResendInv, Type
    <2> QED BY <2>1, <2>2
<1>20. ASSUME NEW q \in Requests, ResendResetOtp(q) PROVE ResendInv'
    <2>1. Resending' = Resending
        BY <1>20 DEF Resending, ResendResetOtp, Begin, Holds
    <2>2. \/ UNCHANGED << attempts, resent >>
          \/ /\ attempts'["forgot-password"] = attempts["forgot-password"] + 1
             /\ attempts'["registration"] = attempts["registration"]
             /\ resent'["forgot-password"] <= resent["forgot-password"] + 1
             /\ resent'["registration"] = resent["registration"]
        BY <1>20 DEF ResendResetOtp, CountAttempt, CountResent, Type
    <2> QED BY <2>1, <2>2 DEF ResendInv, Type
<1>21. ASSUME NEW q \in Requests, StatementFails(q) PROVE CountKept
    BY <1>21 DEF StatementFails, InFlight, Goto, CountKept, Resending
<1>22. ASSUME ExpireOtp PROVE CountKept
    BY <1>22 DEF ExpireOtp, CountKept, Resending
<1>23. ASSUME NEW t \in Type, ExpireAttempts(t) PROVE ResendInv'
    <2>1. Resending = {} /\ Resending' = {}
        BY <1>23 DEF Resending, ExpireAttempts, InFlight
    <2>2. IsFiniteSet({}) /\ Cardinality({}) = 0
        BY FS_EmptySet
    <2> QED BY <2>1, <2>2, <1>23 DEF ExpireAttempts, ResendInv, Type
<1>24. ASSUME Crash PROVE ResendInv'
    <2>1. Resending' = {}
        BY <1>24 DEF Resending, Crash, InFlight
    <2>2. IsFiniteSet({}) /\ Cardinality({}) = 0
        BY FS_EmptySet
    <2> QED BY <2>1, <2>2, <1>24 DEF Crash, ResendInv, Type
<1>25. ASSUME UNCHANGED vars PROVE CountKept
    BY <1>25 DEF CountKept, Resending
<1>26. ASSUME CountKept PROVE ResendInv'
    BY <1>26, CountStays
<1> QED BY <1>1, <1>2, <1>3, <1>4, <1>5, <1>6, <1>7, <1>8, <1>9, <1>10, <1>11,
        <1>12, <1>13, <1>14, <1>15, <1>16, <1>17, <1>18, <1>19, <1>20, <1>21,
        <1>22, <1>23, <1>24, <1>25, <1>26 DEF Next, Arrives, HandlerStep

-------------------------------------------------------------------------------
\* Init implies the invariant.
LEMMA InitHolds == Init => IInv
<1> SUFFICES ASSUME Init PROVE IInv
    OBVIOUS
<1>1. TypeOK
    BY NoneAssumption, BoundsAssumption
    DEF Init, TypeOK, User, Password, Type
<1>2. HandlerInv /\ OneAccount /\ AnnounceInv
    BY DEF Init, HandlerInv, OneAccount, AnnounceInv, Announcing, At
<1>3. ResetsAreLocal /\ SpentOtpIsGone /\ OtpInv
    BY DEF Init, ResetsAreLocal, SpentOtpIsGone, OtpInv, Is, At
<1>4. ResendInv
    <2>1. Resending = {}
        BY DEF Init, Resending
    <2> QED BY <2>1, FS_EmptySet DEF Init, ResendInv, Type
<1> QED BY <1>1, <1>2, <1>3, <1>4 DEF IInv

\* The invariant is inductive.
LEMMA StepHolds == IInv /\ [Next]_vars => IInv'
<1> SUFFICES ASSUME IInv, [Next]_vars PROVE IInv'
    OBVIOUS
<1> USE DEF IInv
<1>1. TypeOK'
    BY TypeStays
<1>2. AccountStays
    BY AccountPersists
<1>3. HandlerInv' /\ ResetsAreLocal'
    BY <1>1, <1>2, HandlerStays, ResetsStay
<1>4. OneAccount' /\ AnnounceInv'
    BY <1>1, <1>2, OneAccountStays, AnnounceStays
<1>5. OtpInv' /\ SpentOtpIsGone'
    BY <1>1, OtpStays, SpentStays
<1>6. ResendInv'
    BY <1>1, ResendStays
<1> QED BY <1>1, <1>3, <1>4, <1>5, <1>6

-------------------------------------------------------------------------------
\* Every state satisfies the invariant, types included.
THEOREM Invariant == Spec => []IInv
BY InitHolds, StepHolds, PTL DEF Spec

\* However registrations and Google sign-ins overlap, the account is created and
\* announced once, and a flow ends well only in an account of its provider.
THEOREM AccountsAreUnique == Spec => []OneAccount
<1>1. IInv => OneAccount
    BY DEF IInv
<1> QED BY <1>1, Invariant, PTL

\* Nobody is mailed an OTP to set the password of a Google account, and it has
\* none.
THEOREM OnlyLocalResets == Spec => []ResetsAreLocal
<1>1. IInv => ResetsAreLocal
    BY DEF IInv
<1> QED BY <1>1, Invariant, PTL

\* The OTP of a reset that was answered is never in the cache again.
THEOREM SpentOtpsStayGone == Spec => []SpentOtpIsGone
<1>1. IInv => SpentOtpIsGone
    BY DEF IInv
<1> QED BY <1>1, Invariant, PTL

\* No more OTPs are sent again than the limit allows: they, and those under way,
\* have been counted.
THEOREM ResendLimitHolds == Spec => []ResendsAreLimited
<1>1. ASSUME IInv PROVE ResendsAreLimited
    <2>1. Cardinality(Resending) \in Nat
        BY <1>1, FS_CardinalityType DEF IInv, ResendInv
    <2> QED BY <1>1, <2>1, BoundsAssumption DEF IInv, ResendInv, ResendsAreLimited, TypeOK, Type
<1> QED BY <1>1, Invariant, PTL

===============================================================================
