----------------------------- MODULE AuthSession -----------------------------
(***************************************************************************)
(* Sessions of one verified local account of the auth service: login,      *)
(* refresh, logout, password change and reset, profile and avatar.         *)
(*                                                                         *)
(* Handlers of any number of requests run concurrently; every await on the *)
(* database or on the media service separates two actions.  bcrypt and JWT *)
(* signing touch no shared state and belong to the action of the read they *)
(* follow.                                                                 *)
(***************************************************************************)
EXTENDS Naturals

CONSTANTS
    Requests,       \* requests that may arrive, each at most once
    Registration,   \* the request that created the account
    Passwords,      \* passwords a user may choose
    Names,          \* names a user may choose
    None,           \* null
    MaxFaults       \* bound on failed calls and crashes together

ASSUME MaxFaultsAssumption == MaxFaults \in Nat

VARIABLES
    row,            \* the account's row in the table "user"
    request,        \* the handler of each request, None before it arrives
    tokens,         \* token versions of the access tokens handed out
    mediaDelete,    \* topic MEDIA_DELETE: images the media service removes
    replaced,       \* password hashes that an answered request has replaced
    faults          \* failed calls and crashes so far

vars == << row, request, tokens, mediaDelete, replaced, faults >>

-------------------------------------------------------------------------------
Calls == Requests \cup {Registration}

\* bcrypt.hash: salted, so hashes made by two calls differ.
Hash(password, call) == [text |-> password, by |-> call]

Hashes == [text : Passwords, by : Calls]

\* A refresh token and an image are named by the call that made them.
User == [password : Hashes, tokenVersion : Nat, refreshToken : Calls \cup {None},
         name : Names, imageUrl : Calls \cup {None},
         imagePublicId : Calls \cup {None}]

Columns == { "password", "tokenVersion", "refreshToken", "name", "imageUrl",
             "imagePublicId" }

\* Columns a plain SELECT loads: imagePublicId is declared select: false.
Selected == Columns \ { "imagePublicId" }

Ops == { "login", "refresh", "logout", "changePassword", "resetPassword",
         "updateUserProfile", "uploadUserImage" }

Running == { "handle", "upload", "reload", "write" }

Finished == { "ok", "refused", "failed" }

\* A handler in progress holds an entity and the columns of it that it may
\* still write.
Handler == [op : Ops, step : Running \cup Finished, user : User \cup {None},
            set : SUBSET Columns]

ASSUME NoneAssumption == None \notin Handler \cup User \cup Calls

TypeOK ==
    /\ row \in User
    /\ request \in [Requests -> Handler \cup {None}]
    /\ tokens \subseteq Nat
    /\ mediaDelete \subseteq Calls
    /\ replaced \subseteq Hashes
    /\ faults \in 0..MaxFaults

\* As verifyOtpRegisterUser leaves it: a verified user with one pair of tokens.
Init ==
    /\ \E p \in Passwords, n \in Names :
           row = [ password |-> Hash(p, Registration), tokenVersion |-> 1,
                   refreshToken |-> Registration, name |-> n,
                   imageUrl |-> None, imagePublicId |-> None ]
    /\ request = [q \in Requests |-> None]
    /\ tokens = {1}
    /\ mediaDelete = {}
    /\ replaced = {}
    /\ faults = 0

-------------------------------------------------------------------------------
At(q, step) == request[q] # None /\ request[q].step = step

Handling(q, op) == At(q, "handle") /\ request[q].op = op

Writing(q) == At(q, "reload") \/ At(q, "write")

InFlight(q) == request[q] # None /\ request[q].step \in Running

\* The handler of q goes on with an entity to be written.
Holds(q, op, step, user, set) ==
    request' = [request EXCEPT ![q] =
                   [op |-> op, step |-> step, user |-> user, set |-> set]]

Answer(q, op, step) == Holds(q, op, step, None, {})

Alters(q, op, user, set) == Holds(q, op, "write", user, set)

historyVars == << tokens, mediaDelete, replaced, faults >>

-------------------------------------------------------------------------------
(***************************************************************************)
(* Login and refresh                                                       *)
(***************************************************************************)

\* generateTokens works on the entity that was read; updateUserRefreshToken
\* then stores the new refresh token's hash with a statement of its own.
IssueTokens(q, op) ==
    Alters(q, op, [row EXCEPT !.refreshToken = q], {"refreshToken"})

LoginUser(q, password) ==
    /\ request[q] = None
    /\ IF row.password.text = password
       THEN IssueTokens(q, "login")
       ELSE Answer(q, "login", "refused")
    /\ UNCHANGED << row, historyVars >>

\* Mutation: a missing stored token is not looked at.
RefreshTokenUnchecked(q) ==
    /\ request[q] = None
    /\ IssueTokens(q, "refresh")
    /\ UNCHANGED << row, historyVars >>

\* The caller holds a refresh token of this account, and no stored hash means
\* that the session is over.  bcrypt compares 72 bytes, which the header and
\* the user id fill, so tokens of one account compare equal.
RefreshToken(q) ==
    /\ request[q] = None
    /\ IF row.refreshToken = None
       THEN Answer(q, "refresh", "refused")
       ELSE IssueTokens(q, "refresh")
    /\ UNCHANGED << row, historyVars >>

-------------------------------------------------------------------------------
(***************************************************************************)
(* Requests behind JwtAuthGuard                                            *)
(***************************************************************************)
Guarded == { "logout", "changePassword", "updateUserProfile", "uploadUserImage" }

\* JwtStrategy.validate: the access token must carry the version on record.
Validate(q, op, v) ==
    /\ request[q] = None
    /\ Answer(q, op, IF v = row.tokenVersion THEN "handle" ELSE "refused")
    /\ UNCHANGED << row, historyVars >>

\* logout and logoutAll: the increment is one statement, clearing the refresh
\* token another.
Logout(q) ==
    /\ Handling(q, "logout")
    /\ row' = [row EXCEPT !.tokenVersion = @ + 1]
    /\ Alters(q, "logout", [row EXCEPT !.refreshToken = None], {"refreshToken"})
    /\ UNCHANGED historyVars

\* A new password ends the session.
SetPassword(q, op, password) ==
    Alters(q, op,
           [row EXCEPT !.password = Hash(password, q), !.refreshToken = None],
           { "password", "refreshToken" })

ChangePassword(q, current, new) ==
    /\ Handling(q, "changePassword")
    /\ IF row.password.text = current /\ new # current
       THEN SetPassword(q, "changePassword", new)
       ELSE Answer(q, "changePassword", "refused")
    /\ UNCHANGED << row, historyVars >>

\* Mutation: the version starts afresh with the new password.
ResetPasswordAndVersion(q, new) ==
    /\ request[q] = None
    /\ Alters(q, "resetPassword",
              [row EXCEPT !.password = Hash(new, q), !.refreshToken = None,
                          !.tokenVersion = 1],
              { "password", "refreshToken", "tokenVersion" })
    /\ UNCHANGED << row, historyVars >>

\* With an OTP that matched; no guard.
ResetPassword(q, new) ==
    /\ request[q] = None
    /\ SetPassword(q, "resetPassword", new)
    /\ UNCHANGED << row, historyVars >>

UpdateUserProfile(q, name) ==
    /\ Handling(q, "updateUserProfile")
    /\ Holds(q, "updateUserProfile", "reload", [row EXCEPT !.name = name], Selected)
    /\ UNCHANGED << row, historyVars >>

\* The row is read with its imagePublicId and the image goes to the media
\* service, whose reply is awaited without a time limit.
UploadUserImage(q) ==
    /\ Handling(q, "uploadUserImage")
    /\ Holds(q, "uploadUserImage", "upload", row, Columns)
    /\ UNCHANGED << row, historyVars >>

\* Mutation: only the url is assigned.
AssignedUrl(q) == [request[q].user EXCEPT !.imageUrl = q]

\* The entity of q gets its new image.
Assigned(q) == [request[q].user EXCEPT !.imageUrl = q, !.imagePublicId = q]

OldImage(q) == {request[q].user.imagePublicId} \ {None}

\* The image is stored: the old one is given up at once, then the user saved.
UploadSucceeds(q) ==
    /\ At(q, "upload")
    /\ mediaDelete' = mediaDelete \cup OldImage(q)
    /\ Holds(q, "uploadUserImage", "reload", Assigned(q), Columns)
    /\ UNCHANGED << row, tokens, replaced, faults >>

\* Mutation: the old image is given up before the result is looked at.
UploadFailsAfterDelete(q) ==
    /\ At(q, "upload")
    /\ mediaDelete' = mediaDelete \cup OldImage(q)
    /\ Answer(q, "uploadUserImage", "failed")
    /\ UNCHANGED << row, tokens, replaced, faults >>

UploadFails(q) ==
    /\ At(q, "upload")
    /\ Answer(q, "uploadUserImage", "failed")
    /\ UNCHANGED << row, historyVars >>

-------------------------------------------------------------------------------
(***************************************************************************)
(* Statements                                                              *)
(***************************************************************************)

\* save(entity), second SELECT: what differs from the row as it is now will be
\* written.  imagePublicId is not selected, so it always counts as changed.
Differing(q) ==
    { c \in request[q].set : c \notin Selected \/ request[q].user[c] # row[c] }

\* Mutation: a save with nothing to write never returns.
ReloadOnlyChanged(q) ==
    /\ At(q, "reload")
    /\ Differing(q) # {}
    /\ Holds(q, request[q].op, "write", request[q].user, Differing(q))
    /\ UNCHANGED << row, historyVars >>

Reload(q) ==
    /\ At(q, "reload")
    /\ IF Differing(q) = {}
       THEN Answer(q, request[q].op, "ok")
       ELSE Holds(q, request[q].op, "write", request[q].user, Differing(q))
    /\ UNCHANGED << row, historyVars >>

\* UPDATE "user" SET of the columns in set, and the reply.
Write(q) ==
    /\ At(q, "write")
    /\ LET user == request[q].user
           set  == request[q].set
       IN /\ row' =
              [ password      |-> IF "password" \in set THEN user.password ELSE row.password,
                tokenVersion  |-> IF "tokenVersion" \in set THEN user.tokenVersion ELSE row.tokenVersion,
                refreshToken  |-> IF "refreshToken" \in set THEN user.refreshToken ELSE row.refreshToken,
                name          |-> IF "name" \in set THEN user.name ELSE row.name,
                imageUrl      |-> IF "imageUrl" \in set THEN user.imageUrl ELSE row.imageUrl,
                imagePublicId |-> IF "imagePublicId" \in set THEN user.imagePublicId ELSE row.imagePublicId ]
          /\ tokens' = IF request[q].op \in { "login", "refresh" }
                       THEN tokens \cup {user.tokenVersion} ELSE tokens
          /\ replaced' = IF request[q].op \in { "changePassword", "resetPassword" }
                         THEN replaced \cup {row.password} ELSE replaced
    /\ Answer(q, request[q].op, "ok")
    /\ UNCHANGED << mediaDelete, faults >>

\* The next statement of a handler fails: the request is answered with an
\* error and what was done before stays.
StatementFails(q) ==
    /\ request[q] # None
    /\ request[q].step \in { "handle", "reload", "write" }
    /\ faults < MaxFaults
    /\ faults' = faults + 1
    /\ Answer(q, request[q].op, "failed")
    /\ UNCHANGED << row, tokens, mediaDelete, replaced >>

\* The process dies with its handlers; the row stays.
Crash ==
    /\ faults < MaxFaults
    /\ faults' = faults + 1
    /\ request' = [q \in Requests |->
           IF InFlight(q)
           THEN [op |-> request[q].op, step |-> "failed", user |-> None, set |-> {}]
           ELSE request[q]]
    /\ UNCHANGED << row, tokens, mediaDelete, replaced >>

-------------------------------------------------------------------------------
\* Steps of the code once a request has arrived.
HandlerStep(q) ==
    \/ Logout(q)
    \/ \E current, new \in Passwords : ChangePassword(q, current, new)
    \/ \E name \in Names : UpdateUserProfile(q, name)
    \/ UploadUserImage(q)
    \/ Reload(q)
    \/ Write(q)

\* Replies of the media service.
MediaReplies(q) == UploadSucceeds(q) \/ UploadFails(q)

Arrives(q) ==
    \/ \E p \in Passwords : LoginUser(q, p) \/ ResetPassword(q, p)
    \/ RefreshToken(q)
    \/ \E op \in Guarded, v \in tokens : Validate(q, op, v)

Next ==
    \/ \E q \in Requests :
           Arrives(q) \/ HandlerStep(q) \/ MediaReplies(q) \/ StatementFails(q)
    \/ Crash

Spec == Init /\ [][Next]_vars

\* Promises settle and the event loop runs their continuations.
HandlersRun == \A q \in Requests : WF_vars(HandlerStep(q))

\* The media service answers every upload.
MediaAnswers == \A q \in Requests : WF_vars(MediaReplies(q))

FairSpec == Spec /\ HandlersRun /\ MediaAnswers

-------------------------------------------------------------------------------
(***************************************************************************)
(* Properties                                                              *)
(***************************************************************************)

\* Handlers that save the whole user they have read, not a column or two.
SavesUser(q) == request[q].op \in { "updateUserProfile", "uploadUserImage" }

\* The UPDATE of such a handler writes an older column back: it read the row
\* before the handler that has changed the column since.
WritesBack(q, column) ==
    /\ At(q, "write")
    /\ SavesUser(q)
    /\ column \in request[q].set
    /\ request'[q].step = "ok"

\* Access tokens of version v are refused, and no handler that read the row
\* before the logout is left that could bring the version back.
VersionIsDead(v) ==
    /\ v < row.tokenVersion
    /\ \A q \in Requests :
           request[q] # None /\ "tokenVersion" \in request[q].set
           => v < request[q].user.tokenVersion

\* logout against every other handler.  An access token of before a logout is
\* accepted again in one case only: a profile or avatar save that had read the
\* user before the logout writes the old version back.  Nothing else lowers the
\* version, and when a version is past and no such save is left, it is past for
\* good, whatever is saved, changed, reset or fails later.
LogoutIsFinal ==
    [][ \A v \in tokens :
           /\ v < row.tokenVersion =>
                 \/ v < row'.tokenVersion
                 \/ \E q \in Requests :
                       WritesBack(q, "tokenVersion") /\ request[q].user.tokenVersion <= v
           /\ VersionIsDead(v) => VersionIsDead(v)' ]_vars

\* No refresh token is stored and no handler is left that would store one.
SessionIsOver ==
    /\ row.refreshToken = None
    /\ \A q \in Requests :
           request[q] # None /\ "refreshToken" \in request[q].set
           => request[q].user.refreshToken = None

LoginStarts ==
    \E q \in Requests :
        /\ request[q] = None
        /\ request'[q] # None
        /\ request'[q].op = "login"

\* logout, changePassword and resetPassword against refresh and the saves of
\* whole users: a session that is over only begins again with a login.
OnlyLoginOpensSession == [][SessionIsOver /\ ~LoginStarts => SessionIsOver']_vars

\* An upload is about to put its own image in place of the one on record.
BeingReplaced ==
    \E q \in Requests : Writing(q) /\ request[q].op = "uploadUserImage"

\* The media service removes the image, and nothing takes its place.
IsGone(image) == image \in mediaDelete /\ ~BeingReplaced

\* uploadUserImage against itself and updateUserProfile.  The image whose file
\* the account owns (imagePublicId) is removed only by an upload that is about to
\* put its own in its place, unless a fault keeps it from doing so.  The image
\* the account shows (imageUrl) is a removed one in one more case: a profile save
\* that had read the user before an upload writes the old url back.
AvatarIsKept ==
    [][ /\ IsGone(row.imagePublicId)' => IsGone(row.imagePublicId) \/ faults' > faults
        /\ IsGone(row.imageUrl)' =>
              \/ IsGone(row.imageUrl)
              \/ faults' > faults
              \/ \E q \in Requests :
                    /\ WritesBack(q, "imageUrl")
                    /\ request[q].op = "updateUserProfile"
                    /\ request[q].user.imageUrl # row.imageUrl ]_vars

\* Every request is answered, as long as the media service answers.
RequestsAnswered ==
    \A q \in Requests :
        request[q] # None ~> request[q] # None /\ request[q].step \in Finished

\* "Password changed successfully" (auth-service.service.ts:365): a password
\* that was replaced is not the account's password any more.
PasswordChangeIsKept == row.password \notin replaced

-------------------------------------------------------------------------------
(***************************************************************************)
(* The inductive invariant behind the safety properties                    *)
(***************************************************************************)
\* The columns a handler of each operation may write.
ColumnsOf(op) ==
    CASE op = "uploadUserImage"   -> Columns
      [] op = "updateUserProfile" -> Selected
      [] OTHER                    -> { "password", "refreshToken" }

\* Whatever may still be written is held by a handler past its read.
HandlerInv ==
    \A q \in Requests :
        request[q] # None =>
            /\ request[q].step \in { "upload", "reload", "write" }
               => request[q].user # None
            /\ request[q].step \in Finished \cup { "handle" }
               => request[q].set = {}
            /\ request[q].step = "upload" =>
                  request[q].op = "uploadUserImage" /\ request[q].set = Columns
            /\ request[q].set \subseteq ColumnsOf(request[q].op)

\* A request whose image may still be stored: nobody else knows that image yet,
\* and when it is stored, both columns name it.
Pending(q) == request[q] = None \/ InFlight(q)

ImagesOf(user) == { user.imageUrl, user.imagePublicId }

ImageInv ==
    /\ \A q \in Requests :
           Writing(q) /\ request[q].op = "uploadUserImage" =>
               /\ { "imageUrl", "imagePublicId" } \subseteq request[q].set
               /\ request[q].user.imageUrl = q
               /\ request[q].user.imagePublicId = q
    /\ \A q \in Requests :
           Pending(q) =>
               /\ q \notin mediaDelete
               /\ q \notin ImagesOf(row)
               /\ \A p \in Requests :
                      \/ p # q /\ Writing(p)
                      \/ At(p, "upload")
                      => q \notin ImagesOf(request[p].user)

IInv == TypeOK /\ HandlerInv /\ ImageInv

===============================================================================
