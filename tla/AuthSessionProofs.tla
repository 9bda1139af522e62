-------------------------- MODULE AuthSessionProofs --------------------------
(***************************************************************************)
(* Proofs about AuthSession, for any number of concurrent requests,        *)
(* passwords, names and faults.                                            *)
(***************************************************************************)
EXTENDS AuthSession, TLAPS

-------------------------------------------------------------------------------
(***************************************************************************)
(* Types                                                                   *)
(***************************************************************************)

\* What a save writes is part of what its handler held.
LEMMA DifferingIsHeld == \A q : Differing(q) \subseteq request[q].set
BY DEF Differing

\* A handler that goes on changes nothing about the others.
LEMMA HoldsOne ==
    ASSUME TypeOK, NEW q \in Requests, NEW op \in Ops,
           NEW step \in Running \cup Finished, NEW user \in User \cup {None},
           NEW set \in SUBSET Columns, Holds(q, op, step, user, set)
    PROVE  /\ request' \in [Requests -> Handler \cup {None}]
           /\ request'[q] = [op |-> op, step |-> step, user |-> user, set |-> set]
           /\ request'[q] # None
           /\ \A p \in Requests \ {q} : request'[p] = request[p]
<1>1. [op |-> op, step |-> step, user |-> user, set |-> set] \in Handler
  BY DEF Handler
<1>2. QED
  BY <1>1, NoneAssumption DEF Holds, TypeOK

\* Every field of a handler has its type.
LEMMA HandlerFields ==
    ASSUME TypeOK, NEW q \in Requests, request[q] # None
    PROVE  /\ request[q] \in Handler
           /\ request[q].op \in Ops
           /\ request[q].step \in Running \cup Finished
           /\ request[q].user \in User \cup {None}
           /\ request[q].set \in SUBSET Columns
BY DEF TypeOK, Handler

\* The entities handlers hold are rows.
LEMMA Entities ==
    ASSUME TypeOK, NEW q \in Requests
    PROVE  /\ [row EXCEPT !.refreshToken = q] \in User
           /\ [row EXCEPT !.refreshToken = None] \in User
           /\ [row EXCEPT !.tokenVersion = @ + 1] \in User
           /\ \A n \in Names : [row EXCEPT !.name = n] \in User
           /\ \A p \in Passwords :
                 [row EXCEPT !.password = Hash(p, q), !.refreshToken = None] \in User
           /\ \A u \in User : [u EXCEPT !.imageUrl = q, !.imagePublicId = q] \in User
<1> USE DEF TypeOK, User, Calls
<1>1. [row EXCEPT !.refreshToken = q] \in User
  OBVIOUS
<1>2. [row EXCEPT !.refreshToken = None] \in User
  OBVIOUS
<1>3. [row EXCEPT !.tokenVersion = @ + 1] \in User
  OBVIOUS
<1>4. ASSUME NEW n \in Names PROVE [row EXCEPT !.name = n] \in User
  OBVIOUS
<1>5. ASSUME NEW p \in Passwords
      PROVE  [row EXCEPT !.password = Hash(p, q), !.refreshToken = None] \in User
  <2>1. Hash(p, q) \in Hashes
    BY DEF Hash, Hashes
  <2>2. QED
    BY <2>1
<1>6. ASSUME NEW u \in User
      PROVE  [u EXCEPT !.imageUrl = q, !.imagePublicId = q] \in User
  OBVIOUS
<1>7. QED
  BY <1>1, <1>2, <1>3, <1>4, <1>5, <1>6

\* None of these but the last touches an image.
LEMMA EntitiesKeepImages ==
    ASSUME TypeOK, NEW q \in Requests
    PROVE  /\ ImagesOf([row EXCEPT !.refreshToken = q]) = ImagesOf(row)
           /\ ImagesOf([row EXCEPT !.refreshToken = None]) = ImagesOf(row)
           /\ ImagesOf([row EXCEPT !.tokenVersion = @ + 1]) = ImagesOf(row)
           /\ \A n \in Names : ImagesOf([row EXCEPT !.name = n]) = ImagesOf(row)
           /\ \A p \in Passwords :
                 ImagesOf([row EXCEPT !.password = Hash(p, q), !.refreshToken = None])
                    = ImagesOf(row)
BY DEF TypeOK, User, ImagesOf

\* A new account satisfies the invariant.
LEMMA InitHolds == Init => IInv
<1> SUFFICES ASSUME Init PROVE IInv
  OBVIOUS
<1>1. TypeOK
  BY MaxFaultsAssumption DEF Init, TypeOK, User, Hash, Hashes, Calls
<1>2. HandlerInv /\ ImageInv
  BY NoneAssumption DEF Init, HandlerInv, ImageInv, ImagesOf, Writing, At, Calls
<1>3. QED
  BY <1>1, <1>2 DEF IInv

\* What a request of q that moves on to one of the steps of a handler leaves
\* true: types, and what HandlerInv says.
LEMMA Moves ==
    ASSUME IInv, NEW q \in Requests, NEW op \in Ops,
           NEW step \in Running \cup Finished, NEW user \in User \cup {None},
           NEW set \in SUBSET Columns, Holds(q, op, step, user, set),
           step \in { "upload", "reload", "write" } => user # None,
           step \in Finished \cup { "handle" } => set = {},
           step = "upload" => op = "uploadUserImage" /\ set = Columns,
           set \subseteq ColumnsOf(op)
    PROVE  HandlerInv'
<1>1. /\ request'[q] = [op |-> op, step |-> step, user |-> user, set |-> set]
      /\ \A p \in Requests \ {q} : request'[p] = request[p]
  BY HoldsOne DEF IInv
<1>2. ASSUME NEW p \in Requests, request'[p] # None
      PROVE  /\ request'[p].step \in { "upload", "reload", "write" }
                => request'[p].user # None
             /\ request'[p].step \in Finished \cup { "handle" }
                => request'[p].set = {}
             /\ request'[p].step = "upload" =>
                   request'[p].op = "uploadUserImage" /\ request'[p].set = Columns
             /\ request'[p].set \subseteq ColumnsOf(request'[p].op)
  <2>1. CASE p = q
    BY <1>1, <2>1
  <2>2. CASE p # q
    BY <1>1, <1>2, <2>2 DEF IInv, HandlerInv
  <2>3. QED
    BY <2>1, <2>2
<1>3. QED
  BY <1>2 DEF HandlerInv

\* Nobody but q may hold an image that is still to be stored by q.
Unknown(q, user) == \A p \in Requests \ {q} : Pending(p) => p \notin ImagesOf(user)

\* The row knows no image that is still to be stored, nor does a handler past
\* its read.
LEMMA RowIsUnknown ==
    ASSUME IInv, NEW q \in Requests, NEW user, ImagesOf(user) = ImagesOf(row)
    PROVE  Unknown(q, user) /\ (Pending(q) => q \notin ImagesOf(user))
BY DEF IInv, ImageInv, Unknown

LEMMA HeldIsUnknown ==
    ASSUME IInv, NEW q \in Requests, Writing(q) \/ At(q, "upload")
    PROVE  Unknown(q, request[q].user)
BY DEF IInv, ImageInv, Unknown

\* The same for what ImageInv says, as long as the row's images stay.
LEMMA ImageMoves ==
    ASSUME IInv, NEW q \in Requests, NEW op \in Ops,
           NEW step \in Running \cup Finished, NEW user \in User \cup {None},
           NEW set \in SUBSET Columns, Holds(q, op, step, user, set),
           Pending(q),
           ImagesOf(row') = ImagesOf(row), mediaDelete' = mediaDelete,
           step \in { "reload", "write" } /\ op = "uploadUserImage" =>
               /\ { "imageUrl", "imagePublicId" } \subseteq set
               /\ user.imageUrl = q
               /\ user.imagePublicId = q,
           step \in { "upload", "reload", "write" } => Unknown(q, user),
           step = "upload" => q \notin ImagesOf(user)
    PROVE  ImageInv'
<1>1. /\ request'[q] = [op |-> op, step |-> step, user |-> user, set |-> set]
      /\ request'[q] # None
      /\ \A p \in Requests \ {q} : request'[p] = request[p]
  BY HoldsOne DEF IInv
<1>2. ASSUME NEW p \in Requests, Writing(p)', request'[p].op = "uploadUserImage"
      PROVE  /\ { "imageUrl", "imagePublicId" } \subseteq request'[p].set
             /\ request'[p].user.imageUrl = p
             /\ request'[p].user.imagePublicId = p
  <2>1. CASE p = q
    BY <1>1, <1>2, <2>1 DEF Writing, At
  <2>2. CASE p # q
    BY <1>1, <1>2, <2>2 DEF IInv, ImageInv, Writing, At
  <2>3. QED
    BY <2>1, <2>2
<1>3. ASSUME NEW p \in Requests, Pending(p)'
      PROVE  /\ p \notin mediaDelete'
             /\ p \notin ImagesOf(row')
             /\ \A r \in Requests :
                    (r # p /\ Writing(r)') \/ At(r, "upload")'
                    => p \notin ImagesOf(request'[r].user)
  <2>1. Pending(p)
    BY <1>1, <1>3 DEF Pending, InFlight
  <2>2. p \notin mediaDelete /\ p \notin ImagesOf(row)
    BY <2>1 DEF IInv, ImageInv
  <2>3. ASSUME NEW r \in Requests, (r # p /\ Writing(r)') \/ At(r, "upload")'
        PROVE  p \notin ImagesOf(request'[r].user)
    <3>1. CASE r = q
      BY <1>1, <2>1, <2>3, <3>1 DEF At, Writing, Unknown
    <3>2. CASE r # q
      BY <1>1, <2>1, <2>3, <3>2 DEF At, Writing, IInv, ImageInv
    <3>3. QED
      BY <3>1, <3>2
  <2>4. QED
    BY <2>2, <2>3
<1>4. QED
  BY <1>2, <1>3 DEF ImageInv, ImagesOf

\* A step that only moves the handler of one request.
LEMMA QuietStep ==
    ASSUME IInv, NEW q \in Requests, NEW op \in Ops,
           NEW step \in Running \cup Finished, NEW user \in User \cup {None},
           NEW set \in SUBSET Columns, Holds(q, op, step, user, set),
           Pending(q), UNCHANGED << row, historyVars >>,
           step \in { "upload", "reload", "write" } => user # None,
           step \in Finished \cup { "handle" } => set = {},
           step = "upload" => op = "uploadUserImage" /\ set = Columns,
           set \subseteq ColumnsOf(op),
           step \in { "reload", "write" } /\ op = "uploadUserImage" =>
               /\ { "imageUrl", "imagePublicId" } \subseteq set
               /\ user.imageUrl = q
               /\ user.imagePublicId = q,
           step \in { "upload", "reload", "write" } => Unknown(q, user),
           step = "upload" => q \notin ImagesOf(user)
    PROVE  IInv'
<1>1. TypeOK'
  BY HoldsOne DEF IInv, TypeOK, historyVars
<1>2. HandlerInv'
  BY Moves
<1>3. ImageInv'
  <2>1. ImagesOf(row') = ImagesOf(row) /\ mediaDelete' = mediaDelete
    BY DEF historyVars
  <2>2. QED
    BY <2>1, ImageMoves
<1>4. QED
  BY <1>1, <1>2, <1>3 DEF IInv

\* A request that is answered without having changed the row.
LEMMA AnswerStep ==
    ASSUME IInv, NEW q \in Requests, NEW op \in Ops,
           NEW step \in Finished \cup {"handle"}, Answer(q, op, step), Pending(q),
           UNCHANGED << row, historyVars >>
    PROVE  IInv'
<1>1. /\ step \in Running \cup Finished
      /\ step \notin { "upload", "reload", "write" }
      /\ {} \subseteq ColumnsOf(op)
  BY DEF Running, Finished
<1>2. Holds(q, op, step, None, {})
  BY DEF Answer
<1>3. QED
  BY <1>1, <1>2, QuietStep

\* A request that is about to write other columns than the image's.
LEMMA AltersStep ==
    ASSUME IInv, NEW q \in Requests, NEW op \in Ops \ { "uploadUserImage" },
           NEW user \in User, NEW set \in SUBSET { "password", "refreshToken" },
           Alters(q, op, user, set), Pending(q), ImagesOf(user) = ImagesOf(row),
           UNCHANGED << row, historyVars >>
    PROVE  IInv'
<1>1. Holds(q, op, "write", user, set)
  BY DEF Alters
<1>2. /\ "write" \in Running \cup Finished /\ "write" \notin Finished
      /\ set \in SUBSET Columns /\ set \subseteq ColumnsOf(op)
  BY DEF Running, Finished, Columns, ColumnsOf, Selected
<1>3. user # None
  BY NoneAssumption
<1>4. Unknown(q, user)
  BY RowIsUnknown
<1>5. QED
  BY <1>1, <1>2, <1>3, <1>4, QuietStep

\* login, refresh, reset and the guard only read the row.
LEMMA ArrivesStep ==
    ASSUME IInv, NEW q \in Requests, Arrives(q)
    PROVE  IInv'
<1> USE DEF Ops, Finished
<1>1. Pending(q)
  BY DEF Arrives, LoginUser, ResetPassword, RefreshToken, Validate, Pending
<1>2. ASSUME NEW op \in { "login", "refresh" }, IssueTokens(q, op),
             UNCHANGED << row, historyVars >>
      PROVE  IInv'
  <2>1. /\ [row EXCEPT !.refreshToken = q] \in User
        /\ ImagesOf([row EXCEPT !.refreshToken = q]) = ImagesOf(row)
    BY Entities, EntitiesKeepImages DEF IInv
  <2>2. QED
    BY <1>1, <1>2, <2>1, AltersStep DEF IssueTokens
<1>3. ASSUME NEW p \in Passwords, LoginUser(q, p) PROVE IInv'
  BY <1>1, <1>2, <1>3, AnswerStep DEF LoginUser
<1>4. ASSUME NEW p \in Passwords, ResetPassword(q, p) PROVE IInv'
  <2> DEFINE user == [row EXCEPT !.password = Hash(p, q), !.refreshToken = None]
  <2>1. user \in User /\ ImagesOf(user) = ImagesOf(row)
    BY Entities, EntitiesKeepImages DEF IInv
  <2>2. QED
    BY <1>1, <1>4, <2>1, AltersStep DEF ResetPassword, SetPassword
<1>5. CASE RefreshToken(q)
  BY <1>1, <1>2, <1>5, AnswerStep DEF RefreshToken
<1>6. ASSUME NEW op \in Guarded, NEW v \in tokens, Validate(q, op, v) PROVE IInv'
  BY <1>1, <1>6, AnswerStep DEF Validate, Guarded
<1>7. QED
  BY <1>3, <1>4, <1>5, <1>6 DEF Arrives

\* The increment of logout.
LEMMA LogoutStep ==
    ASSUME IInv, NEW q \in Requests, Logout(q)
    PROVE  IInv'
<1> DEFINE user == [row EXCEPT !.refreshToken = None]
<1>1. Holds(q, "logout", "write", user, {"refreshToken"})
  BY DEF Logout, Alters
<1>2. user \in User /\ row' \in User
  BY Entities DEF IInv, Logout
<1>3. /\ ImagesOf(row') = ImagesOf(row) /\ mediaDelete' = mediaDelete
      /\ ImagesOf(user) = ImagesOf(row)
  BY EntitiesKeepImages DEF Logout, historyVars, IInv
<1>4. /\ Pending(q)
      /\ "logout" \in Ops /\ "write" \in Running \cup Finished
      /\ "write" \notin Finished /\ {"refreshToken"} \in SUBSET Columns
      /\ {"refreshToken"} \subseteq ColumnsOf("logout")
  BY DEF Logout, Handling, At, Pending, InFlight, Ops, Running, Finished, Columns,
         ColumnsOf
<1>5. user # None /\ Unknown(q, user)
  BY <1>2, <1>3, NoneAssumption, RowIsUnknown
<1> HIDE DEF user
<1>6. TypeOK'
  BY <1>1, <1>2, <1>4, HoldsOne DEF IInv, TypeOK, Logout, historyVars
<1>7. HandlerInv'
  BY <1>1, <1>2, <1>4, <1>5, Moves
<1>8. ImageInv'
  BY <1>1, <1>2, <1>3, <1>4, <1>5, ImageMoves
<1>9. QED
  BY <1>6, <1>7, <1>8 DEF IInv

\* The reads behind the guard.
LEMMA HandleStep ==
    ASSUME IInv, NEW q \in Requests, At(q, "handle"),
           \/ \E current, new \in Passwords : ChangePassword(q, current, new)
           \/ \E name \in Names : UpdateUserProfile(q, name)
           \/ UploadUserImage(q)
    PROVE  IInv'
<1> USE DEF Ops, Finished, Running
<1>1. Pending(q)
  BY DEF At, Pending, InFlight
<1>2. ASSUME NEW current \in Passwords, NEW new \in Passwords,
             ChangePassword(q, current, new)
      PROVE  IInv'
  <2> DEFINE user == [row EXCEPT !.password = Hash(new, q), !.refreshToken = None]
  <2>1. user \in User /\ ImagesOf(user) = ImagesOf(row)
    BY Entities, EntitiesKeepImages DEF IInv
  <2>2. QED
    BY <1>1, <1>2, <2>1, AltersStep, AnswerStep DEF ChangePassword, SetPassword
<1>3. ASSUME NEW name \in Names, UpdateUserProfile(q, name) PROVE IInv'
  <2> DEFINE user == [row EXCEPT !.name = name]
  <2>1. user \in User /\ user # None /\ Unknown(q, user)
    BY Entities, EntitiesKeepImages, RowIsUnknown, NoneAssumption DEF IInv
  <2>2. /\ Holds(q, "updateUserProfile", "reload", user, Selected)
        /\ UNCHANGED << row, historyVars >>
    BY <1>3 DEF UpdateUserProfile
  <2>3. Selected \in SUBSET Columns /\ Selected \subseteq ColumnsOf("updateUserProfile")
    BY DEF Selected, ColumnsOf
  <2> HIDE DEF user
  <2>4. QED
    BY <1>1, <2>1, <2>2, <2>3, QuietStep
<1>4. CASE UploadUserImage(q)
  <2>1. row \in User /\ row # None /\ Unknown(q, row) /\ q \notin ImagesOf(row)
    BY <1>1, RowIsUnknown, NoneAssumption DEF IInv, TypeOK
  <2>2. Columns \subseteq ColumnsOf("uploadUserImage")
    BY DEF ColumnsOf
  <2>3. QED
    BY <1>1, <1>4, <2>1, <2>2, QuietStep DEF UploadUserImage
<1>5. QED
  BY <1>2, <1>3, <1>4

\* The SELECT inside save narrows down what will be written.
LEMMA ReloadStep ==
    ASSUME IInv, NEW q \in Requests, Reload(q)
    PROVE  IInv'
<1>1. At(q, "reload") /\ Pending(q)
  BY DEF Reload, At, Pending, InFlight, Running
<1>2. /\ request[q].op \in Ops
      /\ request[q].user \in User
      /\ Differing(q) \in SUBSET Columns
      /\ Differing(q) \subseteq request[q].set
      /\ request[q].set \subseteq ColumnsOf(request[q].op)
  BY <1>1, HandlerFields, DifferingIsHeld DEF At, IInv, HandlerInv
<1>3. CASE Differing(q) = {}
  BY <1>1, <1>2, <1>3, AnswerStep DEF Reload, Finished
<1>4. CASE Differing(q) # {}
  <2>1. Holds(q, request[q].op, "write", request[q].user, Differing(q))
    BY <1>4 DEF Reload
  <2>2. request[q].op = "uploadUserImage" =>
           /\ { "imageUrl", "imagePublicId" } \subseteq Differing(q)
           /\ request[q].user.imageUrl = q
           /\ request[q].user.imagePublicId = q
    <3>1. row.imageUrl # q
      BY <1>1 DEF IInv, ImageInv, ImagesOf
    <3>2. QED
      BY <1>1, <3>1 DEF IInv, ImageInv, Writing, Differing, Selected
  <2>3. UNCHANGED << row, historyVars >>
    BY DEF Reload
  <2>4. request[q].user # None /\ Unknown(q, request[q].user)
    BY <1>1, <1>2, NoneAssumption, HeldIsUnknown DEF Writing
  <2>5. "write" \in Running \cup Finished /\ "write" \notin Finished
    BY DEF Running, Finished
  <2>6. QED
    BY <1>1, <1>2, <2>1, <2>2, <2>3, <2>4, <2>5, QuietStep
<1>5. QED
  BY <1>3, <1>4

\* The image of q becomes known to q's own entity only, and the image given up
\* is one that was on record.
LEMMA UploadSucceedsStep ==
    ASSUME IInv, NEW q \in Requests, UploadSucceeds(q)
    PROVE  IInv'
<1>1. At(q, "upload") /\ Pending(q)
  BY DEF UploadSucceeds, At, Pending, InFlight, Running
<1>2. request[q].user \in User
  BY <1>1, HandlerFields DEF At, IInv, HandlerInv
<1>3. /\ Assigned(q) \in User
      /\ Assigned(q) # None
      /\ Assigned(q).imageUrl = q /\ Assigned(q).imagePublicId = q
  <2>1. Assigned(q) \in User
    BY <1>2, Entities DEF Assigned, IInv
  <2>2. Assigned(q).imageUrl = q /\ Assigned(q).imagePublicId = q
    BY <1>2 DEF Assigned, User
  <2>3. QED
    BY <2>1, <2>2, NoneAssumption
<1>4. Holds(q, "uploadUserImage", "reload", Assigned(q), Columns)
  BY DEF UploadSucceeds
<1>5. /\ "uploadUserImage" \in Ops
      /\ "reload" \in Running \cup Finished
      /\ "reload" \notin Finished
      /\ Columns \subseteq ColumnsOf("uploadUserImage")
  BY DEF Ops, Running, Finished, ColumnsOf
<1>6. /\ request'[q] = [op |-> "uploadUserImage", step |-> "reload",
                       user |-> Assigned(q), set |-> Columns]
      /\ request'[q] # None
      /\ \A p \in Requests \ {q} : request'[p] = request[p]
      /\ request' \in [Requests -> Handler \cup {None}]
  BY <1>3, <1>4, <1>5, HoldsOne DEF IInv
<1>7. TypeOK'
  <2>1. OldImage(q) \subseteq Calls
    BY <1>2 DEF OldImage, User
  <2>2. QED
    BY <1>6, <2>1 DEF IInv, TypeOK, UploadSucceeds
<1>8. HandlerInv'
  BY <1>3, <1>4, <1>5, Moves
<1>9. ImageInv'
  <2>1. ASSUME NEW p \in Requests, Writing(p)', request'[p].op = "uploadUserImage"
        PROVE  /\ { "imageUrl", "imagePublicId" } \subseteq request'[p].set
               /\ request'[p].user.imageUrl = p
               /\ request'[p].user.imagePublicId = p
    <3>1. CASE p = q
      BY <1>3, <1>6, <3>1 DEF Columns
    <3>2. CASE p # q
      BY <1>6, <2>1, <3>2 DEF IInv, ImageInv, Writing, At
    <3>3. QED
      BY <3>1, <3>2
  <2>2. ASSUME NEW p \in Requests, Pending(p)'
        PROVE  /\ p \notin mediaDelete'
               /\ p \notin ImagesOf(row')
               /\ \A r \in Requests :
                      (r # p /\ Writing(r)') \/ At(r, "upload")'
                      => p \notin ImagesOf(request'[r].user)
    <3>1. Pending(p)
      BY <1>1, <1>6, <2>2 DEF Pending, InFlight
    <3>2. p \notin mediaDelete'
      BY <1>1, <3>1 DEF IInv, ImageInv, ImagesOf, UploadSucceeds, OldImage
    <3>3. p \notin ImagesOf(row')
      BY <3>1 DEF IInv, ImageInv, UploadSucceeds
    <3>4. ASSUME NEW r \in Requests, (r # p /\ Writing(r)') \/ At(r, "upload")'
          PROVE  p \notin ImagesOf(request'[r].user)
      <4>1. CASE r = q
        BY <1>3, <1>6, <3>4, <4>1 DEF At, ImagesOf
      <4>2. CASE r # q
        BY <1>6, <3>1, <3>4, <4>2 DEF At, Writing, IInv, ImageInv
      <4>3. QED
        BY <4>1, <4>2
    <3>5. QED
      BY <3>2, <3>3, <3>4
  <2>3. QED
    BY <2>1, <2>2 DEF ImageInv, ImagesOf
<1>10. QED
  BY <1>7, <1>8, <1>9 DEF IInv

\* An UPDATE stores the image of its own request or leaves the image alone.
LEMMA WriteStep ==
    ASSUME IInv, NEW q \in Requests, Write(q)
    PROVE  IInv'
<1>1. At(q, "write") /\ Pending(q) /\ request[q] # None
  BY DEF Write, At, Pending, InFlight, Running
<1>2. request[q].user \in User /\ request[q].op \in Ops
  BY <1>1, HandlerFields DEF At, IInv, HandlerInv
<1>3. Holds(q, request[q].op, "ok", None, {})
  BY DEF Write, Answer
<1>4. "ok" \in Running \cup Finished /\ "ok" \notin Running
  BY DEF Running, Finished
<1>5. /\ request'[q] = [op |-> request[q].op, step |-> "ok", user |-> None, set |-> {}]
      /\ request'[q] # None
      /\ \A p \in Requests \ {q} : request'[p] = request[p]
      /\ request' \in [Requests -> Handler \cup {None}]
  BY <1>2, <1>3, <1>4, HoldsOne DEF IInv
<1>6. TypeOK'
  <2>1. row' \in User
    BY <1>2 DEF Write, IInv, TypeOK, User
  <2>2. tokens' \subseteq Nat /\ replaced' \subseteq Hashes
    BY <1>2 DEF Write, IInv, TypeOK, User
  <2>3. QED
    BY <1>5, <2>1, <2>2 DEF IInv, TypeOK, Write
<1>7. HandlerInv'
  <2>1. /\ "ok" \notin { "upload", "reload", "write" }
        /\ {} \in SUBSET Columns /\ {} \subseteq ColumnsOf(request[q].op)
        /\ None \in User \cup {None}
    OBVIOUS
  <2>2. QED
    BY <1>2, <1>3, <1>4, <2>1, Moves
<1>8. ImagesOf(row') \subseteq ImagesOf(row) \cup ImagesOf(request[q].user)
  <2>1. /\ row'.imagePublicId \in { row.imagePublicId, request[q].user.imagePublicId }
        /\ row'.imageUrl \in { row.imageUrl, request[q].user.imageUrl }
    BY DEF Write
  <2>2. QED
    BY <2>1 DEF ImagesOf
<1>9. ImageInv'
  <2>1. ASSUME NEW p \in Requests, Writing(p)', request'[p].op = "uploadUserImage"
        PROVE  /\ { "imageUrl", "imagePublicId" } \subseteq request'[p].set
               /\ request'[p].user.imageUrl = p
               /\ request'[p].user.imagePublicId = p
    BY <1>5, <2>1 DEF IInv, ImageInv, Writing, At
  <2>2. ASSUME NEW p \in Requests, Pending(p)'
        PROVE  /\ p \notin mediaDelete'
               /\ p \notin ImagesOf(row')
               /\ \A r \in Requests :
                      (r # p /\ Writing(r)') \/ At(r, "upload")'
                      => p \notin ImagesOf(request'[r].user)
    <3>1. p # q /\ Pending(p)
      BY <1>4, <1>5, <2>2 DEF Pending, InFlight
    <3>2. Unknown(q, request[q].user)
      BY <1>1, HeldIsUnknown DEF Writing
    <3>3. p \notin mediaDelete' /\ p \notin ImagesOf(row')
      BY <1>8, <3>1, <3>2 DEF IInv, ImageInv, Write, Unknown
    <3>4. ASSUME NEW r \in Requests, (r # p /\ Writing(r)') \/ At(r, "upload")'
          PROVE  p \notin ImagesOf(request'[r].user)
      <4>1. r # q
        BY <1>5, <3>4 DEF At, Writing
      <4>2. QED
        BY <1>5, <3>1, <3>4, <4>1 DEF At, Writing, IInv, ImageInv
    <3>5. QED
      BY <3>3, <3>4
  <2>3. QED
    BY <2>1, <2>2 DEF ImageInv, ImagesOf
<1>10. QED
  BY <1>6, <1>7, <1>9 DEF IInv

\* A failing statement leaves nothing to be written.
LEMMA StatementFailsStep ==
    ASSUME IInv, NEW q \in Requests, StatementFails(q)
    PROVE  IInv'
<1>1. Pending(q) /\ request[q] # None
  BY DEF StatementFails, Pending, InFlight, Running
<1>2. request[q].op \in Ops
  BY <1>1, HandlerFields DEF IInv
<1>3. Holds(q, request[q].op, "failed", None, {})
  BY DEF StatementFails, Answer
<1>4. "failed" \in Running \cup Finished /\ "failed" \notin Running
  BY DEF Running, Finished
<1>5. TypeOK'
  <2>1. /\ request'[q] = [op |-> request[q].op, step |-> "failed", user |-> None, set |-> {}]
        /\ \A p \in Requests \ {q} : request'[p] = request[p]
        /\ request' \in [Requests -> Handler \cup {None}]
    BY <1>2, <1>3, <1>4, HoldsOne DEF IInv
  <2>2. faults' \in 0..MaxFaults
    BY MaxFaultsAssumption DEF StatementFails, IInv, TypeOK
  <2>3. QED
    BY <2>1, <2>2 DEF IInv, TypeOK, StatementFails
<1>6. HandlerInv'
  <2>1. /\ "failed" \notin { "upload", "reload", "write" }
        /\ {} \in SUBSET Columns /\ {} \subseteq ColumnsOf(request[q].op)
        /\ None \in User \cup {None}
    OBVIOUS
  <2>2. QED
    BY <1>2, <1>3, <1>4, <2>1, Moves
<1>7. ImageInv'
  <2>1. ImagesOf(row') = ImagesOf(row) /\ mediaDelete' = mediaDelete
    BY DEF StatementFails
  <2>2. PICK step \in Running \cup Finished, user \in User \cup {None},
             set \in SUBSET Columns :
                 step = "failed" /\ user = None /\ set = {}
    BY <1>4
  <2>3. Holds(q, request[q].op, step, user, set)
    BY <1>3, <2>2
  <2>4. step \notin { "upload", "reload", "write" }
    BY <2>2
  <2>5. QED
    BY <1>1, <1>2, <2>1, <2>3, <2>4, ImageMoves
<1>8. QED
  BY <1>5, <1>6, <1>7 DEF IInv

\* A crash leaves no handler with anything to write.
LEMMA CrashStep == ASSUME IInv, Crash PROVE IInv'
<1> DEFINE Ended(q) == [op |-> request[q].op, step |-> "failed", user |-> None, set |-> {}]
<1>1. ASSUME NEW q \in Requests
      PROVE  /\ InFlight(q) => request'[q] = Ended(q) /\ Ended(q) \in Handler
             /\ ~InFlight(q) => request'[q] = request[q]
  <2>1. request'[q] = IF InFlight(q) THEN Ended(q) ELSE request[q]
    BY DEF Crash
  <2>2. InFlight(q) => Ended(q) \in Handler
    BY HandlerFields DEF InFlight, IInv, Handler, Finished
  <2>3. QED
    BY <2>1, <2>2
<1>2. TypeOK'
  <2>1. request' \in [Requests -> Handler \cup {None}]
    BY <1>1 DEF Crash, IInv, TypeOK
  <2>2. faults' \in 0..MaxFaults
    BY MaxFaultsAssumption DEF Crash, IInv, TypeOK
  <2>3. QED
    BY <2>1, <2>2 DEF IInv, TypeOK, Crash
<1>3. ASSUME NEW q \in Requests
      PROVE  /\ ~InFlight(q)'
             /\ Pending(q)' => Pending(q)
             /\ request'[q] = request[q] \/ request'[q] = Ended(q)
  BY <1>1, NoneAssumption DEF InFlight, Pending, Running
<1>4. HandlerInv'
  <2>1. ASSUME NEW q \in Requests, request'[q] # None
        PROVE  /\ request'[q].step \in { "upload", "reload", "write" }
                  => request'[q].user # None
               /\ request'[q].step \in Finished \cup { "handle" }
                  => request'[q].set = {}
               /\ request'[q].step = "upload" =>
                     request'[q].op = "uploadUserImage" /\ request'[q].set = Columns
               /\ request'[q].set \subseteq ColumnsOf(request'[q].op)
    <3>1. CASE request'[q] = request[q]
      BY <2>1, <3>1 DEF IInv, HandlerInv
    <3>2. CASE request'[q] = Ended(q)
      BY <3>2
    <3>3. QED
      BY <1>3, <3>1, <3>2
  <2>2. QED
    BY <2>1 DEF HandlerInv
<1>5. ImageInv'
  <2>1. ASSUME NEW q \in Requests
        PROVE  ~At(q, "upload")' /\ ~Writing(q)'
    BY <1>3 DEF At, Writing, InFlight, Running
  <2>2. ASSUME NEW q \in Requests, Pending(q)'
        PROVE  q \notin mediaDelete' /\ q \notin ImagesOf(row')
    BY <1>3, <2>2 DEF IInv, ImageInv, Crash
  <2>3. QED
    BY <2>1, <2>2 DEF ImageInv, ImagesOf
<1>6. QED
  BY <1>2, <1>4, <1>5 DEF IInv

\* Every step of the service preserves the invariant.
LEMMA StepPreserves == IInv /\ [Next]_vars => IInv'
<1> SUFFICES ASSUME IInv, [Next]_vars PROVE IInv'
  OBVIOUS
<1>1. ASSUME NEW q \in Requests, Arrives(q) PROVE IInv'
  BY <1>1, ArrivesStep
<1>2. ASSUME NEW q \in Requests, HandlerStep(q) PROVE IInv'
  <2>1. CASE Logout(q)
    BY <2>1, LogoutStep
  <2>2. ASSUME \/ \E current, new \in Passwords : ChangePassword(q, current, new)
               \/ \E name \in Names : UpdateUserProfile(q, name)
               \/ UploadUserImage(q)
        PROVE  IInv'
    <3>1. At(q, "handle")
      BY <2>2 DEF ChangePassword, UpdateUserProfile, UploadUserImage, Handling
    <3>2. QED
      BY <2>2, <3>1, HandleStep
  <2>3. CASE Reload(q)
    BY <2>3, ReloadStep
  <2>4. CASE Write(q)
    BY <2>4, WriteStep
  <2>5. QED
    BY <1>2, <2>1, <2>2, <2>3, <2>4 DEF HandlerStep
<1>3. ASSUME NEW q \in Requests, MediaReplies(q) PROVE IInv'
  <2>1. CASE UploadSucceeds(q)
    BY <2>1, UploadSucceedsStep
  <2>2. CASE UploadFails(q)
    <3>1. Pending(q)
      BY <2>2 DEF UploadFails, At, Pending, InFlight, Running
    <3>2. QED
      BY <2>2, <3>1, AnswerStep DEF UploadFails, Ops, Finished
  <2>3. QED
    BY <1>3, <2>1, <2>2 DEF MediaReplies
<1>4. ASSUME NEW q \in Requests, StatementFails(q) PROVE IInv'
  BY <1>4, StatementFailsStep
<1>5. CASE Crash
  BY <1>5, CrashStep
<1>6. CASE UNCHANGED vars
  BY <1>6 DEF vars, IInv, TypeOK, HandlerInv, ImageInv, Pending, InFlight, Writing, At
<1>7. QED
  BY <1>1, <1>2, <1>3, <1>4, <1>5, <1>6 DEF Next

\* Types, what handlers may still write, and who knows which image.
THEOREM Invariant == Spec => []IInv
<1>1. IInv /\ [Next]_vars => IInv'
  BY StepPreserves
<1>2. QED
  BY InitHolds, <1>1, PTL DEF Spec

-------------------------------------------------------------------------------
(***************************************************************************)
(* What a step does to what handlers may still write                       *)
(***************************************************************************)
Acts(q) == Arrives(q) \/ HandlerStep(q) \/ MediaReplies(q) \/ StatementFails(q)

May(q, c) == request[q] # None /\ c \in request[q].set

\* A step of one handler leaves the others alone.
LEMMA OthersStay ==
    ASSUME TypeOK, NEW q \in Requests, Acts(q)
    PROVE  \A p \in Requests \ {q} : request'[p] = request[p]
<1> USE DEF TypeOK, Answer, Alters, Holds
<1>1. CASE Arrives(q)
  BY <1>1 DEF Arrives, LoginUser, ResetPassword, RefreshToken, Validate,
              IssueTokens, SetPassword
<1>2. CASE HandlerStep(q)
  BY <1>2 DEF HandlerStep, Logout, ChangePassword, UpdateUserProfile,
              UploadUserImage, Reload, Write, SetPassword
<1>3. CASE MediaReplies(q)
  BY <1>3 DEF MediaReplies, UploadSucceeds, UploadFails
<1>4. CASE StatementFails(q)
  BY <1>4 DEF StatementFails
<1>5. QED
  BY <1>1, <1>2, <1>3, <1>4 DEF Acts

\* The version a handler may write is one it held already or the row's own.
LEMMA VersionHeld ==
    ASSUME IInv, NEW q \in Requests, Acts(q), May(q, "tokenVersion")'
    PROVE  \/ /\ May(q, "tokenVersion")
              /\ request'[q].user.tokenVersion = request[q].user.tokenVersion
           \/ request'[q].user.tokenVersion = row.tokenVersion
<1> USE DEF IInv, May
<1>1. row \in User
  BY DEF TypeOK
<1>2. ASSUME NEW op, NEW step, Answer(q, op, step) PROVE FALSE
  BY <1>2 DEF Answer, Holds, TypeOK
<1>3. ASSUME NEW op, NEW user, NEW set, Alters(q, op, user, set),
             "tokenVersion" \notin set
      PROVE  FALSE
  BY <1>3 DEF Alters, Holds, TypeOK
<1>4. CASE Arrives(q)
  BY <1>2, <1>3, <1>4 DEF Arrives, LoginUser, ResetPassword, RefreshToken,
                          Validate, IssueTokens, SetPassword
<1>5. CASE Logout(q)
  BY <1>3, <1>5 DEF Logout
<1>6. ASSUME NEW current \in Passwords, NEW new \in Passwords,
             ChangePassword(q, current, new)
      PROVE  FALSE
  BY <1>2, <1>3, <1>6 DEF ChangePassword, SetPassword
<1>7. ASSUME NEW name \in Names, UpdateUserProfile(q, name)
      PROVE  request'[q].user.tokenVersion = row.tokenVersion
  BY <1>1, <1>7 DEF Holds, TypeOK, UpdateUserProfile, User
<1>8. CASE UploadUserImage(q)
  BY <1>8 DEF Holds, TypeOK, UploadUserImage
<1>9. CASE Reload(q)
  <2>1. request'[q].user = request[q].user /\ request'[q].set = Differing(q)
    BY <1>2, <1>9 DEF Holds, TypeOK, Reload
  <2>2. request[q] # None
    BY <1>9 DEF Reload, At
  <2>3. QED
    BY <2>1, <2>2, DifferingIsHeld
<1>10. CASE Write(q)
  BY <1>2, <1>10 DEF Write
<1>11. CASE UploadSucceeds(q)
  <2>1. request[q] # None /\ request[q].set = Columns /\ request[q].user \in User
    BY <1>11, HandlerFields DEF UploadSucceeds, At, HandlerInv
  <2>2. request'[q].user = Assigned(q)
    BY <1>11 DEF Holds, TypeOK, UploadSucceeds
  <2>3. QED
    BY <2>1, <2>2 DEF Assigned, User, Columns
<1>12. CASE UploadFails(q)
  BY <1>2, <1>12 DEF UploadFails
<1>13. CASE StatementFails(q)
  BY <1>2, <1>13 DEF StatementFails
<1>14. QED
  BY <1>4, <1>5, <1>6, <1>7, <1>8, <1>9, <1>10, <1>11, <1>12, <1>13
     DEF Acts, HandlerStep, MediaReplies

\* A crash ends handlers and leaves the others as they are.
LEMMA CrashHeld ==
    ASSUME IInv, Crash, NEW c, NEW p \in Requests, May(p, c)'
    PROVE  May(p, c) /\ request'[p] = request[p]
<1> DEFINE Ended == [op |-> request[p].op, step |-> "failed", user |-> None, set |-> {}]
<1>1. request'[p] = IF InFlight(p) THEN Ended ELSE request[p]
  BY DEF Crash
<1>2. Ended.set = {}
  OBVIOUS
<1>3. QED
  BY <1>1, <1>2 DEF May

-------------------------------------------------------------------------------
(***************************************************************************)
(* Logout                                                                  *)
(***************************************************************************)

\* Nothing lowers the version on record but the UPDATE of a handler that saves
\* the whole user it has read.
LEMMA VersionIsLowered ==
    ASSUME IInv, [Next]_vars, NEW v \in tokens, v < row.tokenVersion,
           ~(v < row'.tokenVersion)
    PROVE  \E q \in Requests :
               WritesBack(q, "tokenVersion") /\ request[q].user.tokenVersion <= v
<1>1. v \in Nat /\ row \in User /\ row.tokenVersion \in Nat
  BY DEF IInv, TypeOK, User
<1>2. ASSUME NEW q \in Requests, Write(q)
      PROVE  WritesBack(q, "tokenVersion") /\ request[q].user.tokenVersion <= v
  <2>1. /\ At(q, "write") /\ request[q] # None /\ request[q].step = "write"
        /\ request'[q].step = "ok"
    BY <1>2 DEF Write, At, Answer, Holds, IInv, TypeOK
  <2>2. /\ request[q].user \in User /\ request[q].user.tokenVersion \in Nat
        /\ request[q].op \in Ops /\ request[q].set \subseteq ColumnsOf(request[q].op)
    BY <2>1, HandlerFields DEF IInv, HandlerInv, User
  <2>3. row'.tokenVersion = IF "tokenVersion" \in request[q].set
                            THEN request[q].user.tokenVersion
                            ELSE row.tokenVersion
    BY <1>2 DEF Write
  <2>4. "tokenVersion" \in request[q].set /\ request[q].user.tokenVersion <= v
    BY <1>1, <2>2, <2>3
  <2>5. SavesUser(q)
    BY <2>2, <2>4 DEF ColumnsOf, SavesUser
  <2>6. QED
    BY <2>1, <2>4, <2>5 DEF WritesBack
<1>3. ASSUME NEW q \in Requests, Logout(q) PROVE FALSE
  BY <1>1, <1>3 DEF Logout, User
<1>4. ASSUME row' = row PROVE FALSE
  BY <1>4
<1>5. \/ \E q \in Requests : Write(q) \/ Logout(q)
      \/ row' = row
  BY DEF Next, Arrives, LoginUser, ResetPassword, RefreshToken, Validate,
         HandlerStep, ChangePassword, UpdateUserProfile, UploadUserImage, Reload,
         MediaReplies, UploadSucceeds, UploadFails, StatementFails, Crash, vars
<1>6. QED
  BY <1>2, <1>3, <1>4, <1>5

\* A version is lowered by a save of an older read only, and a version below the
\* row's that no handler holds stays below the row's and held by none: for every
\* logout and every handler that starts after it.
THEOREM LogoutStays == Spec => LogoutIsFinal
<1>1. IInv /\ [Next]_vars => \A v \in tokens : VersionIsDead(v) => VersionIsDead(v)'
  <2> SUFFICES ASSUME IInv, [Next]_vars, NEW v \in tokens, VersionIsDead(v)
               PROVE  VersionIsDead(v)'
    OBVIOUS
  <2>1. /\ v \in Nat
        /\ row.tokenVersion \in Nat
        /\ v < row.tokenVersion
        /\ \A p \in Requests :
              May(p, "tokenVersion") => v < request[p].user.tokenVersion
    BY DEF IInv, TypeOK, User, VersionIsDead, May
  <2>2. SUFFICES /\ v < row'.tokenVersion
                 /\ \A p \in Requests :
                       May(p, "tokenVersion")' => v < request'[p].user.tokenVersion
    BY DEF VersionIsDead, May
  <2>3. ASSUME NEW q \in Requests, Acts(q)
        PROVE  /\ v < row'.tokenVersion
               /\ \A p \in Requests :
                     May(p, "tokenVersion")' => v < request'[p].user.tokenVersion
    <3>1. v < row'.tokenVersion
      <4>1. CASE Write(q)
        <5>1. row'.tokenVersion = IF "tokenVersion" \in request[q].set
                                  THEN request[q].user.tokenVersion
                                  ELSE row.tokenVersion
          BY <4>1 DEF Write
        <5>2. request[q] # None
          BY <4>1 DEF Write, At
        <5>3. QED
          BY <2>1, <5>1, <5>2 DEF May
      <4>2. CASE Logout(q)
        BY <2>1, <4>2 DEF Logout, IInv, TypeOK, User
      <4>3. CASE ~Write(q) /\ ~Logout(q)
        <5>1. row' = row
          BY <2>3, <4>3
             DEF Acts, Arrives, LoginUser, ResetPassword, RefreshToken, Validate,
                 HandlerStep, ChangePassword, UpdateUserProfile, UploadUserImage,
                 Reload, MediaReplies, UploadSucceeds, UploadFails, StatementFails
        <5>2. QED
          BY <2>1, <5>1
      <4>4. QED
        BY <4>1, <4>2, <4>3
    <3>2. ASSUME NEW p \in Requests, May(p, "tokenVersion")'
          PROVE  v < request'[p].user.tokenVersion
      <4>1. CASE p = q
        BY <2>1, <2>3, <3>2, <4>1, VersionHeld
      <4>2. CASE p # q
        <5>1. request'[p] = request[p]
          BY <2>3, <4>2, OthersStay DEF IInv
        <5>2. QED
          BY <2>1, <3>2, <5>1 DEF May
      <4>3. QED
        BY <4>1, <4>2
    <3>3. QED
      BY <3>1, <3>2
  <2>4. CASE Crash
    <3>1. row' = row
      BY <2>4 DEF Crash
    <3>2. ASSUME NEW p \in Requests, May(p, "tokenVersion")'
          PROVE  v < request'[p].user.tokenVersion
      BY <2>1, <2>4, <3>2, CrashHeld
    <3>3. QED
      BY <2>1, <3>1, <3>2
  <2>5. CASE UNCHANGED vars
    BY <2>1, <2>5 DEF vars, May
  <2>6. QED
    BY <2>3, <2>4, <2>5 DEF Next, Acts
<1>2. IInv /\ [Next]_vars =>
        \A v \in tokens :
           /\ v < row.tokenVersion =>
                 \/ v < row'.tokenVersion
                 \/ \E q \in Requests :
                       WritesBack(q, "tokenVersion") /\ request[q].user.tokenVersion <= v
           /\ VersionIsDead(v) => VersionIsDead(v)'
  BY <1>1, VersionIsLowered
<1>3. QED
  BY <1>2, Invariant, PTL DEF Spec, LogoutIsFinal

-------------------------------------------------------------------------------
(***************************************************************************)
(* Sessions                                                                *)
(***************************************************************************)

\* When the session is over, no step but a login's holds a refresh token.
LEMMA NothingToStore ==
    ASSUME IInv, NEW q \in Requests, Acts(q), SessionIsOver, ~LoginStarts,
           May(q, "refreshToken")'
    PROVE  request'[q].user.refreshToken = None
<1> USE DEF IInv, May
<1>1. row \in User /\ row.refreshToken = None
  BY DEF TypeOK, SessionIsOver
<1>2. ASSUME NEW op, NEW step, Answer(q, op, step) PROVE FALSE
  BY <1>2 DEF Answer, Holds, TypeOK
<1>3. ASSUME NEW op, NEW p \in Passwords, SetPassword(q, op, p)
      PROVE  request'[q].user.refreshToken = None
  BY <1>1, <1>3 DEF SetPassword, Alters, Holds, TypeOK, User
<1>4. ASSUME NEW p \in Passwords, LoginUser(q, p) PROVE FALSE
  <2>1. CASE IssueTokens(q, "login")
    <3>1. request[q] = None /\ request'[q].op = "login"
      BY <1>4, <2>1 DEF LoginUser, IssueTokens, Alters, Holds, TypeOK
    <3>2. request'[q] # None
      OBVIOUS
    <3>3. QED
      BY <3>1, <3>2 DEF LoginStarts
  <2>2. QED
    BY <1>2, <1>4, <2>1 DEF LoginUser
<1>5. CASE RefreshToken(q)
  BY <1>1, <1>2, <1>5 DEF RefreshToken
<1>6. ASSUME NEW p \in Passwords, ResetPassword(q, p)
      PROVE  request'[q].user.refreshToken = None
  BY <1>3, <1>6 DEF ResetPassword
<1>7. ASSUME NEW op \in Guarded, NEW v \in tokens, Validate(q, op, v) PROVE FALSE
  BY <1>2, <1>7 DEF Validate
<1>8. CASE Logout(q)
  BY <1>1, <1>8 DEF Logout, Alters, Holds, TypeOK, User
<1>9. ASSUME NEW current \in Passwords, NEW new \in Passwords,
             ChangePassword(q, current, new)
      PROVE  request'[q].user.refreshToken = None
  BY <1>2, <1>3, <1>9 DEF ChangePassword
<1>10. ASSUME NEW name \in Names, UpdateUserProfile(q, name)
       PROVE  request'[q].user.refreshToken = None
  BY <1>1, <1>10 DEF Holds, TypeOK, UpdateUserProfile, User
<1>11. CASE UploadUserImage(q)
  BY <1>1, <1>11 DEF Holds, TypeOK, UploadUserImage
<1>12. CASE Reload(q)
  <2>1. request'[q].user = request[q].user /\ request'[q].set = Differing(q)
    BY <1>2, <1>12 DEF Holds, TypeOK, Reload
  <2>2. request[q] # None
    BY <1>12 DEF Reload, At
  <2>3. QED
    BY <2>1, <2>2, DifferingIsHeld DEF SessionIsOver
<1>13. CASE Write(q)
  BY <1>2, <1>13 DEF Write
<1>14. CASE UploadSucceeds(q)
  <2>1. request[q] # None /\ request[q].set = Columns /\ request[q].user \in User
    BY <1>14, HandlerFields DEF UploadSucceeds, At, HandlerInv
  <2>2. request[q].user.refreshToken = None
    BY <2>1 DEF SessionIsOver, Columns
  <2>3. request'[q].user = Assigned(q)
    BY <1>14 DEF Holds, TypeOK, UploadSucceeds
  <2>4. QED
    BY <2>1, <2>2, <2>3 DEF Assigned, User
<1>15. CASE UploadFails(q) \/ StatementFails(q)
  BY <1>2, <1>15 DEF UploadFails, StatementFails
<1>16. QED
  BY <1>4, <1>5, <1>6, <1>7, <1>8, <1>9, <1>10, <1>11, <1>12, <1>13, <1>14, <1>15
     DEF Acts, Arrives, HandlerStep, MediaReplies

\* A session that is over stays over until a login starts: no refresh and no
\* save of a whole user opens it again.
THEOREM SessionStaysOver == Spec => OnlyLoginOpensSession
<1>1. IInv /\ [Next]_vars => (SessionIsOver /\ ~LoginStarts => SessionIsOver')
  <2> SUFFICES ASSUME IInv, [Next]_vars, SessionIsOver, ~LoginStarts
               PROVE  SessionIsOver'
    OBVIOUS
  <2>1. /\ row \in User /\ row.refreshToken = None
        /\ \A p \in Requests :
              May(p, "refreshToken") => request[p].user.refreshToken = None
    BY DEF IInv, TypeOK, SessionIsOver, May
  <2>2. SUFFICES /\ row'.refreshToken = None
                 /\ \A p \in Requests :
                       May(p, "refreshToken")' => request'[p].user.refreshToken = None
    BY DEF SessionIsOver, May
  <2>3. ASSUME NEW q \in Requests, Acts(q)
        PROVE  /\ row'.refreshToken = None
               /\ \A p \in Requests :
                     May(p, "refreshToken")' => request'[p].user.refreshToken = None
    <3>1. row'.refreshToken = None
      <4>1. CASE Write(q)
        <5>1. row'.refreshToken = IF "refreshToken" \in request[q].set
                                  THEN request[q].user.refreshToken
                                  ELSE row.refreshToken
          BY <4>1 DEF Write
        <5>2. request[q] # None
          BY <4>1 DEF Write, At
        <5>3. QED
          BY <2>1, <5>1, <5>2 DEF May
      <4>2. CASE Logout(q)
        BY <2>1, <4>2 DEF Logout, User
      <4>3. CASE ~Write(q) /\ ~Logout(q)
        <5>1. row' = row
          BY <2>3, <4>3
             DEF Acts, Arrives, LoginUser, ResetPassword, RefreshToken, Validate,
                 HandlerStep, ChangePassword, UpdateUserProfile, UploadUserImage,
                 Reload, MediaReplies, UploadSucceeds, UploadFails, StatementFails
        <5>2. QED
          BY <2>1, <5>1
      <4>4. QED
        BY <4>1, <4>2, <4>3
    <3>2. ASSUME NEW p \in Requests, May(p, "refreshToken")'
          PROVE  request'[p].user.refreshToken = None
      <4>1. CASE p = q
        BY <2>3, <3>2, <4>1, NothingToStore
      <4>2. CASE p # q
        <5>1. request'[p] = request[p]
          BY <2>3, <4>2, OthersStay DEF IInv
        <5>2. QED
          BY <2>1, <3>2, <5>1 DEF May
      <4>3. QED
        BY <4>1, <4>2
    <3>3. QED
      BY <3>1, <3>2
  <2>4. CASE Crash
    <3>1. row' = row
      BY <2>4 DEF Crash
    <3>2. ASSUME NEW p \in Requests, May(p, "refreshToken")'
          PROVE  request'[p].user.refreshToken = None
      BY <2>1, <2>4, <3>2, CrashHeld
    <3>3. QED
      BY <2>1, <3>1, <3>2
  <2>5. CASE UNCHANGED vars
    BY <2>1, <2>5 DEF vars, May
  <2>6. QED
    BY <2>3, <2>4, <2>5 DEF Next, Acts
<1>2. QED
  BY <1>1, Invariant, PTL DEF Spec, OnlyLoginOpensSession

-------------------------------------------------------------------------------
(***************************************************************************)
(* The avatar                                                              *)
(***************************************************************************)
Replaces(q) == Writing(q) /\ request[q].op = "uploadUserImage"

\* A handler about to store its image goes on to do so, unless a call fails:
\* the save finds a column to write, since the new url is on record nowhere.
LEMMA ReplacerStays ==
    ASSUME IInv, NEW q \in Requests, Acts(q), ~StatementFails(q),
           NEW p \in Requests, Replaces(p), ~(p = q /\ Write(q))
    PROVE  Replaces(p)'
<1>1. CASE p # q
  BY <1>1, OthersStay DEF IInv, Replaces, Writing, At
<1>2. CASE p = q
  <2>1. request[p] # None /\ request[p].step \in { "reload", "write" }
    BY DEF Replaces, Writing, At
  <2>2. Reload(p)
    BY <1>2, <2>1
       DEF Acts, Arrives, LoginUser, ResetPassword, RefreshToken, Validate,
           HandlerStep, Logout, ChangePassword, UpdateUserProfile, UploadUserImage,
           MediaReplies, UploadSucceeds, UploadFails, Handling, At
  <2>3. "imagePublicId" \in Differing(p)
    BY DEF Replaces, IInv, ImageInv, Differing, Selected
  <2>4. Holds(p, "uploadUserImage", "write", request[p].user, Differing(p))
    BY <2>2, <2>3 DEF Reload, Replaces
  <2>5. Differing(p) \in SUBSET Columns
    BY <2>1, HandlerFields, DifferingIsHeld DEF IInv
  <2>6. request'[p] # None
    BY <2>1, <2>4, <2>5, HandlerFields, HoldsOne DEF IInv, Running, Ops
  <2>7. request'[p].step = "write" /\ request'[p].op = "uploadUserImage"
    BY <2>4 DEF Holds, IInv, TypeOK
  <2>8. QED
    BY <2>6, <2>7 DEF Replaces, Writing, At
<1>3. QED
  BY <1>1, <1>2

\* What one UPDATE does to the images on record: an upload's puts its own there,
\* which nobody has given up, and of the others only a profile save touches one.
LEMMA WriteKeepsImages ==
    ASSUME IInv, NEW q \in Requests, Write(q)
    PROVE  \/ /\ request[q].op = "uploadUserImage"
              /\ q \notin mediaDelete
              /\ row'.imageUrl = q /\ row'.imagePublicId = q
           \/ /\ ~Replaces(q)
              /\ row'.imagePublicId = row.imagePublicId
              /\ \/ row'.imageUrl = row.imageUrl
                 \/ /\ WritesBack(q, "imageUrl")
                    /\ request[q].op = "updateUserProfile"
                    /\ request[q].user.imageUrl # row.imageUrl
<1>1. /\ At(q, "write") /\ Writing(q) /\ Pending(q)
      /\ request[q] # None /\ request'[q].step = "ok"
      /\ request[q].set \subseteq ColumnsOf(request[q].op)
  BY DEF Write, Writing, Pending, InFlight, Running, At, Answer, Holds, IInv, TypeOK,
         HandlerInv
<1>2. /\ row'.imageUrl = IF "imageUrl" \in request[q].set
                         THEN request[q].user.imageUrl ELSE row.imageUrl
      /\ row'.imagePublicId = IF "imagePublicId" \in request[q].set
                              THEN request[q].user.imagePublicId ELSE row.imagePublicId
  BY DEF Write
<1>3. CASE request[q].op = "uploadUserImage"
  BY <1>1, <1>2, <1>3 DEF IInv, ImageInv
<1>4. CASE request[q].op # "uploadUserImage"
  <2>1. "imagePublicId" \notin request[q].set
    BY <1>1, <1>4 DEF ColumnsOf, Selected
  <2>2. "imageUrl" \in request[q].set => request[q].op = "updateUserProfile"
    BY <1>1, <1>4 DEF ColumnsOf
  <2>3. QED
    BY <1>1, <1>2, <1>4, <2>1, <2>2 DEF Replaces, WritesBack, SavesUser
<1>5. QED
  BY <1>3, <1>4

\* Over any number of concurrent uploads and profile saves, the file the account
\* owns is removed only for the upload that takes its place, and the image it
\* shows is a removed one only after a profile save of an older read.
THEOREM AvatarStays == Spec => AvatarIsKept
<1> DEFINE Stale == \E q \in Requests :
                       /\ WritesBack(q, "imageUrl")
                       /\ request[q].op = "updateUserProfile"
                       /\ request[q].user.imageUrl # row.imageUrl
           Kept == /\ IsGone(row.imagePublicId)' =>
                         IsGone(row.imagePublicId) \/ faults' > faults
                   /\ IsGone(row.imageUrl)' =>
                         IsGone(row.imageUrl) \/ faults' > faults \/ Stale
<1>1. IInv /\ [Next]_vars => Kept
  <2> SUFFICES ASSUME IInv, [Next]_vars PROVE Kept
    OBVIOUS
  <2>1. ASSUME BeingReplaced' PROVE Kept
    BY <2>1 DEF IsGone
  <2>2. ASSUME faults' > faults PROVE Kept
    BY <2>2
  <2>3. ASSUME mediaDelete' = mediaDelete, BeingReplaced => BeingReplaced',
               row'.imagePublicId = row.imagePublicId,
               row'.imageUrl = row.imageUrl \/ Stale
        PROVE  Kept
    BY <2>3 DEF IsGone
  <2>4. (\E q \in Requests : Replaces(q)) <=> BeingReplaced
    BY DEF Replaces, BeingReplaced
  <2>5. (\E q \in Requests : Replaces(q)') <=> BeingReplaced'
    BY DEF Replaces, BeingReplaced
  <2> HIDE DEF Kept
  <2>6. ASSUME NEW q \in Requests, Acts(q) PROVE Kept
    <3>1. CASE StatementFails(q)
      BY <2>2, <3>1 DEF StatementFails, IInv, TypeOK
    <3>2. CASE UploadSucceeds(q)
      <4>1. request[q] # None /\ request[q].user \in User
        BY <3>2, HandlerFields DEF UploadSucceeds, At, IInv, HandlerInv
      <4>2. Assigned(q) \in User
        BY <4>1, Entities DEF Assigned, IInv
      <4>3. Holds(q, "uploadUserImage", "reload", Assigned(q), Columns)
        BY <3>2 DEF UploadSucceeds
      <4>4. request'[q] # None
        BY <4>2, <4>3, HoldsOne DEF IInv, Ops, Running
      <4>5. request'[q].step = "reload" /\ request'[q].op = "uploadUserImage"
        BY <4>3 DEF Holds, IInv, TypeOK
      <4>6. Replaces(q)'
        BY <4>4, <4>5 DEF Replaces, Writing, At
      <4>7. QED
        BY <2>1, <2>5, <4>6
    <3>3. CASE Write(q)
      <4>1. mediaDelete' = mediaDelete
        BY <3>3 DEF Write
      <4>2. CASE row'.imageUrl = q /\ row'.imagePublicId = q /\ q \notin mediaDelete
        BY <4>1, <4>2 DEF Kept, IsGone
      <4>3. CASE ~Replaces(q) /\ row'.imagePublicId = row.imagePublicId
                 /\ (row'.imageUrl = row.imageUrl \/ Stale)
        <5>1. ~StatementFails(q)
          BY <3>3, MaxFaultsAssumption DEF StatementFails, Write, IInv, TypeOK
        <5>2. \A p \in Requests : Replaces(p) => Replaces(p)'
          BY <2>6, <4>3, <5>1, ReplacerStays
        <5>3. QED
          BY <2>3, <2>4, <2>5, <4>1, <4>3, <5>2
      <4>4. QED
        BY <3>3, <4>2, <4>3, WriteKeepsImages
    <3>4. CASE ~StatementFails(q) /\ ~UploadSucceeds(q) /\ ~Write(q)
      <4>1. mediaDelete' = mediaDelete
        BY <2>6, <3>4
           DEF Acts, Arrives, LoginUser, ResetPassword, RefreshToken, Validate,
               HandlerStep, Logout, ChangePassword, UpdateUserProfile,
               UploadUserImage, Reload, MediaReplies, UploadFails, historyVars
      <4>2. row'.imagePublicId = row.imagePublicId /\ row'.imageUrl = row.imageUrl
        <5>1. CASE Logout(q)
          BY <5>1 DEF Logout, IInv, TypeOK, User
        <5>2. CASE ~Logout(q)
          BY <2>6, <3>4, <5>2
             DEF Acts, Arrives, LoginUser, ResetPassword, RefreshToken, Validate,
                 HandlerStep, ChangePassword, UpdateUserProfile, UploadUserImage,
                 Reload, MediaReplies, UploadFails
        <5>3. QED
          BY <5>1, <5>2
      <4>3. \A p \in Requests : Replaces(p) => Replaces(p)'
        BY <2>6, <3>4, ReplacerStays
      <4>4. QED
        BY <2>3, <2>4, <2>5, <4>1, <4>2, <4>3
    <3>5. QED
      BY <3>1, <3>2, <3>3, <3>4
  <2>7. CASE Crash
    BY <2>2, <2>7 DEF Crash, IInv, TypeOK
  <2>8. CASE UNCHANGED vars
    BY <2>8 DEF Kept, IsGone, BeingReplaced, Writing, At, vars
  <2>9. QED
    BY <2>6, <2>7, <2>8 DEF Next, Acts
<1>2. QED
  BY <1>1, Invariant, PTL DEF Spec, AvatarIsKept

===============================================================================
