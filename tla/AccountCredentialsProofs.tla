------------------------ MODULE AccountCredentialsProofs ------------------------
(***************************************************************************)
(* For any number of browsers, accounts and reset links: sessions let only *)
(* those in who know the present password, accounts keep to their limit of *)
(* characters, no reset link overwrites a newer credential, and no email   *)
(* or password is saved on the account page on an outdated password.       *)
(***************************************************************************)
EXTENDS AccountCredentials, TLAPS

USE CredentialAssumption, CredentialNulls

(***************************************************************************)
(* What the kind of a request says of its parts.                           *)
(***************************************************************************)

LEMMA RequestParts ==
  ASSUME TypeOK, NEW b \in Browsers, request[b] # Idle
  PROVE  /\ request[b] \in Request
         /\ request[b].kind \in {"login", "change"} =>
              request[b].user \in Users /\ request[b].pw \in Password
         /\ request[b].kind = "count" =>
              request[b].user \in Users /\ request[b].found \in Nat
         /\ request[b].kind = "forgot" =>
              request[b].user \in Users /\ request[b].ver \in Password
         /\ request[b].kind \in {"mail", "reset"} => request[b].link \in Links
         /\ request[b].kind = "store" =>
              /\ request[b].user \in Users /\ request[b].ver \in Password
              /\ request[b].link \in Links
  <1>1. request[b] \in Request
    BY DEF TypeOK
  <1>2. QED BY <1>1 DEF Request

LEMMA UserParts ==
  ASSUME TypeOK, NEW u \in Users
  PROVE  /\ user[u] \in User /\ user[u].pw \in Versions /\ user[u].ver \in Versions
         /\ user[u].pw \in Nat /\ user[u].ver \in Nat
         /\ user[u].characters \in Nat
         /\ user[u].status \in {"none", "active", "disabled"}
  <1>1. user[u] \in User
    BY DEF TypeOK
  <1>2. QED BY <1>1 DEF User, Versions

(***************************************************************************)
(* What a step does to the rows of users.  Credentials change in           *)
(* amendments, which wait for the row's lock; the version grows with each. *)
(***************************************************************************)

LEMMA Amended ==
  ASSUME TypeOK, NEW u \in Users, NEW row \in User, Amend(u, row)
  PROVE  /\ user' \in [Users -> User]
         /\ user' = [user EXCEPT ![u] = [row EXCEPT !.ver = user[u].ver + 1]]
         /\ user'[u].pw = row.pw /\ user'[u].ver = user[u].ver + 1
         /\ user'[u].status = row.status /\ user'[u].characters = row.characters
         /\ \A w \in Users : w # u => user'[w] = user[w]
         /\ holder[u] = NoBrowser
         /\ stale' = stale \cup Stale(u)
         /\ user[u].ver + 1 \in Password
  <1>1. user[u].ver \in Nat /\ user[u].ver < MaxVersion
    BY UserParts DEF Amend, Changeable
  <1>2. user[u].ver + 1 \in Versions /\ user[u].ver + 1 \in Password
    BY <1>1 DEF Versions, Password
  <1> DEFINE r == [row EXCEPT !.ver = user[u].ver + 1]
  <1>3. r \in User /\ r.pw = row.pw /\ r.ver = user[u].ver + 1
          /\ r.status = row.status /\ r.characters = row.characters
    BY <1>2 DEF User
  <1>4. user' = [user EXCEPT ![u] = r]
    BY DEF Amend, Touched
  <1> HIDE DEF r
  <1>5. user' \in [Users -> User] /\ user'[u] = r /\ \A w \in Users : w # u => user'[w] = user[w]
    BY <1>3, <1>4 DEF TypeOK
  <1>6. QED BY <1>2, <1>3, <1>4, <1>5 DEF Amend, Changeable, r

LEMMA PasswordSet ==
  ASSUME TypeOK, NEW u \in Users, NEW b \in Browsers, SetPassword(u, b)
  PROVE  /\ user' \in [Users -> User]
         /\ user'[u].pw = user[u].ver + 1 /\ user'[u].ver = user[u].ver + 1
         /\ user'[u].status = user[u].status /\ user'[u].characters = user[u].characters
         /\ \A w \in Users : w # u => user'[w] = user[w]
         /\ holder[u] = NoBrowser
         /\ stale' = stale \cup Stale(u)
         /\ user[u].ver + 1 \in Password
         /\ knows' = [knows EXCEPT ![b] = @ \cup {<<u, user[u].ver + 1>>}]
  <1> DEFINE row == [user[u] EXCEPT !.pw = user[u].ver + 1]
  <1>1. Amend(u, row) /\ knows' = [knows EXCEPT ![b] = @ \cup {<<u, user[u].ver + 1>>}]
    BY DEF SetPassword
  <1>2. user[u].ver < MaxVersion /\ user[u] \in User /\ user[u].ver \in Nat
    BY UserParts DEF SetPassword, Amend, Changeable
  <1>3. row \in User /\ row.pw = user[u].ver + 1 /\ row.status = user[u].status
          /\ row.characters = user[u].characters
    BY <1>2 DEF User, Versions
  <1> HIDE DEF row
  <1>4. QED BY <1>1, <1>3, Amended

(***************************************************************************)
(* Steps by kind: those that leave users alone, and the five others.       *)
(***************************************************************************)

\* Steps that change no row of users.
Quiet(b) ==
  \/ StartSession(b) \/ Load(b) \/ Logout(b) \/ Refused(b)
  \/ CountCharacters(b)
  \/ Mail(b) \/ MailFails(b) \/ ConsumeLink(b) \/ ResetRefused(b)
  \/ ExpireSession(b) \/ Abandon(b)
  \/ \E u \in Users : SignIn(b, u) \/ Forgot(b, u)
  \/ \E k \in Links : CreateLink(b, k) \/ OpenLink(b, k)

LEMMA StepKinds ==
  ASSUME Next
  PROVE  \/ \E b \in Browsers : Quiet(b)
         \/ \E k \in Links : ExpireLink(k)
         \/ \E b \in Browsers : InsertCharacter(b) \/ ChangeEmail(b) \/ ChangePassword(b) \/ StoreReset(b)
         \/ \E b \in Browsers, u \in Users : SignUp(b, u) \/ OperatorReset(u, b)
         \/ \E u \in Users : Disable(u) \/ Enable(u)
  BY DEF Next, Step, Quiet

LEMMA QuietUsers ==
  ASSUME NEW b \in Browsers, Quiet(b)
  PROVE  user' = user /\ knows' = knows
  BY DEF Quiet, StartSession, Load, Logout, Refused, CountCharacters, Mail, MailFails,
         ConsumeLink, ResetRefused, ExpireSession, Abandon, SignIn, Forgot, CreateLink, OpenLink

(***************************************************************************)
(* Types.                                                                  *)
(***************************************************************************)

LEMMA TypeStep ==
  ASSUME TypeOK, PasswordsKnown, LagIsMarked, Next
  PROVE  TypeOK'
  <1>1. ASSUME NEW b \in Browsers, Quiet(b)
        PROVE  TypeOK'
    <2>1. request[b] # Idle /\ request[b].kind \in {"login", "change"} =>
            request[b].user \in Users /\ request[b].pw \in Password
      BY RequestParts
    <2>2. user' = user /\ knows' = knows
      BY <1>1, QuietUsers
    <2>3. CASE StartSession(b) \/ Logout(b) \/ Refused(b) \/ ExpireSession(b) \/ ResetRefused(b)
      BY <2>1, <2>2, <2>3 DEF StartSession, Logout, Refused, ExpireSession, ResetRefused,
           Changing, Ends, TypeOK, Session
    <2>4. CASE Abandon(b)
      BY <2>2, <2>4 DEF Abandon, Ends, TypeOK
    <2>5. CASE Load(b)
      BY <2>2, <2>5 DEF Load, Live, Continues, TypeOK, Session, Request
    <2>6. CASE CountCharacters(b)
      <3>1. user[request[b].user].characters \in Nat
        BY <2>1, <2>6, UserParts DEF CountCharacters, Changing
      <3>2. [kind |-> "count", user |-> request[b].user,
             found |-> user[request[b].user].characters] \in Request
        BY <2>1, <2>6, <3>1 DEF CountCharacters, Changing, Request
      <3>3. QED BY <2>2, <2>6, <3>2 DEF CountCharacters, Continues, TypeOK
    <2>7. CASE Mail(b) \/ MailFails(b)
      <3>1. request[b].link \in Links
        BY <2>7, RequestParts DEF Mail, MailFails, Mailing
      <3>2. link[request[b].link] # NoLink =>
              [link[request[b].link] EXCEPT !.mailed = TRUE] \in Grant
        BY <3>1 DEF TypeOK, Grant
      <3>3. link' \in [Links -> Grant \cup {NoLink}]
        <4>1. CASE Mail(b)
          BY <3>1, <3>2, <4>1 DEF Mail, TypeOK
        <4>2. CASE MailFails(b)
          BY <3>1, <4>2 DEF MailFails, TypeOK
        <4>3. QED BY <2>7, <4>1, <4>2
      <3>4. request' \in [Browsers -> Request \cup {Idle}]
              /\ UNCHANGED <<user, holder, session, knows, stale, outrun>>
        BY <2>7 DEF Mail, MailFails, Ends, TypeOK
      <3>5. QED BY <3>3, <3>4 DEF TypeOK
    <2>8. CASE ConsumeLink(b)
      <3>1. request[b].link \in Links
        BY <2>8, RequestParts DEF ConsumeLink
      <3>2. link[request[b].link] # NoLink =>
              [kind |-> "store", user |-> link[request[b].link].user,
               ver |-> link[request[b].link].ver, link |-> request[b].link] \in Request
        BY <3>1 DEF TypeOK, Grant, Request
      <3>3. QED BY <2>2, <2>8, <3>1, <3>2 DEF ConsumeLink, Continues, Ends, TypeOK
    <2>9. CASE \E u \in Users : SignIn(b, u)
      <3>1. PICK u \in Users : SignIn(b, u)
        BY <2>9
      <3>2. user[u].pw \in Password
        <4>1. <<u, user[u].pw>> \in knows[b] /\ knows[b] \subseteq Users \X Password
          BY <3>1 DEF SignIn, TypeOK
        <4>2. QED BY <4>1
      <3>3. QED BY <2>2, <3>1, <3>2 DEF SignIn, Continues, TypeOK, Request
    <2>10. CASE \E u \in Users : Forgot(b, u)
      <3>1. PICK u \in Users : Forgot(b, u)
        BY <2>10
      <3>2. user[u].ver \in Password
        <4>1. user[u].status # "none" /\ user[u].ver \in Versions
          BY <3>1, UserParts DEF Forgot, Active
        <4>2. user[u].ver # 0
          BY <4>1 DEF LagIsMarked
        <4>3. QED BY <4>1, <4>2 DEF Versions, Password
      <3>3. QED BY <2>2, <3>1, <3>2 DEF Forgot, Continues, TypeOK, Request
    <2>11. CASE \E k \in Links : CreateLink(b, k)
      <3>1. PICK k \in Links : CreateLink(b, k)
        BY <2>11
      <3>2. request[b].user \in Users /\ request[b].ver \in Password
        BY <3>1, RequestParts DEF CreateLink
      <3>3. QED BY <2>2, <3>1, <3>2 DEF CreateLink, Continues, TypeOK, Request, Grant
    <2>12. CASE \E k \in Links : OpenLink(b, k)
      BY <2>2, <2>12 DEF OpenLink, Continues, TypeOK, Request
    <2>13. QED BY <1>1, <2>3, <2>4, <2>5, <2>6, <2>7, <2>8, <2>9, <2>10, <2>11, <2>12 DEF Quiet
  <1>2. ASSUME NEW k \in Links, ExpireLink(k)
        PROVE  TypeOK'
    BY <1>2 DEF ExpireLink, TypeOK
  <1>3. ASSUME NEW b \in Browsers, InsertCharacter(b)
        PROVE  TypeOK'
    <2> DEFINE u == request[b].user
    <2>1. u \in Users
      BY <1>3, RequestParts DEF InsertCharacter, Counted
    <2>2. user[u] \in User /\ [user[u] EXCEPT !.characters = user[u].characters + 1] \in User
      BY <2>1, UserParts DEF User
    <2>3. user' \in [Users -> User]
      BY <1>3, <2>1, <2>2 DEF InsertCharacter, TypeOK
    <2>4. QED BY <1>3, <2>1, <2>3 DEF InsertCharacter, Ends, TypeOK
  <1>4. \A u \in Users : Stale(u) \subseteq Links /\ Outrun(u) \subseteq Browsers
    BY DEF Stale, Outrun
  <1>5. ASSUME NEW b \in Browsers, ChangeEmail(b)
        PROVE  TypeOK'
    <2>1. request[b].user \in Users
      BY <1>5, RequestParts DEF ChangeEmail, Changing
    <2>2. user' \in [Users -> User] /\ stale' = stale \cup Stale(request[b].user)
      BY <1>5, <2>1, UserParts, Amended DEF ChangeEmail
    <2>3. QED BY <1>4, <1>5, <2>1, <2>2 DEF ChangeEmail, Ends, TypeOK
  <1>6. ASSUME NEW b \in Browsers, NEW u \in Users, SetPassword(u, b)
        PROVE  user' \in [Users -> User] /\ stale' \subseteq Links
                 /\ knows' \in [Browsers -> SUBSET (Users \X Password)]
    BY <1>4, <1>6, PasswordSet DEF TypeOK
  <1>7. ASSUME NEW b \in Browsers, ChangePassword(b) \/ StoreReset(b)
        PROVE  TypeOK'
    <2>1. request[b].user \in Users
      BY <1>7, RequestParts DEF ChangePassword, Changing, StoreReset, Storing
    <2>2. SetPassword(request[b].user, b)
      BY <1>7 DEF ChangePassword, StoreReset
    <2>3. QED BY <1>4, <1>6, <1>7, <2>1, <2>2 DEF ChangePassword, StoreReset, Ends, TypeOK
  <1>8. ASSUME NEW b \in Browsers, NEW u \in Users, OperatorReset(u, b)
        PROVE  TypeOK'
    BY <1>4, <1>6, <1>8 DEF OperatorReset, TypeOK
  <1>9. ASSUME NEW b \in Browsers, NEW u \in Users, SignUp(b, u)
        PROVE  TypeOK'
    <2>1. [status |-> "active", pw |-> 1, ver |-> 1, characters |-> 1] \in User
            /\ 1 \in Password
      BY DEF User, Versions, Password
    <2>2. [kind |-> "login", user |-> u, pw |-> 1] \in Request
      BY <2>1 DEF Request
    <2>3. QED BY <1>9, <2>1, <2>2 DEF SignUp, Continues, TypeOK
  <1>10. ASSUME NEW u \in Users, Disable(u) \/ Enable(u)
         PROVE  TypeOK'
    <2>1. [user[u] EXCEPT !.status = "disabled"] \in User
            /\ [user[u] EXCEPT !.status = "active"] \in User
      BY UserParts DEF User
    <2>2. user' \in [Users -> User] /\ stale' = stale \cup Stale(u)
      BY <1>10, <2>1, Amended DEF Disable, Enable
    <2>3. QED BY <1>4, <1>10, <2>2 DEF Disable, Enable, TypeOK
  <1>11. QED BY <1>1, <1>2, <1>3, <1>5, <1>7, <1>8, <1>9, <1>10, StepKinds

(***************************************************************************)
(* How rows grow, whatever the step: versions and passwords never go back, *)
(* and whatever a change makes stale is marked.                            *)
(***************************************************************************)

Grows ==
  \A u \in Users :
    /\ user[u].pw <= user'[u].pw /\ user[u].ver <= user'[u].ver
    /\ user'[u].pw <= user'[u].ver
    /\ user'[u].status = "none" <=> user'[u].ver = 0
    /\ user'[u].ver # user[u].ver /\ user[u].ver # 0 =>
         user'[u].ver = user[u].ver + 1 /\ Stale(u) \subseteq stale'
    /\ user'[u].ver = user[u].ver => user'[u].pw = user[u].pw

LEMMA GrowsStep ==
  ASSUME TypeOK, LagIsMarked, Next
  PROVE  Grows
  <1>1. \A u \in Users :
          /\ user[u].pw \in Nat /\ user[u].ver \in Nat /\ user[u].pw <= user[u].ver
          /\ user[u].status = "none" <=> user[u].ver = 0
    BY UserParts DEF LagIsMarked
  <1>2. CASE user' = user
    BY <1>1, <1>2 DEF Grows
  <1>3. ASSUME NEW b \in Browsers, InsertCharacter(b)
        PROVE  Grows
    <2> DEFINE u == request[b].user
    <2>1. u \in Users
      BY <1>3, RequestParts DEF InsertCharacter, Counted
    <2>2. \A w \in Users : user'[w].pw = user[w].pw /\ user'[w].ver = user[w].ver
                             /\ user'[w].status = user[w].status
      BY <1>3, <2>1 DEF InsertCharacter, TypeOK, User
    <2>3. QED BY <1>1, <2>2 DEF Grows
  <1>4. ASSUME NEW u \in Users, NEW row \in User, Amend(u, row),
               row.pw = user[u].pw, row.status # "none", user[u].status # "none"
        PROVE  Grows
    BY <1>1, <1>4, Amended DEF Grows
  <1>5. ASSUME NEW u \in Users, NEW b \in Browsers, SetPassword(u, b), user[u].status # "none"
        PROVE  Grows
    BY <1>1, <1>5, PasswordSet DEF Grows
  <1>6. ASSUME NEW b \in Browsers, ChangeEmail(b)
        PROVE  Grows
    <2> DEFINE u == request[b].user
    <2>1. u \in Users /\ request[b].pw \in Nat /\ request[b].pw # 0
      BY <1>6, RequestParts DEF ChangeEmail, Changing, Password
    <2>2. user[u].pw = request[b].pw
      BY <1>6 DEF ChangeEmail, Unchanged
    <2>3. user[u].status # "none"
      BY <1>1, <2>1, <2>2
    <2>4. QED BY <1>4, <1>6, <2>1, <2>3, UserParts DEF ChangeEmail
  <1>7. ASSUME NEW b \in Browsers, ChangePassword(b)
        PROVE  Grows
    <2> DEFINE u == request[b].user
    <2>1. u \in Users /\ request[b].pw \in Nat /\ request[b].pw # 0
      BY <1>7, RequestParts DEF ChangePassword, Changing, Password
    <2>2. user[u].pw = request[b].pw
      BY <1>7 DEF ChangePassword, Unchanged
    <2>3. user[u].status # "none"
      BY <1>1, <2>1, <2>2
    <2>4. QED BY <1>5, <1>7, <2>1, <2>3 DEF ChangePassword
  <1>8. ASSUME NEW b \in Browsers, StoreReset(b)
        PROVE  Grows
    <2>1. request[b].user \in Users
      BY <1>8, RequestParts DEF StoreReset, Storing
    <2>2. QED BY <1>5, <1>8, <2>1 DEF StoreReset, Granted, Active
  <1>9. ASSUME NEW b \in Browsers, NEW u \in Users, OperatorReset(u, b)
        PROVE  Grows
    BY <1>5, <1>9 DEF OperatorReset
  <1>10. ASSUME NEW b \in Browsers, NEW u \in Users, SignUp(b, u)
         PROVE  Grows
    <2>1. user'[u] = [status |-> "active", pw |-> 1, ver |-> 1, characters |-> 1]
            /\ \A w \in Users : w # u => user'[w] = user[w]
      BY <1>10 DEF SignUp, TypeOK
    <2>2. user[u].ver = 0 /\ user[u].pw = 0
      BY <1>1, <1>10 DEF SignUp
    <2>3. QED BY <1>1, <2>1, <2>2 DEF Grows
  <1>11. ASSUME NEW u \in Users, Disable(u) \/ Enable(u)
         PROVE  Grows
    <2>1. /\ [user[u] EXCEPT !.status = "disabled"] \in User
          /\ [user[u] EXCEPT !.status = "active"] \in User
          /\ [user[u] EXCEPT !.status = "disabled"].pw = user[u].pw
          /\ [user[u] EXCEPT !.status = "active"].pw = user[u].pw
          /\ [user[u] EXCEPT !.status = "disabled"].status = "disabled"
          /\ [user[u] EXCEPT !.status = "active"].status = "active"
      BY UserParts DEF User
    <2>2. user[u].status # "none"
      BY <1>11 DEF Disable, Enable, Active
    <2>3. QED BY <1>4, <1>11, <2>1, <2>2 DEF Disable, Enable
  <1>12. \A k \in Links : ExpireLink(k) => user' = user
    BY DEF ExpireLink
  <1>13. QED BY <1>2, <1>3, <1>6, <1>7, <1>8, <1>9, <1>10, <1>11, <1>12, QuietUsers, StepKinds

(***************************************************************************)
(* The row locks.                                                          *)
(***************************************************************************)

\* Only the actor of a step has its request changed.
LEMMA RequestOf ==
  ASSUME TypeOK, Next
  PROVE  request' = request \/ \E b \in Browsers :
           Step(b) /\ \A d \in Browsers : d # b => request'[d] = request[d]
  <1>1. ASSUME NEW b \in Browsers, Step(b)
        PROVE  \A d \in Browsers : d # b => request'[d] = request[d]
    <2>1. request' = request \/ \E r : request' = [request EXCEPT ![b] = r]
      <3>1. Quiet(b) => request' = request \/ \E r : request' = [request EXCEPT ![b] = r]
        BY DEF Quiet, StartSession, Load, Logout, Refused, CountCharacters, Mail, MailFails,
          ConsumeLink, ResetRefused, ExpireSession, Abandon, SignIn, Forgot, CreateLink,
          OpenLink, Ends, Continues
      <3>2. \A u \in Users : SignUp(b, u) \/ OperatorReset(u, b) =>
              request' = request \/ \E r : request' = [request EXCEPT ![b] = r]
        BY DEF SignUp, OperatorReset, Continues
      <3>3. InsertCharacter(b) \/ ChangeEmail(b) \/ ChangePassword(b) \/ StoreReset(b) =>
              \E r : request' = [request EXCEPT ![b] = r]
        BY DEF InsertCharacter, ChangeEmail, ChangePassword, StoreReset, Ends
      <3>4. QED BY <1>1, <3>1, <3>2, <3>3 DEF Step, Quiet
    <2>2. QED BY <2>1 DEF TypeOK
  <1>2. (\E u \in Users : Disable(u) \/ Enable(u)) \/ (\E k \in Links : ExpireLink(k)) => request' = request
    BY DEF Disable, Enable, ExpireLink
  <1>3. QED BY <1>1, <1>2 DEF Next

\* A step that keeps the locks keeps LocksHeld, if requests that count and rows
\* they have locked stay as they are.
LEMMA LocksKept ==
  ASSUME TypeOK, LocksHeld, holder' = holder,
         \A b \in Browsers : request'[b] = request[b] \/ (~Counted(b) /\ ~Counted(b)'),
         \A u \in Users : user'[u] = user[u]
           \/ holder[u] = NoBrowser
  PROVE  LocksHeld'
  <1>1. \A b \in Browsers : Counted(b)' <=> Counted(b)
    BY DEF Counted
  <1>2. \A b \in Browsers : Counted(b) => request'[b] = request[b]
    OBVIOUS
  <1>3. \A u \in Users : holder[u] # NoBrowser =>
          holder[u] \in Browsers /\ Counted(holder[u]) /\ user'[u] = user[u]
    BY DEF LocksHeld, TypeOK
  <1>4. \A u \in Users : holder[u] # NoBrowser =>
          /\ Counted(holder[u])' /\ request'[holder[u]].user = u
          /\ request'[holder[u]].found = user'[u].characters
          /\ user'[u].status # "none"
    BY <1>1, <1>2, <1>3 DEF LocksHeld
  <1>5. \A b \in Browsers : Counted(b)' => holder[request'[b].user] = b
    BY <1>1, <1>2 DEF LocksHeld
  <1>6. QED BY <1>4, <1>5 DEF LocksHeld, Counted

LEMMA LocksStep ==
  ASSUME TypeOK, LocksHeld, LagIsMarked, Next
  PROVE  LocksHeld'
  <1>1. ASSUME NEW b \in Browsers, Quiet(b), ~CountCharacters(b), ~Abandon(b)
        PROVE  LocksHeld'
    <2>1. holder' = holder /\ user' = user
      BY <1>1 DEF Quiet, StartSession, Load, Logout, Refused, Mail, MailFails,
        ConsumeLink, ResetRefused, ExpireSession, SignIn, Forgot, CreateLink, OpenLink
    <2> DEFINE Other == \/ request' = request
                        \/ /\ request[b] = Idle \/ request[b].kind # "count"
                           /\ \E r : /\ request' = [request EXCEPT ![b] = r]
                                     /\ r = Idle \/ r.kind # "count"
    <2>2. Other
      <3>1. StartSession(b) \/ Logout(b) \/ Refused(b) => Other
        BY DEF StartSession, Logout, Refused, Changing, Ends
      <3>2. Mail(b) \/ MailFails(b) \/ ResetRefused(b) \/ ExpireSession(b) => Other
        BY DEF Mail, MailFails, ResetRefused, ExpireSession, Mailing, Storing, Ends
      <3>3. ConsumeLink(b) => Other
        BY DEF ConsumeLink, Ends, Continues
      <3>4. Load(b) \/ (\E u \in Users : SignIn(b, u) \/ Forgot(b, u)) => Other
        <4>1. ASSUME NEW r, Continues(b, r), request[b] = Idle, r.kind # "count"
              PROVE  Other
          BY <4>1 DEF Continues
        <4>2. ASSUME Load(b)
              PROVE  Other
          BY <4>1, <4>2 DEF Load
        <4>3. ASSUME NEW u \in Users, SignIn(b, u)
              PROVE  Other
          BY <4>1, <4>3 DEF SignIn
        <4>4. ASSUME NEW u \in Users, Forgot(b, u)
              PROVE  Other
          BY <4>1, <4>4 DEF Forgot
        <4>5. QED BY <4>2, <4>3, <4>4
      <3>5. (\E k \in Links : CreateLink(b, k) \/ OpenLink(b, k)) => Other
        BY DEF CreateLink, OpenLink, Continues
      <3> HIDE DEF Other
      <3>6. QED BY <1>1, <3>1, <3>2, <3>3, <3>4, <3>5 DEF Quiet
    <2>3. \A d \in Browsers : request'[d] = request[d] \/ (~Counted(d) /\ ~Counted(d)')
      BY <2>2 DEF TypeOK, Counted
    <2>4. QED BY <2>1, <2>3, LocksKept
  <1>2. ASSUME NEW b \in Browsers, CountCharacters(b)
        PROVE  LocksHeld'
    <2> DEFINE u == request[b].user
               r == [kind |-> "count", user |-> u, found |-> user[u].characters]
    <2>1. u \in Users /\ request[b] # Idle /\ request[b].kind = "change"
      BY <1>2, RequestParts DEF CountCharacters, Changing
    <2>2. user' = user /\ holder[u] = NoBrowser /\ holder' = [holder EXCEPT ![u] = b]
            /\ request' = [request EXCEPT ![b] = r] /\ user[u].status = "active"
      BY <1>2 DEF CountCharacters, RowFree, Active, Continues
    <2>3. r.kind = "count" /\ r.user = u /\ r.found = user[u].characters /\ r # Idle
      <3>1. user[u].characters \in Nat
        BY <2>1, UserParts
      <3>2. r \in Request
        BY <2>1, <3>1 DEF Request
      <3>3. QED BY <3>2
    <2> HIDE DEF r, u
    <2>4. holder'[u] = b /\ \A w \in Users : w # u => holder'[w] = holder[w]
      BY <2>1, <2>2 DEF TypeOK
    <2>5. request'[b] = r /\ \A d \in Browsers : d # b => request'[d] = request[d]
      BY <2>2 DEF TypeOK
    <2>6. ~Counted(b)
      BY <2>1 DEF Counted
    <2>7. \A w \in Users : w # u /\ holder[w] # NoBrowser =>
            holder[w] \in Browsers /\ holder[w] # b
      BY <2>6 DEF LocksHeld, TypeOK
    <2>8. \A w \in Users : holder'[w] # NoBrowser =>
            /\ request'[holder'[w]] # Idle /\ request'[holder'[w]].kind = "count"
            /\ request'[holder'[w]].user = w
            /\ request'[holder'[w]].found = user'[w].characters
            /\ user'[w].status # "none"
      BY <2>2, <2>3, <2>4, <2>5, <2>7 DEF LocksHeld, Counted
    <2>9. \A d \in Browsers : request'[d] # Idle /\ request'[d].kind = "count" =>
            holder'[request'[d].user] = d
      <3>1. ASSUME NEW d \in Browsers, d # b, request'[d] # Idle, request'[d].kind = "count"
            PROVE  holder'[request'[d].user] = d
        <4>1. request'[d] = request[d] /\ request[d].user \in Users
          BY <2>5, <3>1, RequestParts
        <4>2. holder[request[d].user] = d
          BY <3>1, <4>1 DEF LocksHeld, Counted
        <4>3. request[d].user # u
          BY <2>2, <4>2
        <4>4. QED BY <2>4, <4>1, <4>2, <4>3
      <3>2. QED BY <2>3, <2>4, <2>5, <3>1
    <2>10. QED BY <2>8, <2>9 DEF LocksHeld, Counted
  <1>3. ASSUME NEW b \in Browsers, user' = user \/ InsertCharacter(b),
               request' = [request EXCEPT ![b] = Idle],
               holder' = [u \in Users |-> IF holder[u] = b THEN NoBrowser ELSE holder[u]],
               \A u \in Users : holder[u] # b => user'[u] = user[u]
        PROVE  LocksHeld'
    <2>1. request'[b] = Idle /\ \A d \in Browsers : d # b => request'[d] = request[d]
      BY <1>3 DEF TypeOK
    <2>2. \A u \in Users : holder'[u] # NoBrowser =>
            holder'[u] = holder[u] /\ holder[u] # b /\ holder[u] \in Browsers
      BY <1>3 DEF TypeOK
    <2>3. \A u \in Users : holder'[u] # NoBrowser =>
            /\ Counted(holder[u])'
            /\ request'[holder'[u]].user = u
            /\ request'[holder'[u]].found = user'[u].characters
            /\ user'[u].status # "none"
      BY <1>3, <2>1, <2>2 DEF LocksHeld, Counted
    <2>4. \A d \in Browsers : Counted(d)' => holder'[request'[d].user] = d
      <3> SUFFICES ASSUME NEW d \in Browsers, Counted(d)'
                   PROVE  holder'[request'[d].user] = d
        OBVIOUS
      <3>1. d # b /\ request'[d] = request[d] /\ Counted(d)
        BY <2>1 DEF Counted
      <3>2. request[d].user \in Users
        BY <3>1, RequestParts DEF Counted
      <3>3. QED BY <1>3, <3>1, <3>2 DEF LocksHeld
    <2>5. QED BY <2>2, <2>3, <2>4 DEF LocksHeld, Counted
  <1>4. ASSUME NEW b \in Browsers, Abandon(b)
        PROVE  LocksHeld'
    BY <1>3, <1>4 DEF Abandon, Ends
  <1>5. ASSUME NEW b \in Browsers, InsertCharacter(b)
        PROVE  LocksHeld'
    <2> DEFINE u == request[b].user
    <2>1. u \in Users /\ Counted(b) /\ holder[u] = b
      BY <1>5, RequestParts DEF InsertCharacter, Counted, LocksHeld
    <2>2. \A w \in Users : holder[w] = b => w = u
      BY DEF LocksHeld
    <2>3. holder' = [w \in Users |-> IF holder[w] = b THEN NoBrowser ELSE holder[w]]
      BY <1>5, <2>1, <2>2 DEF InsertCharacter, TypeOK
    <2>4. \A w \in Users : w # u => user'[w] = user[w]
      BY <1>5, <2>1 DEF InsertCharacter, TypeOK
    <2>5. QED BY <1>3, <1>5, <2>1, <2>2, <2>3, <2>4 DEF InsertCharacter, Ends
  <1>6. ASSUME NEW b \in Browsers, ChangeEmail(b) \/ ChangePassword(b) \/ StoreReset(b)
        PROVE  LocksHeld'
    <2>1. request[b].user \in Users /\ ~Counted(b)
      BY <1>6, RequestParts DEF ChangeEmail, ChangePassword, StoreReset, Changing, Storing, Counted
    <2>2. \A w \in Users : user'[w] = user[w] \/ holder[w] = NoBrowser
      BY <1>6, <2>1, Amended, PasswordSet, UserParts DEF ChangeEmail, ChangePassword, StoreReset
    <2>3. holder' = holder /\ request' = [request EXCEPT ![b] = Idle]
      BY <1>6 DEF ChangeEmail, ChangePassword, StoreReset, Ends
    <2>4. \A d \in Browsers : request'[d] = request[d] \/ (~Counted(d) /\ ~Counted(d)')
      BY <2>1, <2>3 DEF TypeOK, Counted
    <2>5. QED BY <2>2, <2>3, <2>4, LocksKept
  <1>7. ASSUME NEW b \in Browsers, NEW u \in Users, SignUp(b, u)
        PROVE  LocksHeld'
    <2>1. holder' = holder /\ holder[u] = NoBrowser /\ request[b] = Idle
            /\ request' = [request EXCEPT ![b] = [kind |-> "login", user |-> u, pw |-> 1]]
      BY <1>7 DEF SignUp, Continues, LocksHeld
    <2>2. \A w \in Users : w # u => user'[w] = user[w]
      BY <1>7 DEF SignUp, TypeOK
    <2>3. \A d \in Browsers : request'[d] = request[d] \/ (~Counted(d) /\ ~Counted(d)')
      BY <2>1 DEF TypeOK, Counted
    <2>4. QED BY <2>1, <2>2, <2>3, LocksKept
  <1>8. ASSUME NEW b \in Browsers, NEW u \in Users, OperatorReset(u, b)
        PROVE  LocksHeld'
    BY <1>8, PasswordSet, LocksKept DEF OperatorReset
  <1>9. ASSUME NEW u \in Users, Disable(u) \/ Enable(u)
        PROVE  LocksHeld'
    <2>1. [user[u] EXCEPT !.status = "disabled"] \in User
            /\ [user[u] EXCEPT !.status = "active"] \in User
      BY UserParts DEF User
    <2>2. \A w \in Users : user'[w] = user[w] \/ holder[w] = NoBrowser
      BY <1>9, <2>1, Amended DEF Disable, Enable
    <2>3. QED BY <1>9, <2>2, LocksKept DEF Disable, Enable
  <1>10. ASSUME NEW k \in Links, ExpireLink(k)
         PROVE  LocksHeld'
    BY <1>10, LocksKept DEF ExpireLink
  <1>11. QED BY <1>1, <1>2, <1>4, <1>5, <1>6, <1>7, <1>8, <1>9, <1>10, StepKinds

(***************************************************************************)
(* Who knows what.                                                         *)
(***************************************************************************)

LEMMA PasswordsStep ==
  ASSUME TypeOK, PasswordsKnown, Next
  PROVE  PasswordsKnown'
  <1> DEFINE Carries(b) == request[b] # Idle /\ request[b].kind \in {"login", "change"}
  <1>1. \A b \in Browsers : knows[b] \subseteq knows'[b]
    <2>1. \A b \in Browsers, u \in Users : SetPassword(u, b) =>
            \A d \in Browsers : knows[d] \subseteq knows'[d]
      BY DEF SetPassword, TypeOK
    <2>2. \A b \in Browsers : ChangePassword(b) \/ StoreReset(b) =>
            request[b].user \in Users /\ SetPassword(request[b].user, b)
      BY RequestParts DEF ChangePassword, StoreReset, Changing, Storing
    <2>3. \A b \in Browsers, u \in Users :
            SignUp(b, u) => \A d \in Browsers : knows[d] \subseteq knows'[d]
      BY DEF SignUp, TypeOK
    <2>4. \A b \in Browsers, u \in Users : OperatorReset(u, b) => SetPassword(u, b)
      BY DEF OperatorReset
    <2>5. \A b \in Browsers : InsertCharacter(b) \/ ChangeEmail(b) => knows' = knows
      BY DEF InsertCharacter, ChangeEmail
    <2>6. (\E u \in Users : Disable(u) \/ Enable(u)) \/ (\E k \in Links : ExpireLink(k)) => knows' = knows
      BY DEF Disable, Enable, ExpireLink
    <2>7. QED BY <2>1, <2>2, <2>3, <2>4, <2>5, <2>6, QuietUsers, StepKinds
  <1>2. ASSUME NEW b \in Browsers, session'[b] # NoSession
        PROVE  <<session'[b].user, session'[b].pw>> \in knows'[b]
    <2>1. \/ session'[b] = session[b]
          \/ StartSession(b)
          \/ session'[b] = NoSession
      <3>1. \A d \in Browsers : Quiet(d) /\ ~StartSession(d) =>
              session' = session \/ session' = [session EXCEPT ![d] = NoSession]
        BY DEF Quiet, Load, Logout, Refused, CountCharacters, Mail, MailFails,
          ConsumeLink, ResetRefused, ExpireSession, Abandon, SignIn, Forgot, CreateLink, OpenLink
      <3>2. \A d \in Browsers : StartSession(d) => d = b \/ session'[b] = session[b]
        BY DEF StartSession, TypeOK
      <3>3. \A d \in Browsers :
              InsertCharacter(d) \/ ChangeEmail(d) \/ ChangePassword(d) \/ StoreReset(d) =>
                session' = session \/ session' = [session EXCEPT ![d] = NoSession]
        BY DEF InsertCharacter, ChangeEmail, ChangePassword, StoreReset
      <3>4. \A d \in Browsers, u \in Users : SignUp(d, u) \/ OperatorReset(u, d) => session' = session
        BY DEF SignUp, OperatorReset
      <3>5. (\E u \in Users : Disable(u) \/ Enable(u)) \/ (\E k \in Links : ExpireLink(k))
              => session' = session
        BY DEF Disable, Enable, ExpireLink
      <3>6. \A d \in Browsers : session' = [session EXCEPT ![d] = NoSession] =>
              session'[b] = session[b] \/ session'[b] = NoSession
        BY DEF TypeOK
      <3>7. QED BY <3>1, <3>2, <3>3, <3>4, <3>5, <3>6, StepKinds
    <2>2. CASE session'[b] = session[b]
      BY <1>1, <1>2, <2>2 DEF PasswordsKnown
    <2>3. CASE StartSession(b)
      BY <1>1, <2>3 DEF StartSession, PasswordsKnown, TypeOK
    <2>4. QED BY <1>2, <2>1, <2>2, <2>3
  <1>3. ASSUME NEW b \in Browsers, request'[b] # Idle, request'[b].kind \in {"login", "change"}
        PROVE  <<request'[b].user, request'[b].pw>> \in knows'[b]
    <2>1. CASE request'[b] = request[b]
      BY <1>1, <1>3, <2>1 DEF PasswordsKnown
    <2>2. CASE request'[b] # request[b]
      <3>1. Step(b)
        BY <2>2, RequestOf
      <3>2. Load(b) \/ (\E u \in Users : SignUp(b, u) \/ SignIn(b, u))
        <4>1. \/ StartSession(b) \/ Logout(b) \/ ChangeEmail(b) \/ ChangePassword(b) \/ Refused(b)
              \/ InsertCharacter(b) \/ Mail(b) \/ MailFails(b) \/ StoreReset(b) \/ ResetRefused(b)
              \/ Abandon(b)
              => request'[b] = Idle
          BY DEF StartSession, Logout, ChangeEmail, ChangePassword, Refused, InsertCharacter,
            Mail, MailFails, StoreReset, ResetRefused, Abandon, Ends, TypeOK
        <4>2. \/ CountCharacters(b) \/ ConsumeLink(b)
              \/ (\E u \in Users : Forgot(b, u))
              \/ (\E k \in Links : CreateLink(b, k) \/ OpenLink(b, k))
              => request'[b] = Idle \/ request'[b].kind \in {"count", "store", "forgot", "mail", "reset"}
          BY DEF CountCharacters, ConsumeLink, Forgot, CreateLink, OpenLink, Ends, Continues, TypeOK
        <4>3. ExpireSession(b) \/ (\E u \in Users : OperatorReset(u, b)) => request'[b] = request[b]
          BY DEF ExpireSession, OperatorReset
        <4>4. QED BY <1>3, <2>2, <3>1, <4>1, <4>2, <4>3 DEF Step
      <3>3. CASE Load(b)
        <4>1. request'[b].user = session[b].user /\ request'[b].pw = session[b].pw
                /\ session[b] # NoSession
          BY <3>3 DEF Load, Live, Continues, TypeOK
        <4>2. QED BY <1>1, <4>1 DEF PasswordsKnown
      <3>4. ASSUME NEW u \in Users, SignUp(b, u)
            PROVE  <<request'[b].user, request'[b].pw>> \in knows'[b]
        BY <3>4 DEF SignUp, Continues, TypeOK
      <3>5. ASSUME NEW u \in Users, SignIn(b, u)
            PROVE  <<request'[b].user, request'[b].pw>> \in knows'[b]
        BY <1>1, <3>5 DEF SignIn, Continues, TypeOK
      <3>6. QED BY <3>2, <3>3, <3>4, <3>5
    <2>3. QED BY <2>1, <2>2
  <1>4. QED BY <1>2, <1>3 DEF PasswordsKnown

(***************************************************************************)
(* Where requests and links come from.                                     *)
(***************************************************************************)

\* A link is what it was, or has just been mailed, asked for or used up.
LEMMA LinkStep ==
  ASSUME TypeOK, Next, NEW k \in Links, link'[k] # NoLink
  PROVE  \/ /\ link[k] # NoLink
            /\ link'[k].user = link[k].user /\ link'[k].ver = link[k].ver
         \/ \E b \in Browsers : CreateLink(b, k)
  <1>1. CASE link' = link
    BY <1>1
  <1>2. ASSUME NEW b \in Browsers, Mail(b)
        PROVE  link[k] # NoLink /\ link'[k].user = link[k].user /\ link'[k].ver = link[k].ver
    BY <1>2 DEF Mail, TypeOK, Grant
  <1>3. ASSUME NEW b \in Browsers, MailFails(b) \/ ConsumeLink(b)
        PROVE  link'[k] = link[k]
    BY <1>3 DEF MailFails, ConsumeLink, TypeOK
  <1>4. ASSUME NEW j \in Links, ExpireLink(j)
        PROVE  link'[k] = link[k]
    BY <1>4 DEF ExpireLink, TypeOK
  <1>5. ASSUME NEW b \in Browsers, NEW j \in Links, CreateLink(b, j)
        PROVE  link'[k] = link[k] \/ CreateLink(b, k)
    BY <1>5 DEF CreateLink, TypeOK
  <1>6. ASSUME NEW b \in Browsers, Quiet(b), ~Mail(b), ~MailFails(b), ~ConsumeLink(b),
               \A j \in Links : ~CreateLink(b, j)
        PROVE  link' = link
    BY <1>6 DEF Quiet, StartSession, Load, Logout, Refused, CountCharacters, ResetRefused,
      ExpireSession, Abandon, SignIn, Forgot, OpenLink
  <1>7. \A b \in Browsers :
          InsertCharacter(b) \/ ChangeEmail(b) \/ ChangePassword(b) \/ StoreReset(b) => link' = link
    BY DEF InsertCharacter, ChangeEmail, ChangePassword, StoreReset
  <1>8. \A b \in Browsers, u \in Users : SignUp(b, u) \/ OperatorReset(u, b) => link' = link
    BY DEF SignUp, OperatorReset
  <1>9. \A u \in Users : Disable(u) \/ Enable(u) => link' = link
    BY DEF Disable, Enable
  <1>10. QED BY <1>1, <1>2, <1>3, <1>4, <1>5, <1>6, <1>7, <1>8, <1>9, StepKinds

\* A request is what it was, or its browser has just made it so.
LEMMA RequestStep ==
  ASSUME TypeOK, Next, NEW b \in Browsers, request'[b] # request[b]
  PROVE  \/ request'[b] = Idle
         \/ Load(b) \/ CountCharacters(b) \/ ConsumeLink(b)
         \/ \E u \in Users : SignUp(b, u) \/ SignIn(b, u) \/ Forgot(b, u)
         \/ \E k \in Links : CreateLink(b, k) \/ OpenLink(b, k)
  <1>1. Step(b)
    BY RequestOf
  <1>2. \/ StartSession(b) \/ Logout(b) \/ ChangeEmail(b) \/ ChangePassword(b) \/ Refused(b)
        \/ InsertCharacter(b) \/ Mail(b) \/ MailFails(b) \/ StoreReset(b) \/ ResetRefused(b)
        \/ Abandon(b)
        => request'[b] = Idle
    BY DEF StartSession, Logout, ChangeEmail, ChangePassword, Refused, InsertCharacter,
      Mail, MailFails, StoreReset, ResetRefused, Abandon, Ends, TypeOK
  <1>3. ExpireSession(b) \/ (\E u \in Users : OperatorReset(u, b)) => request' = request
    BY DEF ExpireSession, OperatorReset
  <1>4. QED BY <1>1, <1>2, <1>3 DEF Step

\* A request that carries a grant is what it was, or has just consumed the link.
LEMMA StoringStep ==
  ASSUME TypeOK, Next, NEW b \in Browsers, Storing(b)'
  PROVE  request'[b] = request[b] \/ ConsumeLink(b)
  <1>1. \/ Load(b) \/ CountCharacters(b)
        \/ (\E u \in Users : SignUp(b, u) \/ SignIn(b, u) \/ Forgot(b, u))
        \/ (\E k \in Links : CreateLink(b, k) \/ OpenLink(b, k))
        => request'[b].kind # "store"
    <2>1. Load(b) \/ CountCharacters(b) => request'[b].kind # "store"
      BY DEF Load, CountCharacters, Continues, TypeOK
    <2>2. \A u \in Users : SignUp(b, u) \/ SignIn(b, u) => request'[b].kind # "store"
      BY DEF SignUp, SignIn, Continues, TypeOK
    <2>3. \A u \in Users : Forgot(b, u) => request'[b].kind # "store"
      BY DEF Forgot, Continues, TypeOK
    <2>4. \A k \in Links : CreateLink(b, k) \/ OpenLink(b, k) => request'[b].kind # "store"
      BY DEF CreateLink, OpenLink, Continues, TypeOK
    <2>5. QED BY <2>1, <2>2, <2>3, <2>4
  <1>2. QED BY <1>1, RequestStep DEF Storing

\* What becomes stale belongs to an account that changed, or to a grant asked
\* for before the change.
LEMMA StaleStep ==
  ASSUME TypeOK, LagIsMarked, Next, NEW k \in Links, k \in stale', k \notin stale
  PROVE  \/ \E u \in Users : k \in Stale(u) /\ user'[u].ver = user[u].ver + 1
         \/ \E b \in Browsers : CreateLink(b, k) /\ user[request[b].user].ver # request[b].ver
  <1>1. ASSUME NEW b \in Browsers, ChangeEmail(b) \/ ChangePassword(b) \/ StoreReset(b)
        PROVE  \E u \in Users : k \in Stale(u) /\ user'[u].ver = user[u].ver + 1
    <2>1. request[b].user \in Users
      BY <1>1, RequestParts DEF ChangeEmail, ChangePassword, StoreReset, Changing, Storing
    <2>2. QED BY <1>1, <2>1, Amended, PasswordSet, UserParts DEF ChangeEmail, ChangePassword, StoreReset
  <1>2. ASSUME NEW b \in Browsers, NEW u \in Users, OperatorReset(u, b)
        PROVE  k \in Stale(u) /\ user'[u].ver = user[u].ver + 1
    BY <1>2, PasswordSet DEF OperatorReset
  <1>3. ASSUME NEW u \in Users, Disable(u) \/ Enable(u)
        PROVE  k \in Stale(u) /\ user'[u].ver = user[u].ver + 1
    <2>1. [user[u] EXCEPT !.status = "disabled"] \in User
            /\ [user[u] EXCEPT !.status = "active"] \in User
      BY UserParts DEF User
    <2>2. QED BY <1>3, <2>1, Amended DEF Disable, Enable
  <1>4. ASSUME NEW b \in Browsers, NEW j \in Links, CreateLink(b, j)
        PROVE  CreateLink(b, k) /\ user[request[b].user].ver # request[b].ver
    BY <1>4 DEF CreateLink
  <1>5. ASSUME NEW b \in Browsers, Quiet(b), \A j \in Links : ~CreateLink(b, j)
        PROVE  stale' = stale
    BY <1>5 DEF Quiet, StartSession, Load, Logout, Refused, CountCharacters, Mail, MailFails,
      ConsumeLink, ResetRefused, ExpireSession, Abandon, SignIn, Forgot, OpenLink
  <1>6. \A b \in Browsers : InsertCharacter(b) => stale' = stale
    BY DEF InsertCharacter
  <1>7. \A b \in Browsers, u \in Users : SignUp(b, u) => stale' = stale
    BY DEF SignUp
  <1>8. \A j \in Links : ExpireLink(j) => stale' = stale
    BY DEF ExpireLink
  <1>9. QED BY <1>1, <1>2, <1>3, <1>4, <1>5, <1>6, <1>7, <1>8, StepKinds

(***************************************************************************)
(* One grant, one request.                                                 *)
(***************************************************************************)

LEMMA OneUseStep ==
  ASSUME TypeOK, TypeOK', OneUse, Next
  PROVE  OneUse'
  <1>1. ASSUME NEW b \in Browsers, Storing(b)', Storing(b), request'[b] = request[b]
        PROVE  link'[request'[b].link] = NoLink
    <2>1. request[b].link \in Links /\ link[request[b].link] = NoLink
      BY <1>1, RequestParts DEF Storing, OneUse
    <2>2. \A d \in Browsers : ~CreateLink(d, request[b].link)
      BY <1>1 DEF CreateLink, Storing
    <2>3. QED BY <1>1, <2>1, <2>2, LinkStep
  <1>2. ASSUME NEW b \in Browsers, ConsumeLink(b), Storing(b)'
        PROVE  /\ request[b].link \in Links /\ link[request[b].link] # NoLink
               /\ request'[b].link = request[b].link
               /\ link'[request'[b].link] = NoLink
    <2>1. request[b].link \in Links
      BY <1>2, RequestParts DEF ConsumeLink
    <2>2. link'[request[b].link] = NoLink
      BY <1>2, <2>1 DEF ConsumeLink, TypeOK
    <2>3. link[request[b].link] # NoLink
            /\ request' = [request EXCEPT ![b] =
                 [kind |-> "store", user |-> link[request[b].link].user,
                  ver |-> link[request[b].link].ver, link |-> request[b].link]]
      BY <1>2 DEF ConsumeLink, Storing, Ends, Continues, TypeOK
    <2>4. QED BY <2>1, <2>2, <2>3 DEF TypeOK
  <1>3. \A b \in Browsers : Storing(b)' => (Storing(b) /\ request'[b] = request[b]) \/ ConsumeLink(b)
    BY StoringStep DEF Storing
  <1>4. \A b \in Browsers : Storing(b)' => link'[request'[b].link] = NoLink
    BY <1>1, <1>2, <1>3
  <1>5. ASSUME NEW b \in Browsers, NEW d \in Browsers, ConsumeLink(b), b # d
        PROVE  (request'[d] = request[d] /\ ~ConsumeLink(d)) \/ ~Storing(b)'
    <2>1. request'[d] = request[d]
      BY <1>5 DEF ConsumeLink, Ends, Continues, TypeOK
    <2>2. Storing(b)' /\ ConsumeLink(d) => request'[b] = request[b]
      BY <1>5 DEF ConsumeLink, Ends, Continues, TypeOK
    <2>3. ~Storing(b)
      BY <1>5 DEF ConsumeLink, Storing
    <2>4. QED BY <2>1, <2>2, <2>3 DEF Storing
  <1>6. ASSUME NEW b \in Browsers, NEW d \in Browsers, Storing(b)', Storing(d)',
               request'[b].link = request'[d].link, b # d
        PROVE  FALSE
    <2>1. CASE ConsumeLink(b)
      <3>1. ~ConsumeLink(d) /\ request'[d] = request[d]
        BY <1>5, <1>6, <2>1
      <3>2. Storing(d) /\ link[request[d].link] = NoLink
        BY <1>3, <1>6, <3>1 DEF OneUse
      <3>3. QED BY <1>2, <1>6, <2>1, <3>1, <3>2
    <2>2. CASE ConsumeLink(d)
      <3>1. ~ConsumeLink(b) /\ request'[b] = request[b]
        BY <1>5, <1>6, <2>2
      <3>2. Storing(b) /\ link[request[b].link] = NoLink
        BY <1>3, <1>6, <3>1 DEF OneUse
      <3>3. QED BY <1>2, <1>6, <2>2, <3>1, <3>2
    <2>3. CASE ~ConsumeLink(b) /\ ~ConsumeLink(d)
      BY <1>3, <1>6, <2>3 DEF OneUse
    <2>4. QED BY <2>1, <2>2, <2>3
  <1>7. ASSUME NEW b \in outrun'
        PROVE  request'[b] # Idle /\ request'[b].kind \in {"login", "change"}
    <2> DEFINE Carries(d) == request[d] # Idle /\ request[d].kind \in {"login", "change"}
    <2>1. b \in Browsers
      BY DEF TypeOK
    <2>2. \A d \in outrun : Carries(d)
      BY DEF OneUse
    <2>3. \A u \in Users : \A d \in Outrun(u) : Carries(d)
      BY DEF Outrun
    <2>4. ASSUME NEW d \in Browsers, Quiet(d)
          PROVE  b \in outrun /\ (request'[b] = request[b] \/ Carries(b)')
      <3> HIDE DEF Carries
      <3>1. outrun' = outrun \/ outrun' = outrun \ {d}
        BY <2>4 DEF Quiet, StartSession, Load, Logout, Refused, CountCharacters, Mail, MailFails,
          ConsumeLink, ResetRefused, ExpireSession, Abandon, SignIn, Forgot, CreateLink, OpenLink
      <3>2. b # d => request'[b] = request[b]
        <4>1. request' = request \/ \E r : request' = [request EXCEPT ![d] = r]
          BY <2>4 DEF Quiet, StartSession, Load, Logout, Refused, CountCharacters, Mail, MailFails,
            ConsumeLink, ResetRefused, ExpireSession, Abandon, SignIn, Forgot, CreateLink,
            OpenLink, Ends, Continues
        <4>2. QED BY <2>1, <4>1 DEF TypeOK
      <3>3. Carries(d) => outrun' = outrun \ {d} \/ request' = request
        BY <2>4 DEF Carries, Quiet, StartSession, Load, Logout, Refused, CountCharacters, Mail, MailFails,
          ConsumeLink, ResetRefused, ExpireSession, Abandon, SignIn, Forgot, CreateLink,
          OpenLink, Mailing, Storing
      <3>4. QED BY <2>2, <3>1, <3>2, <3>3
    <2>5. ASSUME NEW d \in Browsers,
                 InsertCharacter(d) \/ ChangeEmail(d) \/ ChangePassword(d) \/ StoreReset(d)
          PROVE  Carries(b) /\ request'[b] = request[b]
      <3>1. request[d].user \in Users
        BY <2>5, RequestParts DEF InsertCharacter, ChangeEmail, ChangePassword, StoreReset,
          Counted, Changing, Storing
      <3>2. request' = [request EXCEPT ![d] = Idle]
        BY <2>5 DEF InsertCharacter, ChangeEmail, ChangePassword, StoreReset, Ends
      <3>3. Carries(b) /\ b # d
        BY <2>2, <2>3, <2>5, <3>1 DEF InsertCharacter, ChangeEmail, ChangePassword, StoreReset,
          Counted, Storing
      <3>4. QED BY <2>1, <3>2, <3>3 DEF TypeOK
    <2>6. ASSUME NEW d \in Browsers, NEW u \in Users, OperatorReset(u, d)
          PROVE  Carries(b) /\ request'[b] = request[b]
      BY <2>2, <2>3, <2>6 DEF OperatorReset
    <2>7. ASSUME NEW d \in Browsers, NEW u \in Users, SignUp(d, u)
          PROVE  Carries(b) /\ request'[b] = request[b]
      <3>1. Carries(b) /\ b # d
        BY <2>2, <2>7 DEF SignUp
      <3>2. QED BY <2>1, <2>7, <3>1 DEF SignUp, Continues, TypeOK
    <2>8. (\E u \in Users : Disable(u) \/ Enable(u)) \/ (\E k \in Links : ExpireLink(k))
            => b \in outrun /\ request' = request
      BY DEF Disable, Enable, ExpireLink
    <2>9. QED BY <2>2, <2>4, <2>5, <2>6, <2>7, <2>8, StepKinds
  <1>8. QED BY <1>4, <1>6, <1>7 DEF OneUse

(***************************************************************************)
(* What lags behind is marked.                                             *)
(***************************************************************************)

\* A request outrun in this step is one whose account's password has changed.
LEMMA OutrunStep ==
  ASSUME TypeOK, LagIsMarked, Next, NEW b \in outrun', b \notin outrun
  PROVE  \E u \in Users : b \in Outrun(u) /\ user'[u].pw = user[u].ver + 1
  <1>1. ASSUME NEW d \in Browsers, ChangePassword(d) \/ StoreReset(d)
        PROVE  \E u \in Users : b \in Outrun(u) /\ user'[u].pw = user[u].ver + 1
    <2>1. request[d].user \in Users
      BY <1>1, RequestParts DEF ChangePassword, StoreReset, Changing, Storing
    <2>2. QED BY <1>1, <2>1, PasswordSet DEF ChangePassword, StoreReset
  <1>2. ASSUME NEW d \in Browsers, NEW u \in Users, OperatorReset(u, d)
        PROVE  b \in Outrun(u) /\ user'[u].pw = user[u].ver + 1
    BY <1>2, PasswordSet DEF OperatorReset
  <1>3. \A d \in Browsers : Quiet(d) => outrun' \subseteq outrun
    BY DEF Quiet, StartSession, Load, Logout, Refused, CountCharacters, Mail, MailFails,
      ConsumeLink, ResetRefused, ExpireSession, Abandon, SignIn, Forgot, CreateLink, OpenLink
  <1>4. \A d \in Browsers : InsertCharacter(d) \/ ChangeEmail(d) => outrun' \subseteq outrun
    BY DEF InsertCharacter, ChangeEmail
  <1>5. \A d \in Browsers, u \in Users : SignUp(d, u) => outrun' = outrun
    BY DEF SignUp
  <1>6. (\E u \in Users : Disable(u) \/ Enable(u)) \/ (\E k \in Links : ExpireLink(k)) => outrun' = outrun
    BY DEF Disable, Enable, ExpireLink
  <1>7. QED BY <1>1, <1>2, <1>3, <1>4, <1>5, <1>6, StepKinds

LEMMA LagStep ==
  ASSUME TypeOK, TypeOK', LagIsMarked, OneUse, Next
  PROVE  LagIsMarked'
  <1>0. Grows
    BY GrowsStep
  <1>1. \A u \in Users : user[u].pw \in Nat /\ user[u].ver \in Nat
                           /\ user'[u].pw \in Nat /\ user'[u].ver \in Nat
    BY DEF TypeOK, User, Versions
  <1>2. \A k \in Links : link[k] # NoLink =>
          link[k].user \in Users /\ link[k].ver \in Nat /\ link[k].ver # 0
    BY DEF TypeOK, Grant, Password
  <1>3. ASSUME NEW k \in Links, NEW u \in Users, NEW ver \in Nat \ {0},
               ver <= user[u].ver,
               k \in stale => ver < user[u].ver,
               \A w \in Users : k \in Stale(w) => w = u,
               \A b \in Browsers : ~CreateLink(b, k)
        PROVE  ver <= user'[u].ver /\ (k \in stale' => ver < user'[u].ver)
    BY <1>0, <1>1, <1>3, StaleStep DEF Grows
  <1>4. ASSUME NEW k \in Links, link'[k] # NoLink
        PROVE  link'[k].ver <= user'[link'[k].user].ver
                 /\ (k \in stale' => link'[k].ver < user'[link'[k].user].ver)
    <2>1. ASSUME NEW b \in Browsers, CreateLink(b, k)
          PROVE  link'[k].ver <= user'[link'[k].user].ver
                   /\ (k \in stale' => link'[k].ver < user'[link'[k].user].ver)
      <3>1. request[b].user \in Users /\ request[b].ver \in Nat
              /\ request[b].ver <= user[request[b].user].ver
        BY <2>1, RequestParts DEF CreateLink, LagIsMarked, Password
      <3>2. link'[k].user = request[b].user /\ link'[k].ver = request[b].ver /\ user' = user
              /\ (k \in stale' => user[request[b].user].ver # request[b].ver)
        BY <2>1 DEF CreateLink, TypeOK
      <3>3. QED BY <1>1, <3>1, <3>2
    <2>2. CASE \A b \in Browsers : ~CreateLink(b, k)
      <3>1. link[k] # NoLink /\ link'[k].user = link[k].user /\ link'[k].ver = link[k].ver
        BY <1>4, <2>2, LinkStep
      <3>2. \A w \in Users : k \in Stale(w) => w = link[k].user
        BY <3>1 DEF Stale, OneUse, Storing
      <3>3. link[k].ver <= user[link[k].user].ver
              /\ (k \in stale => link[k].ver < user[link[k].user].ver)
        BY <3>1 DEF LagIsMarked
      <3>4. QED BY <1>2, <1>3, <2>2, <3>1, <3>2, <3>3
    <2>3. QED BY <2>1, <2>2
  <1>5. ASSUME NEW b \in Browsers, Storing(b)'
        PROVE  request'[b].ver <= user'[request'[b].user].ver
                 /\ (request'[b].link \in stale' => request'[b].ver < user'[request'[b].user].ver)
    <2>1. CASE request'[b] = request[b]
      <3> DEFINE k == request[b].link
                 u == request[b].user
      <3>1. Storing(b)
        BY <1>5, <2>1 DEF Storing
      <3>2. k \in Links /\ u \in Users /\ request[b].ver \in Nat \ {0} /\ link[k] = NoLink
        BY <3>1, RequestParts DEF Storing, OneUse, Password
      <3>3. \A w \in Users : k \in Stale(w) => w = u
        BY <3>1, <3>2 DEF Stale, OneUse, Storing
      <3>4. \A d \in Browsers : ~CreateLink(d, k)
        BY <3>1 DEF CreateLink, Storing
      <3>5. request[b].ver <= user[u].ver /\ (k \in stale => request[b].ver < user[u].ver)
        BY <3>1 DEF LagIsMarked
      <3> HIDE DEF k, u
      <3>6. request[b].ver <= user'[u].ver /\ (k \in stale' => request[b].ver < user'[u].ver)
        BY <1>3, <3>2, <3>3, <3>4, <3>5
      <3>7. QED BY <2>1, <3>6 DEF k, u
    <2>2. CASE ConsumeLink(b)
      <3> DEFINE k == request[b].link
      <3>1. k \in Links
        BY <2>2, RequestParts DEF ConsumeLink
      <3>2. link[k] # NoLink /\ user' = user /\ stale' = stale
              /\ request' = [request EXCEPT ![b] = [kind |-> "store", user |-> link[k].user,
                                                    ver |-> link[k].ver, link |-> k]]
        BY <1>5, <2>2 DEF ConsumeLink, Storing, Ends, Continues, TypeOK
      <3>3. request'[b].link = k /\ request'[b].user = link[k].user /\ request'[b].ver = link[k].ver
        BY <3>2 DEF TypeOK
      <3>4. QED BY <3>1, <3>2, <3>3 DEF LagIsMarked
    <2>3. QED BY <1>5, <2>1, <2>2, StoringStep
  <1>6. ASSUME NEW b \in Browsers, request'[b] # Idle, request'[b].kind = "forgot"
        PROVE  request'[b].ver <= user'[request'[b].user].ver
    <2>1. CASE request'[b] = request[b]
      <3>1. request[b].user \in Users /\ request[b].ver \in Nat
        BY <1>6, <2>1, RequestParts DEF Password
      <3>2. request[b].ver <= user[request[b].user].ver
        BY <1>6, <2>1 DEF LagIsMarked
      <3>3. QED BY <1>0, <1>1, <2>1, <3>1, <3>2 DEF Grows
    <2>2. CASE request'[b] # request[b]
      <3>1. PICK u \in Users : Forgot(b, u)
        <4>1. \/ Load(b) \/ CountCharacters(b) \/ ConsumeLink(b)
              => request'[b] = Idle \/ request'[b].kind # "forgot"
          BY DEF Load, CountCharacters, ConsumeLink, Ends, Continues, TypeOK
        <4>2. \A u \in Users : SignUp(b, u) \/ SignIn(b, u) => request'[b].kind # "forgot"
          BY DEF SignUp, SignIn, Continues, TypeOK
        <4>3. \A k \in Links : CreateLink(b, k) \/ OpenLink(b, k) => request'[b].kind # "forgot"
          BY DEF CreateLink, OpenLink, Continues, TypeOK
        <4>4. QED BY <1>6, <2>2, <4>1, <4>2, <4>3, RequestStep
      <3>2. request'[b].user = u /\ request'[b].ver = user[u].ver /\ user' = user
        BY <3>1 DEF Forgot, Continues, TypeOK
      <3>3. QED BY <1>1, <3>2
    <2>3. QED BY <2>1, <2>2
  <1>7. ASSUME NEW b \in Browsers, Changing(b)'
        PROVE  request'[b].pw <= user'[request'[b].user].pw
                 /\ (b \in outrun' => request'[b].pw < user'[request'[b].user].pw)
    <2>1. CASE request'[b] = request[b]
      <3> DEFINE u == request[b].user
      <3>1. Changing(b) /\ u \in Users /\ request[b].pw \in Nat
        BY <1>7, <2>1, RequestParts DEF Changing, Password
      <3>2. request[b].pw <= user[u].pw /\ (b \in outrun => request[b].pw < user[u].pw)
        BY <3>1 DEF LagIsMarked
      <3>3. \A w \in Users : b \in Outrun(w) => w = u
        BY DEF Outrun
      <3>4. user[u].pw <= user'[u].pw /\ user[u].pw <= user[u].ver
        BY <1>0, <3>1 DEF Grows, LagIsMarked
      <3> HIDE DEF u
      <3>5. b \in outrun' => request[b].pw < user'[u].pw
        <4>1. CASE b \in outrun
          BY <1>1, <3>1, <3>2, <3>4, <4>1
        <4>2. CASE b \in outrun' /\ b \notin outrun
          <5>1. user'[u].pw = user[u].ver + 1
            BY <3>3, <4>2, OutrunStep
          <5>2. QED BY <1>1, <3>1, <3>2, <3>4, <5>1
        <4>3. QED BY <4>1, <4>2
      <3>6. request[b].pw <= user'[u].pw
        BY <1>1, <3>1, <3>2, <3>4
      <3>7. QED BY <2>1, <3>5, <3>6 DEF u
    <2>2. CASE request'[b] # request[b]
      <3>1. Load(b)
        <4>1. CountCharacters(b) \/ ConsumeLink(b)
              => request'[b] = Idle \/ request'[b].kind # "change"
          BY DEF CountCharacters, ConsumeLink, Ends, Continues, TypeOK
        <4>2. \A u \in Users : SignUp(b, u) \/ SignIn(b, u) => request'[b].kind # "change"
          BY DEF SignUp, SignIn, Continues, TypeOK
        <4>3. \A u \in Users : Forgot(b, u) => request'[b].kind # "change"
          BY DEF Forgot, Continues, TypeOK
        <4>4. \A k \in Links : CreateLink(b, k) \/ OpenLink(b, k) => request'[b].kind # "change"
          BY DEF CreateLink, OpenLink, Continues, TypeOK
        <4>5. QED BY <1>7, <2>2, <4>1, <4>2, <4>3, <4>4, RequestStep DEF Changing
      <3>2. session[b] # NoSession /\ session[b].user \in Users
              /\ session[b].pw = user[session[b].user].pw
        BY <3>1 DEF Load, Live, TypeOK, Session
      <3>3. request'[b].user = session[b].user /\ request'[b].pw = session[b].pw
              /\ user' = user /\ outrun' = outrun /\ request[b] = Idle
        BY <3>1 DEF Load, Continues, TypeOK
      <3>4. b \notin outrun
        BY <3>3 DEF OneUse
      <3>5. QED BY <1>1, <3>2, <3>3, <3>4
    <2>3. QED BY <2>1, <2>2
  <1>8. \A u \in Users : user'[u].pw <= user'[u].ver /\ (user'[u].status = "none" <=> user'[u].ver = 0)
    BY <1>0 DEF Grows
  <1>9. QED BY <1>4, <1>5, <1>6, <1>7, <1>8 DEF LagIsMarked, Storing, Changing

(***************************************************************************)
(* The invariant, and what follows from it.                                *)
(***************************************************************************)

LEMMA AccountInit == Init => AccountInv
  <1> SUFFICES ASSUME Init PROVE AccountInv
    OBVIOUS
  <1>1. TypeOK
    BY DEF Init, TypeOK, User, Versions
  <1>2. LocksHeld /\ PasswordsKnown /\ OneUse
    BY DEF Init, LocksHeld, PasswordsKnown, OneUse, Counted, Storing
  <1>3. LagIsMarked
    BY DEF Init, LagIsMarked, Storing, Changing
  <1>4. QED BY <1>1, <1>2, <1>3 DEF AccountInv

LEMMA AccountStep == AccountInv /\ [Next]_vars => AccountInv'
  <1> SUFFICES ASSUME AccountInv, [Next]_vars PROVE AccountInv'
    OBVIOUS
  <1>1. CASE Next
    <2>1. TypeOK'
      BY <1>1, TypeStep DEF AccountInv
    <2>2. QED BY <1>1, <2>1, LocksStep, PasswordsStep, LagStep, OneUseStep DEF AccountInv
  <1>2. CASE UNCHANGED vars
    BY <1>2 DEF vars, AccountInv, TypeOK, LocksHeld, PasswordsKnown, LagIsMarked, OneUse,
      Counted, Storing, Changing
  <1>3. QED BY <1>1, <1>2

\* Rows, locks, sessions, links and requests agree in every state: locks are held
\* by the requests that count under them, sessions carry passwords their owners
\* know, one request at most has a grant, and what lags behind its account is marked.
THEOREM AccountInvariant == Spec => []AccountInv
  BY AccountInit, AccountStep, PTL DEF Spec

\* Nobody is let in by a session older than the account's password, unless they
\* know the new one.
THEOREM OnlyKnowers == Spec => []OutsidersLockedOut
  <1>1. AccountInv => OutsidersLockedOut
    BY DEF AccountInv, PasswordsKnown, OutsidersLockedOut, Live
  <1>2. QED BY <1>1, AccountInvariant, PTL

\* However requests to create characters overlap, the limit holds.
THEOREM LimitKept == Spec => []CharacterLimit
  <1>1. Init => CharacterLimit
    BY DEF Init, CharacterLimit
  <1>2. AccountInv /\ CharacterLimit /\ [Next]_vars => CharacterLimit'
    <2> SUFFICES ASSUME AccountInv, CharacterLimit, [Next]_vars PROVE CharacterLimit'
      OBVIOUS
    <2>1. TypeOK /\ LocksHeld
      BY DEF AccountInv
    <2>2. CASE user' = user
      BY <2>2 DEF CharacterLimit
    <2>3. ASSUME NEW b \in Browsers, InsertCharacter(b)
          PROVE  CharacterLimit'
      <3> DEFINE u == request[b].user
      <3>1. u \in Users /\ request[b].found = user[u].characters
        BY <2>1, <2>3, RequestParts DEF InsertCharacter, Counted, LocksHeld
      <3>2. user[u].characters \in Nat
        BY <2>1, <3>1, UserParts
      <3>3. user'[u].characters <= Limit
        BY <2>1, <2>3, <3>1, <3>2 DEF InsertCharacter, TypeOK, User, CharacterLimit
      <3>4. \A w \in Users : w # u => user'[w] = user[w]
        BY <2>1, <2>3, <3>1 DEF InsertCharacter, TypeOK
      <3>5. QED BY <3>3, <3>4 DEF CharacterLimit
    <2>4. ASSUME NEW b \in Browsers, NEW u \in Users, SignUp(b, u)
          PROVE  CharacterLimit'
      BY <2>1, <2>4 DEF SignUp, TypeOK, CharacterLimit
    <2>5. ASSUME NEW b \in Browsers, ChangeEmail(b) \/ ChangePassword(b) \/ StoreReset(b)
          PROVE  CharacterLimit'
      <3>1. request[b].user \in Users
        BY <2>1, <2>5, RequestParts DEF ChangeEmail, ChangePassword, StoreReset, Changing, Storing
      <3>2. \A w \in Users : user'[w].characters = user[w].characters
        <4>1. CASE ChangeEmail(b)
          BY <2>1, <3>1, <4>1, Amended, UserParts DEF ChangeEmail
        <4>2. CASE ChangePassword(b) \/ StoreReset(b)
          BY <2>1, <3>1, <4>2, PasswordSet DEF ChangePassword, StoreReset
        <4>3. QED BY <2>5, <4>1, <4>2
      <3>3. QED BY <3>2 DEF CharacterLimit
    <2>6. ASSUME NEW b \in Browsers, NEW u \in Users, OperatorReset(u, b)
          PROVE  CharacterLimit'
      BY <2>1, <2>6, PasswordSet DEF OperatorReset, CharacterLimit
    <2>7. ASSUME NEW u \in Users, Disable(u) \/ Enable(u)
          PROVE  CharacterLimit'
      <3>1. /\ [user[u] EXCEPT !.status = "disabled"] \in User
            /\ [user[u] EXCEPT !.status = "active"] \in User
            /\ [user[u] EXCEPT !.status = "disabled"].characters = user[u].characters
            /\ [user[u] EXCEPT !.status = "active"].characters = user[u].characters
        BY <2>1, UserParts DEF User
      <3>2. \A w \in Users : user'[w].characters = user[w].characters
        <4>1. CASE Disable(u)
          BY <2>1, <3>1, <4>1, Amended DEF Disable
        <4>2. CASE Enable(u)
          BY <2>1, <3>1, <4>2, Amended DEF Enable
        <4>3. QED BY <2>7, <4>1, <4>2
      <3>3. QED BY <3>2 DEF CharacterLimit
    <2>8. ASSUME NEW k \in Links, ExpireLink(k)
          PROVE  user' = user
      BY <2>8 DEF ExpireLink
    <2>9. CASE UNCHANGED vars
      BY <2>2, <2>9 DEF vars
    <2>10. QED BY <2>2, <2>3, <2>4, <2>5, <2>6, <2>7, <2>8, <2>9, QuietUsers, StepKinds
  <1>3. QED BY <1>1, <1>2, AccountInvariant, PTL DEF Spec

\* A request that finishes with a change of the users' rows made the change.
LEMMA Finisher ==
  ASSUME TypeOK, Next, NEW b \in Browsers, request'[b] # request[b], user' # user, request'[b] = Idle
  PROVE  InsertCharacter(b) \/ ChangeEmail(b) \/ ChangePassword(b) \/ StoreReset(b)
  <1>1. Step(b)
    BY RequestOf
  <1>2. ~Quiet(b)
    BY QuietUsers
  <1>3. \A u \in Users : ~OperatorReset(u, b)
    BY DEF OperatorReset
  <1>4. \A u \in Users : SignUp(b, u) => request'[b] # Idle
    BY DEF SignUp, Continues, TypeOK
  <1>5. QED BY <1>1, <1>2, <1>3, <1>4 DEF Step, Quiet

\* No reset link overwrites a credential newer than itself.
THEOREM ResetsAreCurrent == Spec => ResetIsCurrent
  <1>1. AccountInv /\ [Next]_vars =>
          [\A b \in Browsers :
             (Storing(b) /\ user' # user /\ request'[b] = Idle) => request[b].link \notin stale]_vars
    <2> SUFFICES ASSUME AccountInv, Next, NEW b \in Browsers,
                        Storing(b), user' # user, request'[b] = Idle
                 PROVE  request[b].link \notin stale
      BY DEF vars
    <2>1. TypeOK /\ LagIsMarked
      BY DEF AccountInv
    <2>2. StoreReset(b)
      BY <2>1, Finisher DEF Storing, InsertCharacter, ChangeEmail, ChangePassword, Counted, Changing
    <2>3. request[b].user \in Users /\ user[request[b].user].ver \in Nat
      BY <2>1, RequestParts, UserParts DEF Storing
    <2>4. user[request[b].user].ver = request[b].ver
      BY <2>2 DEF StoreReset, Granted
    <2>5. QED BY <2>1, <2>3, <2>4 DEF LagIsMarked
  <1>2. QED BY <1>1, AccountInvariant, PTL DEF Spec, ResetIsCurrent

\* The account page saves a new email or password only while the password proved
\* with the request is still the account's.
THEOREM ChangesAreAuthorised == Spec => ChangeIsAuthorised
  <1>1. AccountInv /\ [Next]_vars =>
          [\A b \in Browsers : SavesCredentials(b) => b \notin outrun]_vars
    <2> SUFFICES ASSUME AccountInv, Next, NEW b \in Browsers, SavesCredentials(b)
                 PROVE  b \notin outrun
      BY DEF vars
    <2>1. TypeOK /\ LagIsMarked
      BY DEF AccountInv
    <2>2. Changing(b) /\ request'[b] = Idle /\ user' # user
      BY DEF SavesCredentials
    <2>3. ChangeEmail(b) \/ ChangePassword(b)
      BY <2>1, <2>2, Finisher DEF Changing, InsertCharacter, StoreReset, Counted, Storing
    <2>4. request[b].user \in Users /\ user[request[b].user].pw \in Nat
      BY <2>1, <2>2, RequestParts, UserParts DEF Changing
    <2>5. user[request[b].user].pw = request[b].pw
      BY <2>3 DEF ChangeEmail, ChangePassword, Unchanged
    <2>6. QED BY <2>1, <2>4, <2>5, <2>2 DEF LagIsMarked
  <1>2. QED BY <1>1, AccountInvariant, PTL DEF Spec, ChangeIsAuthorised

=============================================================================
