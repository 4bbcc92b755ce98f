--------------------------- MODULE AccountCredentials ---------------------------
(***************************************************************************)
(* The account website and the operator's tool at work on the same users.  *)
(* A web request is several database and Redis calls with password hashing *)
(* and mail between them, so what it read at first may be stale when it    *)
(* writes.  Browser sessions and reset links live in Redis, users and      *)
(* characters in PostgreSQL, where a trigger counts credential changes.    *)
(*                                                                         *)
(* A password hash is salted, hence new at every change: it is represented *)
(* by the auth_version that introduced it.  A browser stands for a person  *)
(* with one request under way at a time.                                   *)
(***************************************************************************)
EXTENDS Naturals

CONSTANTS
  Browsers, Users, Links,
  Limit,        \* maxCharacters
  MaxVersion,   \* bound: credential changes of one account
  Idle, NoSession, NoLink, NoBrowser

ASSUME CredentialAssumption ==
  /\ Limit \in Nat \ {0} /\ MaxVersion \in Nat \ {0}
  /\ NoBrowser \notin Browsers

VARIABLES
  user,     \* rows of users, with the number of the account's characters
  holder,   \* the request that holds the row lock of a user
  session,  \* the browser's cookie and the websession behind it
  link,     \* password-reset grants in Redis
  request,  \* the request each browser has under way
  knows,    \* history: the passwords a browser's owner has chosen or been told
  stale,    \* history: links whose account changed since it was looked up
  outrun    \* history: requests with a password their account has changed since

vars == <<user, holder, session, link, request, knows, stale, outrun>>

Versions == 0..MaxVersion
Password == 1..MaxVersion

User    == [status : {"none", "active", "disabled"}, pw : Versions, ver : Versions,
            characters : Nat]
Session == [user : Users, pw : Password]
Grant   == [user : Users, ver : Password, mailed : BOOLEAN]
Request == [kind : {"login", "change"}, user : Users, pw : Password]
             \cup [kind : {"count"}, user : Users, found : Nat]
             \cup [kind : {"forgot"}, user : Users, ver : Password]
             \cup [kind : {"mail", "reset"}, link : Links]
             \cup [kind : {"store"}, user : Users, ver : Password, link : Links]

ASSUME CredentialNulls == Idle \notin Request /\ NoSession \notin Session /\ NoLink \notin Grant

TypeOK ==
  /\ user \in [Users -> User]
  /\ holder \in [Users -> Browsers \cup {NoBrowser}]
  /\ session \in [Browsers -> Session \cup {NoSession}]
  /\ link \in [Links -> Grant \cup {NoLink}]
  /\ request \in [Browsers -> Request \cup {Idle}]
  /\ knows \in [Browsers -> SUBSET (Users \X Password)]
  /\ stale \subseteq Links
  /\ outrun \subseteq Browsers

Init ==
  /\ user = [u \in Users |-> [status |-> "none", pw |-> 0, ver |-> 0, characters |-> 0]]
  /\ holder = [u \in Users |-> NoBrowser]
  /\ session = [b \in Browsers |-> NoSession]
  /\ link = [k \in Links |-> NoLink]
  /\ request = [b \in Browsers |-> Idle]
  /\ knows = [b \in Browsers |-> {}]
  /\ stale = {} /\ outrun = {}

-----------------------------------------------------------------------------
(* What requests have in common.                                           *)

Active(u) == user[u].status = "active"

\* Fault: any session of an active account is good.
LiveUnchecked(b) == session[b] # NoSession /\ Active(session[b].user)

\* ServeHTTP: the session's account is active and its password unchanged.
Live(b) ==
  /\ session[b] # NoSession
  /\ Active(session[b].user)
  /\ session[b].pw = user[session[b].user].pw

Ends(b)       == request' = [request EXCEPT ![b] = Idle]
Continues(b, r) == request' = [request EXCEPT ![b] = r]

\* Fault: only a password change counts.
TouchedByPassword(u, row) ==
  [row EXCEPT !.ver = IF row.pw = user[u].pw THEN user[u].ver ELSE user[u].ver + 1]

\* The trigger users_credential_change.  An update of the row waits for its lock.
Touched(u, row) == [row EXCEPT !.ver = user[u].ver + 1]
Changeable(u)   == holder[u] = NoBrowser /\ user[u].ver < MaxVersion

\* Links of u, and requests that carry a grant for it, are stale from now on.
Stale(u) ==
  {k \in Links : link[k] # NoLink /\ link[k].user = u}
    \cup {k \in Links : \E b \in Browsers :
            request[b] # Idle /\ request[b].kind = "store"
              /\ request[b].user = u /\ request[b].link = k}

\* Requests that loaded u's password hash before it changed.
Outrun(u) ==
  {b \in Browsers : request[b] # Idle /\ request[b].kind \in {"login", "change"}
                      /\ request[b].user = u}

\* A credential of u changes: email, active flag.
Amend(u, row) ==
  /\ Changeable(u)
  /\ user' = [user EXCEPT ![u] = Touched(u, row)]
  /\ stale' = stale \cup Stale(u)

\* The password of u changes to one that b's owner knows.
SetPassword(u, b) ==
  LET fresh == user[u].ver + 1
  IN  /\ Amend(u, [user[u] EXCEPT !.pw = fresh])
      /\ knows' = [knows EXCEPT ![b] = @ \cup {<<u, fresh>>}]

-----------------------------------------------------------------------------
(* Signing up, in and out.                                                 *)

\* RegisterPlayer, then AuthenticateUser of the account just made.
SignUp(b, u) ==
  /\ request[b] = Idle /\ ~Live(b)
  /\ user[u].status = "none" /\ user[u].ver < MaxVersion
  /\ user' = [user EXCEPT ![u] = [status |-> "active", pw |-> 1, ver |-> 1, characters |-> 1]]
  /\ knows' = [knows EXCEPT ![b] = @ \cup {<<u, 1>>}]
  /\ Continues(b, [kind |-> "login", user |-> u, pw |-> 1])
  /\ UNCHANGED <<holder, session, link, stale, outrun>>

\* AuthenticateUser: the password given is the one of the row read.
SignIn(b, u) ==
  /\ request[b] = Idle /\ ~Live(b)
  /\ Active(u) /\ <<u, user[u].pw>> \in knows[b]
  /\ Continues(b, [kind |-> "login", user |-> u, pw |-> user[u].pw])
  /\ UNCHANGED <<user, holder, session, link, knows, stale, outrun>>

\* newSession, for the row authenticated: the previous session is deleted.
StartSession(b) ==
  /\ request[b] # Idle /\ request[b].kind = "login"
  /\ session' = [session EXCEPT ![b] = [user |-> request[b].user, pw |-> request[b].pw]]
  /\ Ends(b)
  /\ outrun' = outrun \ {b}
  /\ UNCHANGED <<user, holder, link, knows, stale>>

\* A request of a signed-in browser: readSession and loadUser.
Load(b) ==
  /\ request[b] = Idle /\ Live(b)
  /\ Continues(b, [kind |-> "change", user |-> session[b].user, pw |-> session[b].pw])
  /\ UNCHANGED <<user, holder, session, link, knows, stale, outrun>>

Changing(b) == request[b] # Idle /\ request[b].kind = "change"

Logout(b) ==
  /\ Changing(b)
  /\ session' = [session EXCEPT ![b] = NoSession]
  /\ Ends(b) /\ outrun' = outrun \ {b}
  /\ UNCHANGED <<user, holder, link, knows, stale>>

-----------------------------------------------------------------------------
(* Changing what the account page shows.                                   *)

\* Fault: the update names the account alone.
UnchangedAnyway(b) == TRUE

\* WHERE password_hash = the one loaded and proved with the current password.
Unchanged(b) == user[request[b].user].pw = request[b].pw

ChangeEmail(b) ==
  /\ Changing(b) /\ <<request[b].user, request[b].pw>> \in knows[b]
  /\ Unchanged(b)
  /\ Amend(request[b].user, user[request[b].user])
  /\ Ends(b) /\ outrun' = outrun \ {b}
  /\ UNCHANGED <<holder, session, link, knows>>

ChangePassword(b) ==
  LET u == request[b].user
  IN  /\ Changing(b) /\ <<u, request[b].pw>> \in knows[b]
      /\ Unchanged(b)
      /\ SetPassword(u, b)
      /\ session' = [session EXCEPT ![b] = NoSession]
      /\ Ends(b) /\ outrun' = (outrun \cup Outrun(u)) \ {b}
      /\ UNCHANGED <<holder, link>>

\* No row matches, a wrong password, a bad name: the page shows an error.
Refused(b) ==
  /\ Changing(b)
  /\ Ends(b) /\ outrun' = outrun \ {b}
  /\ UNCHANGED <<user, holder, session, link, knows, stale>>

\* Fault: the row is read without FOR UPDATE.
RowFreeAnyway(u) == TRUE

\* Can a transaction take the row lock?
RowFree(u) == holder[u] = NoBrowser

\* createCharacter: lock the active account and count its characters ...
CountCharacters(b) ==
  LET u == request[b].user
  IN  /\ Changing(b)
      /\ RowFree(u) /\ Active(u)
      /\ holder' = [holder EXCEPT ![u] = b]
      /\ Continues(b, [kind |-> "count", user |-> u, found |-> user[u].characters])
      /\ outrun' = outrun \ {b}
      /\ UNCHANGED <<user, session, link, knows, stale>>

Counted(b) == request[b] # Idle /\ request[b].kind = "count"

\* ... then insert one more, unless the limit is reached, and end the transaction.
InsertCharacter(b) ==
  LET u == request[b].user
  IN  /\ Counted(b)
      /\ user' = IF request[b].found < Limit
                   THEN [user EXCEPT ![u].characters = @ + 1] ELSE user
      /\ holder' = [holder EXCEPT ![u] = NoBrowser]
      /\ Ends(b)
      /\ UNCHANGED <<session, link, knows, stale, outrun>>

-----------------------------------------------------------------------------
(* Recovery by mail.                                                       *)

\* handleForgot: find the account ...
Forgot(b, u) ==
  /\ request[b] = Idle /\ ~Live(b)
  /\ Active(u)
  /\ Continues(b, [kind |-> "forgot", user |-> u, ver |-> user[u].ver])
  /\ UNCHANGED <<user, holder, session, link, knows, stale, outrun>>

\* ... store a grant with the version read then ...
CreateLink(b, k) ==
  LET r == request[b]
  IN  /\ r # Idle /\ r.kind = "forgot"
      /\ link[k] = NoLink
      /\ \A x \in Browsers : request[x] # Idle /\ request[x].kind \in {"mail", "reset", "store"}
                               => request[x].link # k
      /\ link' = [link EXCEPT ![k] = [user |-> r.user, ver |-> r.ver, mailed |-> FALSE]]
      /\ stale' = IF user[r.user].ver = r.ver THEN stale \ {k} ELSE stale \cup {k}
      /\ Continues(b, [kind |-> "mail", link |-> k])
      /\ UNCHANGED <<user, holder, session, knows, outrun>>

Mailing(b) == request[b] # Idle /\ request[b].kind = "mail"

\* ... and mail it.  When the mail service reports an error the grant is
\* deleted; the mail may have left all the same.
Mail(b) ==
  LET k == request[b].link
  IN  /\ Mailing(b)
      /\ link' = [link EXCEPT ![k] = IF @ = NoLink THEN NoLink ELSE [@ EXCEPT !.mailed = TRUE]]
      /\ Ends(b)
      /\ UNCHANGED <<user, holder, session, knows, stale, outrun>>

MailFails(b) ==
  /\ Mailing(b)
  /\ link' = [link EXCEPT ![request[b].link] = NoLink]
  /\ Ends(b)
  /\ UNCHANGED <<user, holder, session, knows, stale, outrun>>

\* peekResetToken, when the form of the link is posted.
OpenLink(b, k) ==
  /\ request[b] = Idle /\ ~Live(b)
  /\ link[k] # NoLink /\ link[k].mailed
  /\ Active(link[k].user) /\ user[link[k].user].ver = link[k].ver
  /\ Continues(b, [kind |-> "reset", link |-> k])
  /\ UNCHANGED <<user, holder, session, link, knows, stale, outrun>>

\* consumeResetToken deletes the grant as it reads it; loadUser.
ConsumeLink(b) ==
  LET k == request[b].link
  IN  /\ request[b] # Idle /\ request[b].kind = "reset"
      /\ IF link[k] # NoLink /\ Active(link[k].user)
           THEN Continues(b, [kind |-> "store", user |-> link[k].user,
                              ver |-> link[k].ver, link |-> k])
           ELSE Ends(b)
      /\ link' = [link EXCEPT ![k] = NoLink]
      /\ UNCHANGED <<user, holder, session, knows, stale, outrun>>

Storing(b) == request[b] # Idle /\ request[b].kind = "store"

\* Fault: the update does not look at the version.
GrantedAnyway(b) == Active(request[b].user)

\* WHERE is_active AND auth_version = the grant's.
Granted(b) == Active(request[b].user) /\ user[request[b].user].ver = request[b].ver

StoreReset(b) ==
  LET u == request[b].user
  IN  /\ Storing(b) /\ Granted(b)
      /\ SetPassword(u, b)
      /\ session' = [session EXCEPT ![b] = NoSession]
      /\ Ends(b) /\ outrun' = outrun \cup Outrun(u)
      /\ UNCHANGED <<holder, link>>

ResetRefused(b) ==
  /\ Storing(b) /\ ~Granted(b)
  /\ Ends(b)
  /\ UNCHANGED <<user, holder, session, link, knows, stale, outrun>>

-----------------------------------------------------------------------------
(* The operator, time and failures.                                        *)

Disable(u) ==
  /\ Active(u)
  /\ Amend(u, [user[u] EXCEPT !.status = "disabled"])
  /\ UNCHANGED <<holder, session, link, request, knows, outrun>>

Enable(u) ==
  /\ user[u].status = "disabled"
  /\ Amend(u, [user[u] EXCEPT !.status = "active"])
  /\ UNCHANGED <<holder, session, link, request, knows, outrun>>

\* reset-password: the operator tells b's owner the new one.
OperatorReset(u, b) ==
  /\ user[u].status # "none"
  /\ SetPassword(u, b)
  /\ outrun' = outrun \cup Outrun(u)
  /\ UNCHANGED <<holder, session, link, request>>

ExpireLink(k) ==
  /\ link[k] # NoLink
  /\ link' = [link EXCEPT ![k] = NoLink]
  /\ UNCHANGED <<user, holder, session, request, knows, stale, outrun>>

ExpireSession(b) ==
  /\ session[b] # NoSession
  /\ session' = [session EXCEPT ![b] = NoSession]
  /\ UNCHANGED <<user, holder, link, request, knows, stale, outrun>>

\* The server restarts or the client gives up: a transaction rolls back.
Abandon(b) ==
  /\ request[b] # Idle
  /\ Ends(b) /\ outrun' = outrun \ {b}
  /\ holder' = [u \in Users |-> IF holder[u] = b THEN NoBrowser ELSE holder[u]]
  /\ UNCHANGED <<user, session, link, knows, stale>>

Step(b) ==
  \/ StartSession(b) \/ Load(b) \/ Logout(b)
  \/ ChangeEmail(b) \/ ChangePassword(b) \/ Refused(b)
  \/ CountCharacters(b) \/ InsertCharacter(b)
  \/ Mail(b) \/ MailFails(b) \/ ConsumeLink(b) \/ StoreReset(b) \/ ResetRefused(b)
  \/ ExpireSession(b) \/ Abandon(b)
  \/ \E u \in Users : SignUp(b, u) \/ SignIn(b, u) \/ Forgot(b, u) \/ OperatorReset(u, b)
  \/ \E k \in Links : CreateLink(b, k) \/ OpenLink(b, k)

Next ==
  \/ \E b \in Browsers : Step(b)
  \/ \E u \in Users : Disable(u) \/ Enable(u)
  \/ \E k \in Links : ExpireLink(k)

Spec == Init /\ [][Next]_vars

-----------------------------------------------------------------------------
(* Properties.                                                             *)

\* The lock is held by the request that counts under it.
LocksHeld ==
  /\ \A u \in Users : holder[u] # NoBrowser =>
       /\ Counted(holder[u]) /\ request[holder[u]].user = u
       /\ request[holder[u]].found = user[u].characters
       /\ user[u].status # "none"
  /\ \A b \in Browsers : Counted(b) => holder[request[b].user] = b

\* A session, and a request that will start or has used one, carries a
\* password its owner knows.
PasswordsKnown ==
  \A b \in Browsers :
    /\ session[b] # NoSession => <<session[b].user, session[b].pw>> \in knows[b]
    /\ request[b] # Idle /\ request[b].kind \in {"login", "change"} =>
         <<request[b].user, request[b].pw>> \in knows[b]

\* Versions only lag behind, and exactly for what is marked.
LagIsMarked ==
  /\ \A u \in Users : user[u].pw <= user[u].ver /\ (user[u].status = "none" <=> user[u].ver = 0)
  /\ \A k \in Links : link[k] # NoLink =>
       /\ link[k].ver <= user[link[k].user].ver
       /\ k \in stale => link[k].ver < user[link[k].user].ver
  /\ \A b \in Browsers :
       /\ Storing(b) =>
            /\ request[b].ver <= user[request[b].user].ver
            /\ request[b].link \in stale => request[b].ver < user[request[b].user].ver
       /\ request[b] # Idle /\ request[b].kind = "forgot" =>
            request[b].ver <= user[request[b].user].ver
       /\ Changing(b) =>
            /\ request[b].pw <= user[request[b].user].pw
            /\ b \in outrun => request[b].pw < user[request[b].user].pw

\* A grant is with one request at most, and only a request that carries a
\* password can be outrun.
OneUse ==
  /\ \A b \in Browsers : Storing(b) => link[request[b].link] = NoLink
  /\ \A b, d \in Browsers :
       Storing(b) /\ Storing(d) /\ request[b].link = request[d].link => b = d
  /\ \A b \in outrun : request[b] # Idle /\ request[b].kind \in {"login", "change"}

AccountInv == TypeOK /\ LocksHeld /\ PasswordsKnown /\ LagIsMarked /\ OneUse

\* "Changing the password invalidates existing browser sessions": whoever is
\* let in knows the account's present password, however the sign-ins, changes,
\* resets and restarts of several browsers interleave.
OutsidersLockedOut ==
  \A b \in Browsers :
    Live(b) => <<session[b].user, user[session[b].user].pw>> \in knows[b]

\* No account ever has more characters than the limit, though requests that
\* create them overlap.
CharacterLimit == \A u \in Users : user[u].characters <= Limit

\* "Sibling, stale, and concurrent recovery links cannot overwrite newer
\* credentials": a link sets a password only if nothing of the account, not its
\* email, not its active flag, changed since the link was asked for.
ResetIsCurrent ==
  [][\A b \in Browsers :
       (Storing(b) /\ user' # user /\ request'[b] = Idle) => request[b].link \notin stale]_vars

\* The account page writes a new email or password: b's request ends and the
\* account's credentials have changed.
SavesCredentials(b) ==
  /\ Changing(b) /\ request'[b] = Idle
  /\ user'[request[b].user].ver # user[request[b].user].ver

\* A new email or password is saved on the account page only while the password
\* proved with the request is still the account's: no password change, no reset
\* by mail or by the operator came between.  (Creating or renaming a character
\* asks for no password; and an account disabled while the request is under way
\* still gets its new email or password.)
ChangeIsAuthorised == [][\A b \in Browsers : SavesCredentials(b) => b \notin outrun]_vars

=============================================================================
