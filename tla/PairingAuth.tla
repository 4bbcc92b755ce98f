----------------------------- MODULE PairingAuth -----------------------------
(***************************************************************************)
(* Signing a terminal in through a browser.  A core, inside the terminal's *)
(* transaction, puts a pending session, a one-time token and a short code  *)
(* into Redis and shows the code; the auth service, any number of browsers *)
(* at once, resolves the code, authenticates the player and attaches the   *)
(* account to the session; the core finds it there at the next poll.       *)
(*                                                                         *)
(* PostgreSQL's advisory lock orders the cores' transactions, but Redis    *)
(* takes no part in them: what a transaction wrote there stays when it is  *)
(* rolled back, and browsers act between any two of its steps.             *)
(***************************************************************************)
EXTENDS Naturals

CONSTANTS
  Terminals,   \* terminal sessions; each has its own Redis key session:<id>
  Browsers,    \* browser tabs
  Users,       \* accounts, registered or not yet
  Tokens,      \* the random one-time tokens, in the order nobody can guess
  Codes,       \* short codes; few of them, so that they collide and come back
  MaxVersion,  \* bound: auth_version of one account
  NoTerminal, NoUser, NoToken, NoCode

ASSUME PairingAssumption ==
  /\ MaxVersion \in Nat \ {0}
  /\ NoTerminal \notin Terminals /\ NoUser \notin Users
  /\ NoToken \notin Tokens /\ NoCode \notin Codes

VARIABLES
  row,        \* the terminal's checkpoint in PostgreSQL
  sess,       \* Redis session:<terminal>
  challenge,  \* Redis auth_token:<token>; "unborn" and "gone" are not there
  pairing,    \* Redis pairing_code:<code>
  tx,         \* the transaction holding the advisory lock, and where it stands
  page,       \* what each browser, or the handler serving it, is at
  version,    \* users.auth_version; 0 is an account not registered yet
  shown,      \* history: codes that have been on a screen
  confirmed   \* history: <<token, user, version>> of every successful link

vars == <<row, sess, challenge, pairing, tx, page, version, shown, confirmed>>

Row == [state : {"name", "waiting", "auth", "closed"},
        token : Tokens \cup {NoToken},
        code  : Codes \cup {NoCode},
        user  : Users \cup {NoUser},
        grant : 0..MaxVersion]

Session == [status : {"none", "pending", "linked"},
            token  : Tokens \cup {NoToken},
            user   : Users \cup {NoUser},
            grant  : 0..MaxVersion]

NoSession == [status |-> "none", token |-> NoToken, user |-> NoUser, grant |-> 0]

\* What GenerateAuthToken stores: a session of nobody.
PendingSession == [NoSession EXCEPT !.status = "pending"]

Challenge == [status : {"unborn", "live", "used", "gone"},
              home   : Terminals \cup {NoTerminal}]

\* Stages of a transaction: after the session, after the token, after the code
\* of a new challenge; after reading the session in a check.
Transaction == [stage    : {"none", "session", "token", "code", "read"},
                terminal : Terminals \cup {NoTerminal},
                token    : Tokens \cup {NoToken},
                code     : Codes \cup {NoCode},
                seen     : Session]

NoTx == [stage |-> "none", terminal |-> NoTerminal, token |-> NoToken,
         code |-> NoCode, seen |-> NoSession]

\* A tab shows the form; its handler has validated the token; it knows the user.
Page == [at       : {"away", "form", "valid", "known"},
         token    : Tokens \cup {NoToken},
         terminal : Terminals \cup {NoTerminal},
         user     : Users \cup {NoUser},
         grant    : 0..MaxVersion]

NoPage == [at |-> "away", token |-> NoToken, terminal |-> NoTerminal,
           user |-> NoUser, grant |-> 0]

TypeOK ==
  /\ row \in [Terminals -> Row]
  /\ sess \in [Terminals -> Session]
  /\ challenge \in [Tokens -> Challenge]
  /\ pairing \in [Codes -> Tokens \cup {NoToken}]
  /\ tx \in Transaction
  /\ page \in [Browsers -> Page]
  /\ version \in [Users -> 0..MaxVersion]
  /\ shown \subseteq Codes
  /\ confirmed \subseteq Tokens \X Users \X (0..MaxVersion)

Init ==
  /\ row = [t \in Terminals |->
              [state |-> "name", token |-> NoToken, code |-> NoCode,
               user |-> NoUser, grant |-> 0]]
  /\ sess = [t \in Terminals |-> NoSession]
  /\ challenge = [k \in Tokens |-> [status |-> "unborn", home |-> NoTerminal]]
  /\ pairing = [c \in Codes |-> NoToken]
  /\ tx = NoTx
  /\ page = [b \in Browsers |-> NoPage]
  /\ version \in [Users -> {0, 1}]
  /\ shown = {}
  /\ confirmed = {}

-----------------------------------------------------------------------------
(* A new challenge: a user name at the first prompt, or "renew".           *)

\* Fault: "renew" is obeyed at the character menu too.
StartChallengeAtMenu(t) ==
  /\ tx = NoTx
  /\ row[t].state # "closed"
  /\ sess' = [sess EXCEPT ![t] = PendingSession]
  /\ tx' = [NoTx EXCEPT !.stage = "session", !.terminal = t]
  /\ UNCHANGED <<row, challenge, pairing, page, version, shown, confirmed>>

\* GenerateAuthToken begins by replacing whatever session the terminal had.
StartChallenge(t) ==
  /\ tx = NoTx
  /\ row[t].state \in {"name", "waiting"}
  /\ sess' = [sess EXCEPT ![t] = PendingSession]
  /\ tx' = [NoTx EXCEPT !.stage = "session", !.terminal = t]
  /\ UNCHANGED <<row, challenge, pairing, page, version, shown, confirmed>>

StoreToken(k) ==
  /\ tx.stage = "session"
  /\ challenge[k].status = "unborn"
  /\ challenge' = [challenge EXCEPT ![k] = [status |-> "live", home |-> tx.terminal]]
  /\ tx' = [tx EXCEPT !.stage = "token", !.token = k]
  /\ UNCHANGED <<row, sess, pairing, page, version, shown, confirmed>>

\* Redis fails on the token: the session is deleted, if that works, and the
\* command is rolled back to its savepoint, which restores no key of Redis.
FailToken ==
  /\ tx.stage = "session"
  /\ sess' \in {sess, [sess EXCEPT ![tx.terminal] = NoSession]}
  /\ tx' = NoTx
  /\ UNCHANGED <<row, challenge, pairing, page, version, shown, confirmed>>

\* Fault: SET instead of SETNX.
StoreCodeOver(c) ==
  /\ tx.stage = "token"
  /\ pairing' = [pairing EXCEPT ![c] = tx.token]
  /\ tx' = [tx EXCEPT !.stage = "code", !.code = c]
  /\ UNCHANGED <<row, sess, challenge, page, version, shown, confirmed>>

\* SETNX; a random code that is taken is tried again with another.
StoreCode(c) ==
  /\ tx.stage = "token"
  /\ pairing[c] = NoToken
  /\ pairing' = [pairing EXCEPT ![c] = tx.token]
  /\ tx' = [tx EXCEPT !.stage = "code", !.code = c]
  /\ UNCHANGED <<row, sess, challenge, page, version, shown, confirmed>>

\* The command returns and the transaction commits: the terminal shows the code.
CommitChallenge ==
  /\ tx.stage = "code"
  /\ row' = [row EXCEPT ![tx.terminal] =
                [@ EXCEPT !.state = "waiting", !.token = tx.token, !.code = tx.code]]
  /\ tx' = NoTx
  /\ shown' = shown \cup {tx.code}
  /\ UNCHANGED <<sess, challenge, pairing, page, version, confirmed>>

\* The transaction ends without a trace in PostgreSQL: the command failed (five
\* codes taken, Redis down) and was rolled back, or the core or its connection
\* died and the lock is free again; the edge repeats the request.
Abort ==
  /\ tx # NoTx
  /\ tx' = NoTx
  /\ UNCHANGED <<row, sess, challenge, pairing, page, version, shown, confirmed>>

-----------------------------------------------------------------------------
(* The check: a poll while waiting, or "check" then or at the menu.        *)

Stale(r) == r.user \in Users /\ r.grant # version[r.user]

\* dispatch ends a stale session before its command.
ReadSession(t) ==
  /\ tx = NoTx
  /\ \/ row[t].state = "waiting"
     \/ row[t].state = "auth" /\ ~Stale(row[t])
  /\ tx' = [NoTx EXCEPT !.stage = "read", !.terminal = t, !.seen = sess[t]]
  /\ UNCHANGED <<row, sess, challenge, pairing, page, version, shown, confirmed>>

\* Fault: any authenticated session of this terminal will do.
AnswersAnyone(s, r) == s.status = "linked"

\* session.UserID is set and the session was linked by the current token.
Answers(s, r) == s.status = "linked" /\ s.token = r.token

\* Faults: the credentials are not checked; a link is not looked at by polls.
SignedInUnchecked(s, r) ==
  [r EXCEPT !.state = "auth", !.user = s.user, !.grant = s.grant]

SignedInAtMenu(s, r) ==
  IF r.state = "waiting" THEN r
  ELSE [r EXCEPT !.state = "auth", !.user = s.user, !.grant = s.grant]

\* Signed in, or ended because the credentials have changed since the link.
SignedIn(s, r) ==
  IF s.grant = version[s.user]
    THEN [r EXCEPT !.state = "auth", !.user = s.user, !.grant = s.grant]
    ELSE [r EXCEPT !.state = "closed"]

\* SessionActive holds the account's row (FOR SHARE) until the commit, so the
\* check of the credentials and the commit are one step.
CheckAuthentication(t) ==
  /\ tx.stage = "read" /\ tx.terminal = t
  /\ row' = IF Answers(tx.seen, row[t])
              THEN [row EXCEPT ![t] = SignedIn(tx.seen, row[t])]
              ELSE row
  /\ tx' = NoTx
  /\ UNCHANGED <<sess, challenge, pairing, page, version, shown, confirmed>>

\* A quit, a close, an overflow; or checkSession, in any terminal's request,
\* finds the account changed.
EndSession(t) ==
  /\ tx = NoTx
  /\ row[t].state # "closed"
  /\ row' = [row EXCEPT ![t].state = "closed"]
  /\ UNCHANGED <<sess, challenge, pairing, tx, page, version, shown, confirmed>>

\* After the commit of a request of a closed session, without the lock; lost
\* when the core dies first.
DeleteSession(t) ==
  /\ row[t].state = "closed"
  /\ sess[t].status # "none"
  /\ sess' = [sess EXCEPT ![t] = NoSession]
  /\ UNCHANGED <<row, challenge, pairing, tx, page, version, shown, confirmed>>

-----------------------------------------------------------------------------
(* Browsers and the handlers that serve them.                              *)

\* ValidateAuthToken.
Valid(k) == challenge[k].status = "live"

\* Somebody who saw a code types or scans it: it leads to a token and this to
\* the form.
OpenForm(b, c) ==
  /\ page[b].at = "away"
  /\ c \in shown
  /\ pairing[c] # NoToken /\ Valid(pairing[c])
  /\ page' = [page EXCEPT ![b] = [NoPage EXCEPT !.at = "form", !.token = pairing[c]]]
  /\ UNCHANGED <<row, sess, challenge, pairing, tx, version, shown, confirmed>>

\* The handler of the form validates the token again and takes its session.
Submit(b) ==
  /\ page[b].at = "form"
  /\ Valid(page[b].token)
  /\ page' = [page EXCEPT ![b] =
                [@ EXCEPT !.at = "valid", !.terminal = challenge[page[b].token].home]]
  /\ UNCHANGED <<row, sess, challenge, pairing, tx, version, shown, confirmed>>

\* AuthenticateUser reads the account with its version and compares passwords.
Authenticate(b, u) ==
  /\ page[b].at = "valid"
  /\ version[u] > 0
  /\ page' = [page EXCEPT ![b] =
                [@ EXCEPT !.at = "known", !.user = u, !.grant = version[u]]]
  /\ UNCHANGED <<row, sess, challenge, pairing, tx, version, shown, confirmed>>

\* RegisterPlayer commits the account; the link comes afterwards and may fail.
RegisterPlayer(b, u) ==
  /\ page[b].at = "valid"
  /\ version[u] = 0
  /\ version' = [version EXCEPT ![u] = 1]
  /\ page' = [page EXCEPT ![b] = [@ EXCEPT !.at = "known", !.user = u, !.grant = 1]]
  /\ UNCHANGED <<row, sess, challenge, pairing, tx, shown, confirmed>>

\* Fault: the script does not look whether the challenge was used.
ConsumableAgain(p) ==
  challenge[p.token].status \in {"live", "used"} /\ sess[p.terminal].status # "none"

\* The conditions of the Lua script.
Consumable(p) ==
  /\ challenge[p.token].status = "live"
  /\ challenge[p.token].home = p.terminal
  /\ sess[p.terminal].status # "none"

\* LinkTokenToSession: one atomic script, which does everything or nothing.
LinkTokenToSession(b) ==
  LET p == page[b]
  IN  /\ p.at = "known"
      /\ IF Consumable(p)
           THEN /\ challenge' = [challenge EXCEPT ![p.token].status = "used"]
                /\ sess' = [sess EXCEPT ![p.terminal] =
                              [status |-> "linked", token |-> p.token,
                               user |-> p.user, grant |-> p.grant]]
                /\ confirmed' = confirmed \cup {<<p.token, p.user, p.grant>>}
           ELSE UNCHANGED <<challenge, sess, confirmed>>
      /\ page' = [page EXCEPT ![b] = NoPage]
      /\ UNCHANGED <<row, pairing, tx, version, shown>>

\* A wrong password shows the form again.
Deny(b) ==
  /\ page[b].at = "valid"
  /\ page' = [page EXCEPT ![b] = [NoPage EXCEPT !.at = "form", !.token = page[b].token]]
  /\ UNCHANGED <<row, sess, challenge, pairing, tx, version, shown, confirmed>>

\* The tab is closed, the handler fails or the auth service dies.
Leave(b) ==
  /\ page[b].at # "away"
  /\ page' = [page EXCEPT ![b] = NoPage]
  /\ UNCHANGED <<row, sess, challenge, pairing, tx, version, shown, confirmed>>

-----------------------------------------------------------------------------
(* Redis expiry, and changes of credentials.                               *)

ExpireToken(k) ==
  /\ challenge[k].status \in {"live", "used"}
  /\ challenge' = [challenge EXCEPT ![k].status = "gone"]
  /\ UNCHANGED <<row, sess, pairing, tx, page, version, shown, confirmed>>

\* A code is stored after its token, for the same five minutes.
ExpireCode(c) ==
  /\ pairing[c] # NoToken
  /\ challenge[pairing[c]].status = "gone"
  /\ pairing' = [pairing EXCEPT ![c] = NoToken]
  /\ UNCHANGED <<row, sess, challenge, tx, page, version, shown, confirmed>>

ExpireSession(t) ==
  /\ sess[t].status # "none"
  /\ sess' = [sess EXCEPT ![t] = NoSession]
  /\ UNCHANGED <<row, challenge, pairing, tx, page, version, shown, confirmed>>

\* A new password or e-mail, or disabling the account: the trigger bumps the
\* version.  A check that saw the player signed in holds the account's row.
ChangeCredentials(u) ==
  /\ version[u] \in 1..(MaxVersion - 1)
  /\ ~(tx.stage = "read" /\ row[tx.terminal].state = "auth" /\ row[tx.terminal].user = u)
  /\ version' = [version EXCEPT ![u] = version[u] + 1]
  /\ UNCHANGED <<row, sess, challenge, pairing, tx, page, shown, confirmed>>

Core ==
  \/ \E t \in Terminals : StartChallenge(t) \/ ReadSession(t) \/ CheckAuthentication(t)
  \/ \E k \in Tokens : StoreToken(k)
  \/ \E c \in Codes : StoreCode(c)
  \/ FailToken \/ CommitChallenge \/ Abort
  \/ \E t \in Terminals : EndSession(t) \/ DeleteSession(t)

Browser ==
  \E b \in Browsers :
    \/ \E c \in Codes : OpenForm(b, c)
    \/ \E u \in Users : Authenticate(b, u) \/ RegisterPlayer(b, u)
    \/ Submit(b) \/ LinkTokenToSession(b) \/ Deny(b) \/ Leave(b)

Environment ==
  \/ \E k \in Tokens : ExpireToken(k)
  \/ \E c \in Codes : ExpireCode(c)
  \/ \E t \in Terminals : ExpireSession(t)
  \/ \E u \in Users : ChangeCredentials(u)

Next == Core \/ Browser \/ Environment

Spec == Init /\ [][Next]_vars

-----------------------------------------------------------------------------
(* Properties.                                                             *)

\* A challenge is confirmed by one player once, whatever the browsers do at the
\* same time ("atomic, single-use browser pairing").
ConfirmedOnce ==
  \A x, y \in confirmed : x[1] = y[1] => x = y

\* A terminal is signed in as the player who confirmed the challenge issued to
\* this terminal and on display, through renewals, rolled back renewals and
\* late confirmations of earlier challenges.
SignedInAsConfirmed ==
  \A t \in Terminals :
    row[t].state = "auth" =>
      /\ challenge[row[t].token].home = t
      /\ <<row[t].token, row[t].user, row[t].grant>> \in confirmed

\* The code on display leads to this terminal's challenge as long as the
\* challenge lives: no other terminal's code replaces it.
CodeLeadsHome ==
  \A t \in Terminals :
    row[t].state = "waiting" /\ challenge[row[t].token].status # "gone" =>
      pairing[row[t].code] = row[t].token

\* The parts of the inductive invariant behind the properties here.

Confirmation(s) == <<s.token, s.user, s.grant>>

\* A token belongs to one terminal from its birth on.
TokensHaveHomes ==
  \A k \in Tokens : challenge[k].status # "unborn" => challenge[k].home \in Terminals

RowsKnowTheirChallenge ==
  \A t \in Terminals :
    /\ row[t].state \in {"waiting", "auth"} =>
         /\ row[t].token \in Tokens /\ challenge[row[t].token].status # "unborn"
         /\ challenge[row[t].token].home = t
         /\ row[t].code \in Codes
    /\ row[t].state = "auth" => row[t].user \in Users

\* A link found in Redis, or read there by a check, is a confirmation of one of
\* this terminal's challenges.
IsLinkOf(s, t) ==
  s.status = "linked" =>
    /\ s.token \in Tokens /\ challenge[s.token].home = t
    /\ s.user \in Users /\ Confirmation(s) \in confirmed

LinksAreConfirmations ==
  /\ \A t \in Terminals : IsLinkOf(sess[t], t)
  /\ tx.stage = "read" => IsLinkOf(tx.seen, tx.terminal)

\* What the transaction with the lock has done so far.
TransactionInOrder ==
  /\ tx.stage # "none" => tx.terminal \in Terminals
  /\ tx.stage \in {"session", "token", "code"} => row[tx.terminal].state \in {"name", "waiting"}
  /\ tx.stage = "read" => row[tx.terminal].state \in {"waiting", "auth"}
  /\ tx.stage \in {"token", "code"} =>
       /\ tx.token \in Tokens /\ challenge[tx.token].status # "unborn"
       /\ challenge[tx.token].home = tx.terminal
  /\ tx.stage = "code" =>
       /\ tx.code \in Codes
       /\ challenge[tx.token].status # "gone" => pairing[tx.code] = tx.token

PagesKnowTheirChallenge ==
  \A b \in Browsers :
    /\ page[b].at # "away" =>
         page[b].token \in Tokens /\ challenge[page[b].token].status # "unborn"
    /\ page[b].at \in {"valid", "known"} =>
         page[b].terminal \in Terminals /\ challenge[page[b].token].home = page[b].terminal
    /\ page[b].at = "known" => page[b].user \in Users

PairingsLead ==
  \A c \in Codes : pairing[c] \in Tokens => challenge[pairing[c]].status # "unborn"

ConfirmedAreUsed ==
  \A x \in confirmed : challenge[x[1]].status \in {"used", "gone"}

\* The inductive invariant.
PairingInv ==
  /\ TypeOK
  /\ TokensHaveHomes /\ RowsKnowTheirChallenge /\ LinksAreConfirmations
  /\ TransactionInOrder /\ PagesKnowTheirChallenge /\ PairingsLead
  /\ ConfirmedAreUsed /\ ConfirmedOnce /\ SignedInAsConfirmed /\ CodeLeadsHome

\* Nobody signs in with credentials changed after the browser was believed,
\* and who is signed in never becomes somebody else.
SignInIsCurrent ==
  [][\A t \in Terminals :
       row'[t].state = "auth" /\ row'[t] # row[t] =>
         /\ row[t].state = "waiting"
         /\ row'[t].grant = version[row'[t].user]]_vars

-----------------------------------------------------------------------------
(* Liveness.                                                               *)

\* A transaction ends one way or another; the lock is handed out in turn, so the
\* poll of each terminal gets it again and again, and is not always aborted.
FairSpec ==
  /\ Spec
  /\ WF_vars(tx # NoTx /\ tx' = NoTx /\ Core)
  /\ \A t \in Terminals : SF_vars(ReadSession(t)) /\ SF_vars(CheckAuthentication(t))

Waiting(t, k) == row[t].state = "waiting" /\ row[t].token = k

\* The link a waiting terminal finds in Redis signs it in, unless the session
\* ends, is renewed, expires or is linked by another challenge first.
LinkSignsIn ==
  \A t \in Terminals, k \in Tokens :
    (Waiting(t, k) /\ sess[t].token = k) ~> ~(Waiting(t, k) /\ sess[t].token = k)

\* The testers' guide: open the displayed URL and sign in, and "the terminal
\* advances automatically", as long as its session is there and linked.
ConfirmedAdvances ==
  \A t \in Terminals, k \in Tokens :
    (Waiting(t, k) /\ challenge[k].status = "used" /\ sess[t].status = "linked")
      ~> ~(Waiting(t, k) /\ sess[t].status = "linked")

=============================================================================
