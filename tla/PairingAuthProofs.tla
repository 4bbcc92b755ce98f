--------------------------- MODULE PairingAuthProofs ---------------------------
(***************************************************************************)
(* For any number of terminals, browsers, accounts, tokens and codes: a    *)
(* challenge is confirmed once, a terminal is signed in as the player who  *)
(* confirmed the challenge it displays, under credentials current at that  *)
(* moment, and a code on display leads to its own terminal's challenge.    *)
(***************************************************************************)
EXTENDS PairingAuth, TLAPS

USE PairingAssumption

(***************************************************************************)
(* Which actions write which variable.                                     *)
(***************************************************************************)

\* Checkpoints change by the three actions that commit something.
LEMMA RowWriters ==
  ASSUME Next
  PROVE  \/ row' = row
         \/ CommitChallenge
         \/ \E t \in Terminals : CheckAuthentication(t) \/ EndSession(t)
  BY DEF Next, Core, Browser, Environment, StartChallenge, ReadSession, StoreToken, StoreCode,
         FailToken, Abort, DeleteSession, OpenForm, Authenticate, RegisterPlayer, Submit,
         LinkTokenToSession, Deny, Leave, ExpireToken, ExpireCode, ExpireSession, ChangeCredentials

\* Tokens and their terminals change by issue, use and expiry.
LEMMA ChallengeWriters ==
  ASSUME Next
  PROVE  \/ challenge' = challenge
         \/ \E k \in Tokens : StoreToken(k) \/ ExpireToken(k)
         \/ \E b \in Browsers : LinkTokenToSession(b)
  BY DEF Next, Core, Browser, Environment, StartChallenge, ReadSession, StoreCode,
         FailToken, CommitChallenge, CheckAuthentication, Abort, EndSession, DeleteSession,
         OpenForm, Authenticate, RegisterPlayer, Submit, Deny, Leave, ExpireCode,
         ExpireSession, ChangeCredentials

\* Sessions in Redis change by a new challenge, a link, deletion and expiry.
LEMMA SessionWriters ==
  ASSUME Next
  PROVE  \/ sess' = sess
         \/ \E t \in Terminals : StartChallenge(t) \/ DeleteSession(t) \/ ExpireSession(t)
         \/ FailToken
         \/ \E b \in Browsers : LinkTokenToSession(b)
  BY DEF Next, Core, Browser, Environment, StoreToken, ReadSession, StoreCode,
         CommitChallenge, CheckAuthentication, Abort, EndSession,
         OpenForm, Authenticate, RegisterPlayer, Submit, Deny, Leave, ExpireToken, ExpireCode,
         ChangeCredentials

\* The lock is taken, passed from stage to stage and given back by the core.
LEMMA TransactionWriters ==
  ASSUME Next
  PROVE  \/ tx' = tx
         \/ tx' = NoTx
         \/ \E t \in Terminals : StartChallenge(t) \/ ReadSession(t)
         \/ \E k \in Tokens : StoreToken(k)
         \/ \E c \in Codes : StoreCode(c)
  BY DEF Next, Core, Browser, Environment, FailToken,
         CommitChallenge, CheckAuthentication, Abort, EndSession, DeleteSession,
         OpenForm, Authenticate, RegisterPlayer, Submit, LinkTokenToSession, Deny, Leave,
         ExpireToken, ExpireCode, ExpireSession, ChangeCredentials

\* Codes are stored and expire.
LEMMA PairingWriters ==
  ASSUME Next
  PROVE  pairing' = pairing \/ \E c \in Codes : StoreCode(c) \/ ExpireCode(c)
  BY DEF Next, Core, Browser, Environment, StartChallenge, StoreToken, ReadSession, FailToken,
         CommitChallenge, CheckAuthentication, Abort, EndSession, DeleteSession,
         OpenForm, Authenticate, RegisterPlayer, Submit, LinkTokenToSession, Deny, Leave,
         ExpireToken, ExpireSession, ChangeCredentials

\* Only a link confirms.
LEMMA ConfirmedWriters ==
  ASSUME Next
  PROVE  confirmed' = confirmed \/ \E b \in Browsers : LinkTokenToSession(b)
  BY DEF Next, Core, Browser, Environment, StartChallenge, StoreToken, StoreCode, ReadSession,
         FailToken, CommitChallenge, CheckAuthentication, Abort, EndSession, DeleteSession,
         OpenForm, Authenticate, RegisterPlayer, Submit, Deny, Leave,
         ExpireToken, ExpireCode, ExpireSession, ChangeCredentials

\* Only browsers turn pages.
LEMMA PageWriters ==
  ASSUME Next
  PROVE  page' = page \/ Browser
  BY DEF Next, Core, Environment, StartChallenge, StoreToken, StoreCode, ReadSession,
         FailToken, CommitChallenge, CheckAuthentication, Abort, EndSession, DeleteSession,
         ExpireToken, ExpireCode, ExpireSession, ChangeCredentials

(***************************************************************************)
(* Types.                                                                  *)
(***************************************************************************)

\* The page of a handler that has validated the token, then found the account.
LEMMA ValidPage ==
  ASSUME NEW p \in Page, NEW h \in Terminals \cup {NoTerminal}
  PROVE  [p EXCEPT !.at = "valid", !.terminal = h] \in Page
  BY DEF Page

LEMMA KnownPage ==
  ASSUME NEW p \in Page, NEW u \in Users, NEW n \in 0..MaxVersion
  PROVE  [p EXCEPT !.at = "known", !.user = u, !.grant = n] \in Page
  BY DEF Page

LEMMA TypeStep ==
  ASSUME TypeOK, PagesKnowTheirChallenge, TransactionInOrder, Next
  PROVE  TypeOK'
  <1>1. row' \in [Terminals -> Row]
    <2>1. CASE CommitChallenge
      <3>1. \A r \in Row : [r EXCEPT !.state = "waiting", !.token = tx.token,
                                      !.code = tx.code] \in Row
        BY DEF TypeOK, Row, Transaction
      <3>2. QED BY <2>1, <3>1 DEF CommitChallenge, TypeOK
    <2>2. ASSUME NEW t \in Terminals, CheckAuthentication(t) PROVE row' \in [Terminals -> Row]
      <3>1. row[t] \in Row /\ tx.seen \in Session
        BY DEF TypeOK, Transaction
      <3>2. SignedIn(tx.seen, row[t]) \in Row
        BY <3>1 DEF SignedIn, Row, Session
      <3>3. QED BY <2>2, <3>2 DEF CheckAuthentication, TypeOK
    <2>3. ASSUME NEW t \in Terminals, EndSession(t) PROVE row' \in [Terminals -> Row]
      BY <2>3 DEF EndSession, TypeOK, Row
    <2>4. QED BY <2>1, <2>2, <2>3, RowWriters DEF TypeOK
  <1>2. challenge' \in [Tokens -> Challenge]
    <2>1. ASSUME NEW k \in Tokens, StoreToken(k) PROVE challenge' \in [Tokens -> Challenge]
      BY <2>1 DEF StoreToken, TypeOK, Challenge, Transaction
    <2>2. ASSUME NEW k \in Tokens, ExpireToken(k) PROVE challenge' \in [Tokens -> Challenge]
      BY <2>2 DEF ExpireToken, TypeOK, Challenge
    <2>3. ASSUME NEW b \in Browsers, LinkTokenToSession(b)
          PROVE  challenge' \in [Tokens -> Challenge]
      BY <2>3 DEF LinkTokenToSession, TypeOK, Challenge
    <2>4. QED BY <2>1, <2>2, <2>3, ChallengeWriters DEF TypeOK
  <1>3. sess' \in [Terminals -> Session]
    <2>1. NoSession \in Session /\ PendingSession \in Session
      BY DEF NoSession, PendingSession, Session
    <2>2. ASSUME NEW b \in Browsers, LinkTokenToSession(b) PROVE sess' \in [Terminals -> Session]
      BY <2>2 DEF LinkTokenToSession, TypeOK, Session, Page
    <2>3. QED BY <2>1, <2>2, SessionWriters
               DEF TypeOK, StartChallenge, DeleteSession, ExpireSession, FailToken
  <1>4. tx' \in Transaction
    <2>1. NoTx \in Transaction
      BY DEF NoTx, NoSession, Transaction, Session
    <2>2. ASSUME NEW t \in Terminals, StartChallenge(t) PROVE tx' \in Transaction
      BY <2>1, <2>2 DEF StartChallenge, NoTx, Transaction
    <2>3. ASSUME NEW t \in Terminals, ReadSession(t) PROVE tx' \in Transaction
      BY <2>1, <2>3 DEF ReadSession, NoTx, Transaction, TypeOK
    <2>4. ASSUME NEW k \in Tokens, StoreToken(k) PROVE tx' \in Transaction
      BY <2>4 DEF StoreToken, Transaction, TypeOK
    <2>5. ASSUME NEW c \in Codes, StoreCode(c) PROVE tx' \in Transaction
      BY <2>5 DEF StoreCode, Transaction, TypeOK
    <2>6. QED BY <2>1, <2>2, <2>3, <2>4, <2>5, TransactionWriters DEF TypeOK
  <1>5. pairing' \in [Codes -> Tokens \cup {NoToken}]
    BY PairingWriters DEF TypeOK, StoreCode, ExpireCode, Transaction
  <1>6. page' \in [Browsers -> Page]
    <2>1. NoPage \in Page
      BY DEF NoPage, Page
    <2>2. ASSUME NEW b \in Browsers, NEW c \in Codes, OpenForm(b, c)
          PROVE  page' \in [Browsers -> Page]
      BY <2>1, <2>2 DEF OpenForm, TypeOK, Page, NoPage
    <2>3. ASSUME NEW b \in Browsers, Submit(b) PROVE page' \in [Browsers -> Page]
      <3>1. page[b].token \in Tokens
        BY <2>3 DEF Submit, PagesKnowTheirChallenge
      <3>2. challenge[page[b].token].home \in Terminals \cup {NoTerminal}
        BY <3>1 DEF TypeOK, Challenge
      <3>3. QED BY <2>3, <3>2, ValidPage DEF Submit, TypeOK
    <2>4. ASSUME NEW b \in Browsers, NEW u \in Users, Authenticate(b, u)
          PROVE  page' \in [Browsers -> Page]
      BY <2>4, KnownPage DEF Authenticate, TypeOK
    <2>5. ASSUME NEW b \in Browsers, NEW u \in Users, RegisterPlayer(b, u)
          PROVE  page' \in [Browsers -> Page]
      <3>1. 1 \in 0..MaxVersion
        OBVIOUS
      <3>2. QED BY <2>5, <3>1, KnownPage DEF RegisterPlayer, TypeOK
    <2>6. ASSUME NEW b \in Browsers, Deny(b) PROVE page' \in [Browsers -> Page]
      BY <2>1, <2>6 DEF Deny, TypeOK, Page, NoPage
    <2>7. ASSUME NEW b \in Browsers, LinkTokenToSession(b) \/ Leave(b)
          PROVE  page' \in [Browsers -> Page]
      BY <2>1, <2>7 DEF LinkTokenToSession, Leave, TypeOK
    <2>8. QED BY <2>2, <2>3, <2>4, <2>5, <2>6, <2>7, PageWriters DEF Browser, TypeOK
  <1>7. version' \in [Users -> 0..MaxVersion]
    <2>1. ASSUME NEW u \in Users, ChangeCredentials(u) PROVE version' \in [Users -> 0..MaxVersion]
      BY <2>1 DEF ChangeCredentials, TypeOK
    <2>2. ASSUME NEW b \in Browsers, NEW u \in Users, RegisterPlayer(b, u)
          PROVE  version' \in [Users -> 0..MaxVersion]
      BY <2>2 DEF RegisterPlayer, TypeOK
    <2>3. version' = version
            \/ (\E u \in Users : ChangeCredentials(u))
            \/ (\E b \in Browsers, u \in Users : RegisterPlayer(b, u))
      BY DEF Next, Core, Browser, Environment, StartChallenge, StoreToken, StoreCode, ReadSession,
             FailToken, CommitChallenge, CheckAuthentication, Abort, EndSession, DeleteSession,
             OpenForm, Authenticate, Submit, LinkTokenToSession, Deny, Leave,
             ExpireToken, ExpireCode, ExpireSession
    <2>4. QED BY <2>1, <2>2, <2>3 DEF TypeOK
  <1>8. confirmed' \subseteq Tokens \X Users \X (0..MaxVersion)
    <2>1. ASSUME NEW b \in Browsers, LinkTokenToSession(b)
          PROVE  confirmed' \subseteq Tokens \X Users \X (0..MaxVersion)
      <3>1. page[b].token \in Tokens /\ page[b].user \in Users /\ page[b].grant \in 0..MaxVersion
        BY <2>1 DEF LinkTokenToSession, PagesKnowTheirChallenge, TypeOK, Page
      <3>2. QED BY <2>1, <3>1 DEF LinkTokenToSession, TypeOK
    <2>2. QED BY <2>1, ConfirmedWriters DEF TypeOK
  <1>9. shown' \subseteq Codes
    <2>1. CASE CommitChallenge
      BY <2>1 DEF CommitChallenge, TypeOK, TransactionInOrder
    <2>2. CASE shown' = shown
      BY <2>2 DEF TypeOK
    <2>3. QED
      BY <2>1, <2>2
         DEF Next, Core, Browser, Environment, StartChallenge, StoreToken, StoreCode, ReadSession,
             FailToken, CheckAuthentication, Abort, EndSession, DeleteSession,
             OpenForm, Authenticate, RegisterPlayer, Submit, LinkTokenToSession, Deny, Leave,
             ExpireToken, ExpireCode, ExpireSession, ChangeCredentials
  <1>10. QED BY <1>1, <1>2, <1>3, <1>4, <1>5, <1>6, <1>7, <1>8, <1>9 DEF TypeOK

(***************************************************************************)
(* One lemma per part of the invariant.                                    *)
(***************************************************************************)

\* A token never goes back in its life and never changes its terminal.
LEMMA TokensAge ==
  ASSUME PairingInv, Next, NEW k \in Tokens, challenge[k].status # "unborn"
  PROVE  /\ challenge'[k].status # "unborn" /\ challenge'[k].home = challenge[k].home
         /\ challenge[k].status \in {"used", "gone"} => challenge'[k].status \in {"used", "gone"}
         /\ challenge[k].status = "gone" => challenge'[k].status = "gone"
  <1> USE DEF PairingInv
  <1>1. ASSUME NEW j \in Tokens, StoreToken(j) PROVE challenge'[k] = challenge[k]
    BY <1>1 DEF StoreToken, TypeOK
  <1>2. CASE \E j \in Tokens : ExpireToken(j)
    BY <1>2 DEF ExpireToken, TypeOK, Challenge
  <1>3. CASE \E b \in Browsers : LinkTokenToSession(b)
    BY <1>3 DEF LinkTokenToSession, Consumable, TypeOK, Challenge
  <1>4. QED BY <1>1, <1>2, <1>3, ChallengeWriters

\* Links and confirmations are not forgotten.
LEMMA ConfirmedGrows ==
  ASSUME Next
  PROVE  confirmed \subseteq confirmed'
  BY ConfirmedWriters DEF LinkTokenToSession

LEMMA HomesStep ==
  ASSUME PairingInv, Next
  PROVE  TokensHaveHomes'
  <1> USE DEF PairingInv
  <1>1. ASSUME NEW j \in Tokens, StoreToken(j) PROVE TokensHaveHomes'
    BY <1>1 DEF StoreToken, TokensHaveHomes, TransactionInOrder, TypeOK
  <1>2. ASSUME NEW j \in Tokens, ExpireToken(j) PROVE TokensHaveHomes'
    BY <1>2 DEF ExpireToken, TokensHaveHomes, TypeOK, Challenge
  <1>3. ASSUME NEW b \in Browsers, LinkTokenToSession(b) PROVE TokensHaveHomes'
    BY <1>3 DEF LinkTokenToSession, Consumable, TokensHaveHomes, TypeOK, Challenge
  <1>4. QED BY <1>1, <1>2, <1>3, ChallengeWriters DEF TokensHaveHomes

LEMMA RowsStep ==
  ASSUME PairingInv, Next
  PROVE  RowsKnowTheirChallenge'
  <1> USE DEF PairingInv
  <1>1. CASE row' = row
    BY <1>1, TokensAge DEF RowsKnowTheirChallenge
  <1>2. CASE CommitChallenge
    BY <1>2, TokensAge DEF CommitChallenge, RowsKnowTheirChallenge, TransactionInOrder, TypeOK, Row
  <1>3. ASSUME NEW t \in Terminals, CheckAuthentication(t) PROVE RowsKnowTheirChallenge'
    <2>1. row[t].state \in {"waiting", "auth"} /\ IsLinkOf(tx.seen, t)
      BY <1>3 DEF CheckAuthentication, TransactionInOrder, LinksAreConfirmations
    <2>2. challenge' = challenge
      BY <1>3 DEF CheckAuthentication
    <2>3. \A x \in Terminals \ {t} : row'[x] = row[x]
      BY <1>3 DEF CheckAuthentication, TypeOK
    <2>4. /\ row'[t].token = row[t].token /\ row'[t].code = row[t].code
          /\ row'[t].state = "auth" => row'[t].user \in Users
      BY <1>3, <2>1 DEF CheckAuthentication, SignedIn, Answers, IsLinkOf, RowsKnowTheirChallenge,
                        TypeOK, Row
    <2>5. QED BY <2>1, <2>2, <2>3, <2>4 DEF RowsKnowTheirChallenge
  <1>4. ASSUME NEW t \in Terminals, EndSession(t) PROVE RowsKnowTheirChallenge'
    BY <1>4 DEF EndSession, RowsKnowTheirChallenge, TypeOK, Row
  <1>5. QED BY <1>1, <1>2, <1>3, <1>4, RowWriters

LEMMA LinksStep ==
  ASSUME PairingInv, Next
  PROVE  LinksAreConfirmations'
  <1> USE DEF PairingInv
  <1>1. ASSUME NEW s \in Session, NEW t \in Terminals, IsLinkOf(s, t)
        PROVE  s.status = "linked" => /\ s.token \in Tokens /\ challenge'[s.token].home = t
                                      /\ s.user \in Users /\ Confirmation(s) \in confirmed'
    <2> SUFFICES ASSUME s.status = "linked"
                 PROVE  challenge'[s.token].home = t /\ Confirmation(s) \in confirmed'
      BY <1>1 DEF IsLinkOf
    <2>1. s.token \in Tokens /\ Confirmation(s) \in confirmed /\ challenge[s.token].home = t
      BY <1>1 DEF IsLinkOf
    <2>2. challenge[s.token].status \in {"used", "gone"}
      BY <2>1 DEF ConfirmedAreUsed, Confirmation
    <2>3. QED BY <2>1, <2>2, TokensAge, ConfirmedGrows
  <1>2. ASSUME NEW t \in Terminals PROVE IsLinkOf(sess[t], t)'
    <2>1. CASE sess'[t] = sess[t]
      <3>1. IsLinkOf(sess[t], t) /\ sess[t] \in Session
        BY DEF LinksAreConfirmations, TypeOK
      <3>2. QED BY <2>1, <3>1, <1>1 DEF IsLinkOf, Confirmation
    <2>2. CASE sess'[t] \in {NoSession, PendingSession}
      BY <2>2 DEF IsLinkOf, NoSession, PendingSession
    <2>3. ASSUME NEW b \in Browsers, LinkTokenToSession(b), sess'[t] # sess[t]
          PROVE  IsLinkOf(sess[t], t)'
      <3>1. /\ Consumable(page[b]) /\ page[b].terminal = t
            /\ sess'[t] = [status |-> "linked", token |-> page[b].token,
                           user |-> page[b].user, grant |-> page[b].grant]
            /\ <<page[b].token, page[b].user, page[b].grant>> \in confirmed'
        BY <2>3 DEF LinkTokenToSession, TypeOK
      <3>2. page[b].token \in Tokens /\ page[b].user \in Users
            /\ challenge[page[b].token].home = t /\ challenge[page[b].token].status # "unborn"
        BY <2>3, <3>1 DEF LinkTokenToSession, PagesKnowTheirChallenge
      <3>3. challenge'[page[b].token].home = t
        BY <3>2, TokensAge
      <3>4. QED BY <3>1, <3>2, <3>3 DEF IsLinkOf, Confirmation
    <2>4. \/ sess'[t] = sess[t]
          \/ sess'[t] \in {NoSession, PendingSession}
          \/ \E b \in Browsers : LinkTokenToSession(b)
      BY SessionWriters DEF StartChallenge, DeleteSession, ExpireSession, FailToken, TypeOK
    <2>5. QED BY <2>1, <2>2, <2>3, <2>4
  <1>3. ASSUME tx'.stage = "read" PROVE IsLinkOf(tx.seen, tx.terminal)'
    <2>1. CASE tx' = tx
      <3>1. tx.terminal \in Terminals /\ tx.seen \in Session /\ IsLinkOf(tx.seen, tx.terminal)
        BY <1>3, <2>1 DEF TransactionInOrder, LinksAreConfirmations, TypeOK, Transaction
      <3>2. QED BY <2>1, <3>1, <1>1 DEF IsLinkOf, Confirmation
    <2>2. ASSUME NEW t \in Terminals, ReadSession(t) PROVE IsLinkOf(tx.seen, tx.terminal)'
      <3>1. IsLinkOf(sess[t], t) /\ sess[t] \in Session
        BY DEF LinksAreConfirmations, TypeOK
      <3>2. tx'.seen = sess[t] /\ tx'.terminal = t
        BY <2>2 DEF ReadSession, NoTx
      <3>3. QED BY <3>1, <3>2, <1>1 DEF IsLinkOf, Confirmation
    <2>3. tx' = tx \/ \E t \in Terminals : ReadSession(t)
      <3>1. NoTx.stage # "read"
        BY DEF NoTx
      <3>2. ASSUME NEW t \in Terminals, StartChallenge(t) PROVE FALSE
        BY <1>3, <3>2 DEF StartChallenge, NoTx
      <3>3. ASSUME NEW k \in Tokens, StoreToken(k) PROVE FALSE
        BY <1>3, <3>3 DEF StoreToken, TypeOK, Transaction
      <3>4. ASSUME NEW c \in Codes, StoreCode(c) PROVE FALSE
        BY <1>3, <3>4 DEF StoreCode, TypeOK, Transaction
      <3>5. QED BY <1>3, <3>1, <3>2, <3>3, <3>4, TransactionWriters
    <2>4. QED BY <2>1, <2>2, <2>3
  <1>4. QED BY <1>2, <1>3 DEF LinksAreConfirmations

LEMMA TransactionStep ==
  ASSUME PairingInv, Next
  PROVE  TransactionInOrder'
  <1> USE DEF PairingInv
  <1>1. CASE tx' = NoTx
    BY <1>1 DEF TransactionInOrder, NoTx
  <1>2. ASSUME NEW t \in Terminals, StartChallenge(t) PROVE TransactionInOrder'
    <2>1. /\ tx'.stage = "session" /\ tx'.terminal = t
          /\ row' = row /\ row[t].state \in {"name", "waiting"}
      BY <1>2 DEF StartChallenge, NoTx
    <2>2. QED BY <2>1 DEF TransactionInOrder
  <1>3. ASSUME NEW t \in Terminals, ReadSession(t) PROVE TransactionInOrder'
    <2>1. /\ tx'.stage = "read" /\ tx'.terminal = t
          /\ row' = row /\ row[t].state \in {"waiting", "auth"}
      BY <1>3 DEF ReadSession, NoTx
    <2>2. QED BY <2>1 DEF TransactionInOrder
  <1>4. ASSUME NEW k \in Tokens, StoreToken(k) PROVE TransactionInOrder'
    <2>1. /\ tx'.stage = "token" /\ tx'.terminal = tx.terminal /\ tx'.token = k
          /\ row' = row /\ tx.stage = "session"
          /\ challenge'[k] = [status |-> "live", home |-> tx.terminal]
      BY <1>4 DEF StoreToken, TypeOK, Transaction
    <2>2. QED BY <2>1 DEF TransactionInOrder
  <1>5. ASSUME NEW c \in Codes, StoreCode(c) PROVE TransactionInOrder'
    <2>1. /\ tx'.stage = "code" /\ tx'.terminal = tx.terminal /\ tx'.token = tx.token
          /\ tx'.code = c /\ pairing'[c] = tx.token
          /\ row' = row /\ challenge' = challenge /\ tx.stage = "token"
      BY <1>5 DEF StoreCode, TypeOK, Transaction
    <2>2. QED BY <2>1 DEF TransactionInOrder
  <1>6. CASE tx' = tx /\ tx # NoTx
    <2>1. tx.stage # "none" => row' = row
      BY <1>6, RowWriters DEF CommitChallenge, CheckAuthentication, EndSession, NoTx
    <2>2. ASSUME tx.stage = "code", challenge'[tx.token].status # "gone"
          PROVE  pairing'[tx.code] = tx.token
      <3>1. /\ tx.token \in Tokens /\ tx.code \in Codes
            /\ challenge[tx.token].status \notin {"unborn", "gone"}
            /\ pairing[tx.code] = tx.token
        BY <2>2, TokensAge DEF TransactionInOrder
      <3>2. ASSUME NEW c \in Codes, ExpireCode(c) PROVE c # tx.code
        BY <3>1, <3>2 DEF ExpireCode
      <3>3. ASSUME NEW c \in Codes, StoreCode(c) PROVE FALSE
        BY <2>2, <3>3 DEF StoreCode
      <3>4. QED BY <3>1, <3>2, <3>3, PairingWriters DEF ExpireCode, TypeOK
    <2>3. ASSUME tx.stage \in {"token", "code"}
          PROVE  /\ challenge'[tx.token].status # "unborn"
                 /\ challenge'[tx.token].home = tx.terminal
      BY <2>3, TokensAge DEF TransactionInOrder
    <2>4. QED BY <1>6, <2>1, <2>2, <2>3 DEF TransactionInOrder
  <1>7. CASE tx' = tx /\ tx = NoTx
    BY <1>1, <1>7
  <1>8. QED BY <1>1, <1>2, <1>3, <1>4, <1>5, <1>6, <1>7, TransactionWriters

LEMMA PagesStep ==
  ASSUME PairingInv, Next
  PROVE  PagesKnowTheirChallenge'
  <1> USE DEF PairingInv
  <1> DEFINE Knows(p) ==
        /\ p.at # "away" => p.token \in Tokens /\ challenge[p.token].status # "unborn"
        /\ p.at \in {"valid", "known"} =>
             p.terminal \in Terminals /\ challenge[p.token].home = p.terminal
        /\ p.at = "known" => p.user \in Users
  <1>1. \A b \in Browsers : Knows(page[b])
    BY DEF PagesKnowTheirChallenge
  <1>2. \A p \in Page : Knows(p) => Knows(p)'
    <2> SUFFICES ASSUME NEW p \in Page, Knows(p) PROVE Knows(p)'
      OBVIOUS
    <2>1. CASE p.at = "away"
      BY <2>1
    <2>2. CASE p.at # "away"
      BY <2>2, TokensAge
    <2>3. QED BY <2>1, <2>2
  <1>3. \A b \in Browsers : page'[b] = page[b] => Knows(page[b])'
    <2> SUFFICES ASSUME NEW b \in Browsers, page'[b] = page[b] PROVE Knows(page[b])'
      OBVIOUS
    <2>1. page[b] \in Page
      BY DEF TypeOK
    <2>2. QED BY <1>1, <1>2, <2>1
  <1>4. Knows(NoPage)'
    BY DEF NoPage
  <1>5. ASSUME NEW b \in Browsers, NEW c \in Codes, OpenForm(b, c) PROVE Knows(page[b])'
    <2>1. /\ page'[b].at = "form" /\ page'[b].token = pairing[c]
          /\ pairing[c] \in Tokens /\ challenge[pairing[c]].status = "live"
          /\ challenge' = challenge
      BY <1>5 DEF OpenForm, Valid, TypeOK, NoPage
    <2>2. QED BY <2>1
  <1>6. ASSUME NEW b \in Browsers, Submit(b) PROVE Knows(page[b])'
    <2>1. /\ page'[b].at = "valid" /\ page'[b].token = page[b].token
          /\ page'[b].terminal = challenge[page[b].token].home
          /\ page[b].at = "form" /\ challenge[page[b].token].status = "live"
          /\ challenge' = challenge
      BY <1>6 DEF Submit, Valid, TypeOK, Page
    <2>2. page[b].token \in Tokens /\ challenge[page[b].token].home \in Terminals
      BY <1>1, <2>1 DEF TokensHaveHomes
    <2>3. QED BY <2>1, <2>2
  <1>7. ASSUME NEW b \in Browsers, NEW u \in Users, Authenticate(b, u) \/ RegisterPlayer(b, u)
        PROVE  Knows(page[b])'
    <2>1. PICK n : page' = [page EXCEPT ![b] = [@ EXCEPT !.at = "known", !.user = u, !.grant = n]]
      BY <1>7 DEF Authenticate, RegisterPlayer
    <2>2. page[b].at = "valid" /\ challenge' = challenge
      BY <1>7 DEF Authenticate, RegisterPlayer
    <2>3. page[b] \in Page
      BY DEF TypeOK
    <2>4. /\ page'[b].at = "known" /\ page'[b].token = page[b].token
          /\ page'[b].terminal = page[b].terminal /\ page'[b].user = u
      BY <2>1, <2>3 DEF TypeOK, Page
    <2>5. QED BY <1>1, <2>2, <2>4
  <1>8. ASSUME NEW b \in Browsers, Deny(b) PROVE Knows(page[b])'
    <2>1. /\ page'[b].at = "form" /\ page'[b].token = page[b].token
          /\ page[b].at = "valid" /\ challenge' = challenge
      BY <1>8 DEF Deny, TypeOK, NoPage
    <2>2. QED BY <1>1, <2>1
  <1>9. ASSUME NEW b \in Browsers, LinkTokenToSession(b) \/ Leave(b) PROVE Knows(page[b])'
    <2>1. page'[b] = NoPage
      BY <1>9 DEF LinkTokenToSession, Leave, TypeOK
    <2>2. QED BY <1>4, <2>1
  <1>10. ASSUME NEW b \in Browsers, page'[b] # page[b] PROVE Knows(page[b])'
    <2>1. PICK d \in Browsers :
            \/ \E c \in Codes : OpenForm(d, c)
            \/ \E u \in Users : Authenticate(d, u) \/ RegisterPlayer(d, u)
            \/ Submit(d) \/ LinkTokenToSession(d) \/ Deny(d) \/ Leave(d)
      BY <1>10, PageWriters DEF Browser
    <2>2. d = b
      <3>1. ASSUME d # b PROVE page'[b] = page[b]
        BY <2>1, <3>1 DEF OpenForm, Authenticate, RegisterPlayer, Submit, LinkTokenToSession,
                          Deny, Leave, TypeOK
      <3>2. QED BY <1>10, <3>1
    <2>3. QED BY <1>5, <1>6, <1>7, <1>8, <1>9, <2>1, <2>2
  <1>11. QED BY <1>3, <1>10 DEF PagesKnowTheirChallenge

LEMMA PairingsStep ==
  ASSUME PairingInv, Next
  PROVE  PairingsLead'
  <1> USE DEF PairingInv
  <1>1. ASSUME NEW c \in Codes, pairing'[c] = pairing[c], pairing'[c] \in Tokens
        PROVE  challenge'[pairing'[c]].status # "unborn"
    BY <1>1, TokensAge DEF PairingsLead
  <1>2. ASSUME NEW c \in Codes, pairing'[c] # pairing[c], pairing'[c] \in Tokens
        PROVE  challenge'[pairing'[c]].status # "unborn"
    <2>1. StoreCode(c)
      <3>1. ASSUME NEW d \in Codes, StoreCode(d) PROVE d = c
        BY <1>2, <3>1 DEF StoreCode, TypeOK
      <3>2. ASSUME NEW d \in Codes, ExpireCode(d) PROVE FALSE
        BY <1>2, <3>2 DEF ExpireCode, TypeOK
      <3>3. QED BY <1>2, <3>1, <3>2, PairingWriters
    <2>2. QED BY <2>1 DEF StoreCode, TransactionInOrder, TypeOK
  <1>3. QED BY <1>1, <1>2 DEF PairingsLead

LEMMA UsedStep ==
  ASSUME PairingInv, Next
  PROVE  ConfirmedAreUsed' /\ ConfirmedOnce'
  <1> USE DEF PairingInv
  <1>1. \A x \in confirmed : x[1] \in Tokens
    BY DEF TypeOK
  <1>2. CASE confirmed' = confirmed
    BY <1>1, <1>2, TokensAge DEF ConfirmedAreUsed, ConfirmedOnce
  <1>3. ASSUME NEW b \in Browsers, LinkTokenToSession(b), confirmed' # confirmed
        PROVE  ConfirmedAreUsed' /\ ConfirmedOnce'
    <2> DEFINE c == <<page[b].token, page[b].user, page[b].grant>>
    <2>1. /\ confirmed' = confirmed \cup {c}
          /\ challenge[c[1]].status = "live"
          /\ challenge' = [challenge EXCEPT ![page[b].token].status = "used"]
      BY <1>3 DEF LinkTokenToSession, Consumable
    <2>2. c[1] \in Tokens
      BY <1>3 DEF LinkTokenToSession, PagesKnowTheirChallenge
    <2>3. challenge'[c[1]].status = "used"
      BY <2>1, <2>2 DEF TypeOK, Challenge
    <2>4. \A x \in confirmed : x[1] # c[1]
      BY <2>1 DEF ConfirmedAreUsed
    <2>5. \A x \in confirmed : challenge'[x[1]].status \in {"used", "gone"}
      BY <1>1, TokensAge DEF ConfirmedAreUsed
    <2> HIDE DEF c
    <2>6. QED BY <2>1, <2>3, <2>4, <2>5 DEF ConfirmedAreUsed, ConfirmedOnce
  <1>4. QED BY <1>2, <1>3, ConfirmedWriters

\* A check that signs a terminal in found the confirmation of its challenge.
LEMMA CheckSignsIn ==
  ASSUME PairingInv, NEW t \in Terminals, CheckAuthentication(t), row'[t].state = "auth"
  PROVE  /\ row'[t].token = row[t].token
         /\ \/ row'[t] = row[t]
            \/ /\ tx.seen.status = "linked" /\ tx.seen.token = row[t].token
               /\ row'[t] = [row[t] EXCEPT !.state = "auth", !.user = tx.seen.user,
                                           !.grant = tx.seen.grant]
               /\ row'[t].user = tx.seen.user /\ row'[t].grant = tx.seen.grant
               /\ row'[t].grant = version[row'[t].user]
               /\ Confirmation(tx.seen) \in confirmed
  <1> USE DEF PairingInv
  <1>1. IsLinkOf(tx.seen, t) /\ row[t] \in Row
    BY DEF CheckAuthentication, LinksAreConfirmations, TypeOK
  <1>2. CASE ~Answers(tx.seen, row[t])
    BY <1>2 DEF CheckAuthentication
  <1>3. CASE Answers(tx.seen, row[t])
    <2>1. row'[t] = SignedIn(tx.seen, row[t])
      BY <1>3 DEF CheckAuthentication, TypeOK
    <2>2. QED BY <1>1, <1>3, <2>1 DEF SignedIn, Answers, IsLinkOf, Row
  <1>4. QED BY <1>2, <1>3

\* Nothing else makes a signed-in row.
LEMMA SignInWriter ==
  ASSUME PairingInv, Next, NEW t \in Terminals,
         row'[t].state = "auth", row'[t] # row[t]
  PROVE  CheckAuthentication(t)
  <1> USE DEF PairingInv
  <1>1. ASSUME CommitChallenge PROVE FALSE
    BY <1>1 DEF CommitChallenge, TypeOK, Row
  <1>2. ASSUME NEW x \in Terminals, EndSession(x) PROVE FALSE
    BY <1>2 DEF EndSession, TypeOK, Row
  <1>3. ASSUME NEW x \in Terminals, CheckAuthentication(x) PROVE x = t
    BY <1>3 DEF CheckAuthentication, TypeOK
  <1>4. QED BY <1>1, <1>2, <1>3, RowWriters

LEMMA SignedInStep ==
  ASSUME PairingInv, Next
  PROVE  SignedInAsConfirmed'
  <1> SUFFICES ASSUME NEW t \in Terminals, row'[t].state = "auth"
               PROVE  /\ challenge'[row'[t].token].home = t
                      /\ <<row'[t].token, row'[t].user, row'[t].grant>> \in confirmed'
    BY DEF SignedInAsConfirmed
  <1> USE DEF PairingInv
  <1>1. CASE row'[t] = row[t]
    BY <1>1, TokensAge, ConfirmedGrows DEF SignedInAsConfirmed, RowsKnowTheirChallenge
  <1>2. CASE row'[t] # row[t]
    <2>1. CheckAuthentication(t)
      BY <1>2, SignInWriter
    <2>2. row[t].state \in {"waiting", "auth"} /\ challenge' = challenge /\ confirmed' = confirmed
      BY <2>1 DEF CheckAuthentication, TransactionInOrder
    <2>3. QED BY <1>2, <2>1, <2>2, CheckSignsIn DEF Confirmation, RowsKnowTheirChallenge
  <1>3. QED BY <1>1, <1>2

LEMMA CodesStep ==
  ASSUME PairingInv, Next
  PROVE  CodeLeadsHome'
  <1> SUFFICES ASSUME NEW t \in Terminals, row'[t].state = "waiting",
                      challenge'[row'[t].token].status # "gone"
               PROVE  pairing'[row'[t].code] = row'[t].token
    BY DEF CodeLeadsHome
  <1> USE DEF PairingInv
  <1>1. CASE row'[t].state = row[t].state /\ row'[t].token = row[t].token /\ row'[t].code = row[t].code
    <2>1. /\ row[t].token \in Tokens /\ row[t].code \in Codes
          /\ challenge[row[t].token].status \notin {"unborn", "gone"}
          /\ pairing[row[t].code] = row[t].token
      BY <1>1, TokensAge DEF RowsKnowTheirChallenge, CodeLeadsHome
    <2>2. ASSUME NEW c \in Codes, StoreCode(c) PROVE c # row[t].code
      BY <2>1, <2>2 DEF StoreCode
    <2>3. ASSUME NEW c \in Codes, ExpireCode(c) PROVE c # row[t].code
      BY <2>1, <2>3 DEF ExpireCode
    <2>4. pairing'[row[t].code] = pairing[row[t].code]
      BY <2>1, <2>2, <2>3, PairingWriters DEF StoreCode, ExpireCode, TypeOK
    <2>5. QED BY <1>1, <2>1, <2>4
  <1>2. CASE CommitChallenge /\ tx.terminal = t
    BY <1>2 DEF CommitChallenge, TransactionInOrder, TypeOK, Row
  <1>3. ASSUME ~(CommitChallenge /\ tx.terminal = t)
        PROVE  /\ row'[t].state = row[t].state /\ row'[t].token = row[t].token
               /\ row'[t].code = row[t].code
    <2>1. CASE CommitChallenge
      BY <1>3, <2>1 DEF CommitChallenge, TypeOK
    <2>2. ASSUME NEW x \in Terminals, EndSession(x) PROVE row'[t] = row[t]
      BY <2>2 DEF EndSession, TypeOK, Row
    <2>3. ASSUME NEW x \in Terminals, CheckAuthentication(x) PROVE row'[t] = row[t]
      <3>1. SignedIn(tx.seen, row[t]).state # "waiting"
        BY DEF SignedIn, TypeOK, Row
      <3>2. QED BY <2>3, <3>1 DEF CheckAuthentication, TypeOK
    <2>4. QED BY <2>1, <2>2, <2>3, RowWriters
  <1>4. QED BY <1>1, <1>2, <1>3

(***************************************************************************)
(* The theorems.                                                           *)
(***************************************************************************)

LEMMA InvInit == Init => PairingInv
  <1> SUFFICES ASSUME Init PROVE PairingInv
    OBVIOUS
  <1>1. TypeOK
    <2>1. NoSession \in Session /\ NoPage \in Page /\ NoTx \in Transaction
      BY DEF NoSession, NoPage, NoTx, Session, Page, Transaction
    <2>2. {0, 1} \subseteq 0..MaxVersion
      OBVIOUS
    <2>3. QED BY <2>1, <2>2 DEF Init, TypeOK, Row, Challenge
  <1>2. TokensHaveHomes /\ RowsKnowTheirChallenge /\ TransactionInOrder
    BY DEF Init, TokensHaveHomes, RowsKnowTheirChallenge, TransactionInOrder, NoTx
  <1>3. LinksAreConfirmations /\ PagesKnowTheirChallenge /\ PairingsLead
    BY DEF Init, LinksAreConfirmations, IsLinkOf, NoSession, NoTx, PagesKnowTheirChallenge,
           NoPage, PairingsLead
  <1>4. ConfirmedAreUsed /\ ConfirmedOnce /\ SignedInAsConfirmed /\ CodeLeadsHome
    BY DEF Init, ConfirmedAreUsed, ConfirmedOnce, SignedInAsConfirmed, CodeLeadsHome
  <1>5. QED BY <1>1, <1>2, <1>3, <1>4 DEF PairingInv

LEMMA InvStep == PairingInv /\ [Next]_vars => PairingInv'
  <1>1. ASSUME PairingInv, Next PROVE PairingInv'
    <2>1. TypeOK'
      BY <1>1, TypeStep DEF PairingInv
    <2>2. QED
      BY <1>1, <2>1, HomesStep, RowsStep, LinksStep, TransactionStep, PagesStep, PairingsStep,
         UsedStep, SignedInStep, CodesStep DEF PairingInv
  <1>2. ASSUME PairingInv, UNCHANGED vars PROVE PairingInv'
    BY <1>2 DEF vars, PairingInv, TypeOK, TokensHaveHomes, RowsKnowTheirChallenge,
                LinksAreConfirmations, IsLinkOf, TransactionInOrder, PagesKnowTheirChallenge,
                PairingsLead, ConfirmedAreUsed, ConfirmedOnce, SignedInAsConfirmed, CodeLeadsHome
  <1>3. QED BY <1>1, <1>2

\* Every reachable state of the cores, Redis and the browsers is consistent:
\* checkpoints, links, pages and codes agree on whose challenge is whose.
THEOREM PairingInvariant == Spec => []PairingInv
  BY InvInit, InvStep, PTL DEF Spec

\* The link is single-use, for any number of browsers at once.
THEOREM ChallengeConfirmedOnce == Spec => []ConfirmedOnce
  <1>1. PairingInv => ConfirmedOnce
    BY DEF PairingInv
  <1>2. QED BY <1>1, PairingInvariant, PTL

\* A terminal belongs to the player who confirmed what it displays.
THEOREM SignedInByConfirmation == Spec => []SignedInAsConfirmed
  <1>1. PairingInv => SignedInAsConfirmed
    BY DEF PairingInv
  <1>2. QED BY <1>1, PairingInvariant, PTL

\* A displayed code is never taken over while its challenge lives.
THEOREM CodesLeadHome == Spec => []CodeLeadsHome
  <1>1. PairingInv => CodeLeadsHome
    BY DEF PairingInv
  <1>2. QED BY <1>1, PairingInvariant, PTL

\* Signing in takes current credentials and happens once.
THEOREM SignInTakesCurrentCredentials == Spec => SignInIsCurrent
  <1>1. ASSUME PairingInv, Next, NEW t \in Terminals,
               row'[t].state = "auth", row'[t] # row[t]
        PROVE  row[t].state = "waiting" /\ row'[t].grant = version[row'[t].user]
    <2> USE DEF PairingInv
    <2>1. CheckAuthentication(t)
      BY <1>1, SignInWriter
    <2>2. /\ tx.seen.token = row[t].token /\ Confirmation(tx.seen) \in confirmed
          /\ row'[t] = [row[t] EXCEPT !.state = "auth", !.user = tx.seen.user,
                                      !.grant = tx.seen.grant]
          /\ row'[t].grant = version[row'[t].user]
      BY <1>1, <2>1, CheckSignsIn
    <2>3. ASSUME row[t].state = "auth" PROVE FALSE
      <3>1. <<row[t].token, row[t].user, row[t].grant>> \in confirmed
        BY <1>1, <2>3 DEF SignedInAsConfirmed
      <3>2. <<row[t].token, row[t].user, row[t].grant>> = Confirmation(tx.seen)
        BY <1>1, <2>2, <3>1 DEF ConfirmedOnce, Confirmation
      <3>3. row[t].user = tx.seen.user /\ row[t].grant = tx.seen.grant
        BY <3>2 DEF Confirmation
      <3>4. row'[t] = row[t]
        BY <1>1, <2>2, <2>3, <3>3 DEF TypeOK, Row
      <3>5. QED BY <1>1, <3>4
    <2>4. row[t].state \in {"waiting", "auth"}
      BY <1>1, <2>1 DEF CheckAuthentication, TransactionInOrder
    <2>5. QED BY <2>2, <2>3, <2>4
  <1>2. PairingInv /\ [Next]_vars =>
          [\A t \in Terminals :
             row'[t].state = "auth" /\ row'[t] # row[t] =>
               /\ row[t].state = "waiting"
               /\ row'[t].grant = version[row'[t].user]]_vars
    BY <1>1
  <1>3. QED BY <1>2, PairingInvariant, PTL DEF Spec, SignInIsCurrent

=============================================================================
