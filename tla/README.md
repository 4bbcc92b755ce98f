# A TLA+ model of Race Condition Kingdom

Race Condition Kingdom is a multi-player text game for telnet and Commodore
terminals, written in Go. This directory holds TLA+ modules that model its
concurrent core, TLC configurations that check them on small instances, and
proofs checked by TLAPS. Paths below are relative to `src/`.

## 1. The system

```
 terminal --TCP--> edge ----HTTP----> core (blue | green) ----> PostgreSQL
                    |  retry, queue     | stateless              | rows, world
                    |                   +---------> Redis <--- auth service <-- browser
```

| Component | Source | State | Operations | What makes it correct |
|---|---|---|---|---|
| Terminal edge | `internal/telnet/edge.go` | one goroutine per socket: next request (UUID, sequence, ack, kind, line), input channel of 8, pause flags | accept, read a line, call, retry, reset, show output, take a line, poll, idle close, hang up | a typed line runs at most once, in order, and is not dropped; output is shown once, without gaps; the goroutine ends |
| Wire protocol | `internal/terminalwire/protocol.go` | none | request, response | the sequence number identifies the answer |
| Core dispatch | `internal/telnet/core.go` | none between requests | one transaction per request under an advisory lock | retries do nothing twice; a failing command consumes its number; the outbox keeps what was committed |
| Durable sessions | migrations 004, 008 | `terminal_sessions`, `users.auth_version` | insert, upsert, release, purge, version trigger | one open row per character |
| Presence hub | `internal/telnet/presence.go`, `room_events.go` | owners, snapshots, scenes | claim, update, remove | one player per character |
| Command interpreter | `internal/telnet/server.go`, `combat.go`, `scripts.go`, `scenery.go` | connection state machine | sign-in, selection, movement, commands | commands run only in their state and by a live session |
| Legacy gateway | `server.go`, `connection.go`, `cmd/telnet-gateway` | shared hub, connections, draining flag | connect, drain, shut down | drain ends, no connection is accepted afterwards |
| Pairing | `internal/auth`, `cmd/auth-service` | Redis tokens, codes, sessions | challenge, resolve, authenticate, link, delete | a terminal signs in only for the account that confirmed its current challenge |
| Account service | `internal/account`, `internal/mail`, `cmd/rck-admin` | `users`, browser sessions and reset links in Redis | sign up, sign in, log out, change email or password, forgot, reset, create a character, disable, enable | what a request decides on is still current when it writes; a link never overwrites a newer credential; the character limit holds |
| World, combat, loot | `internal/game`, `internal/telnet/server.go`, `combat.go` | characters, inventories, rooms, monsters, corpses, quest books | move, rest, take, drop, use, equip, give, attack, loot, resurrect; restart | coins and the manifest are conserved; packs are bounded; the dead keep what they have and come back |
| Script workflow | `internal/game/scripts.go`, `internal/telnet/scripts.go` | scripts, their audit, open editors, attachments, script state | new, edit, save, abort, restore, publish, disable, attach, detach; run a hook | what runs was reviewed under its number; no draft is overwritten; a prize is paid once |
| Core listener and switch | `internal/terminalwire/listen.go`, `cmd/core-switch` | socket, lock, target file | listen, close, switch | a live socket is never removed; the target is always a ready core |
| Migrations | `internal/database` | schema version | migrate | each migration once |
| Script sandbox | `internal/scripting` | none between runs | evaluate within steps, memory and time | a run ends, and fails without effect |

Interactions: the edge calls the core by HTTP and may abandon a call the core is
still executing; cores share PostgreSQL, whose advisory lock makes every
`dispatch` one atomic step, also between an old and a new core; a transaction
of one terminal writes into the outboxes of others; the browser changes Redis
and `users` beside all that.

The hard parts are retries against late commits, resets, overflow of bounded
queues, leases measured by two strict comparisons, revocation, commands that
fail half-way, web requests whose reads are stale when they write, and long
sequences of game commands that meet each other in the database. `PROJECT.json`
lists every hazard at its line, and the properties that watch it.

## 2. Modules

### TerminalProtocol

One socket, the goroutine `Edge.serve`, the HTTP hop and the rows of the
sessions this socket goes through.

| State | Code |
|---|---|
| `phase` | where `serve` stands: `call` (in `call` or the one-second pause), `show` (writing `response.Output`), `select`, `closing` (the deferred close), `gone` |
| `req` | the local `req`; lines are numbered as they are typed |
| `typed - taken` | lines in the channel, and one more in the reader goroutine when it is full |
| `link`, `reply` | the current attempt and its answer |
| `strays` | abandoned attempts a core may still commit, each any number of times |
| `rows`, `age` | `terminal_sessions`; `lapsed` is over two minutes, `old` over 24 hours |
| `ran`, `lost`, `purged`, `emitted`, `shown` | history |

`Execute` is `dispatch` from the admission to the commit, in the code's order:
close, gap and acknowledgement checks, trimming, revocation, the notice of a
lost character, the command between its savepoints, the number swallowed by a
closed session, the upsert. The output of a command is at most one chunk, and
chunks stand for the bytes of one `Write`; `OutboxCap` counts chunks instead of
64 KiB. `OtherTransaction` is the whole rest of the realm seen from this row:
a broadcast to it or its revocation. `Refuse` stands for every way to fail
before the commit, `LoseReply` for every way to fail after it, including the
answers `call` turns down.

`ReliableTerminal` is the abstract promise: lines run in order, once, unless
given up in order; output is shown in order, once. `TerminalProtocol` implements
it with the mapping `done <- phase \in {"closing", "gone"}`.

### CharacterLease

Any number of sessions, the characters they play and the two-minute lease. A
row keeps what the checkpoint says about the player (state, account, granted
version, character, room) and the `character_id` column under the unique index.
`Dispatch(s, cmd)` is again one `dispatch`: release of lapsed columns
(`Column`), selection of rows (`Selected`), `checkSession` on each (`Expelled`),
claims (`Others`, `Claimed`), demotion (`Resumed`), the command (`Executed`), the
rows written (`Written`) and the unique index (`IndexAccepts`), which aborts
the transaction when it refuses. `heard` are the players who got output,
`spilled` those whose outbox overflowed. The clock is `Tick`; ages are ticks
since `last_seen`. `Vanish` is an edge host that dies.

### PairingAuth

Any number of terminals, browsers, accounts, tokens and codes.

| State | Code |
|---|---|
| `row` | what the checkpoint says about signing in: state, token, code, account and granted version |
| `sess` | Redis `session:<id>`: absent, pending, or linked by a token to an account at a version |
| `challenge` | Redis `auth_token:<token>`; `gone` once expired |
| `pairing` | Redis `pairing_code:<code>` |
| `tx` | the one transaction that holds the advisory lock, with the stage it has reached |
| `page` | what a tab, or the handler serving it, knows: token, then session, then account and version |
| `version` | `users.auth_version`, 0 for an account not registered yet |
| `shown`, `confirmed` | history: codes displayed, successful links |

In the other modules one `dispatch` is one step. That is right for PostgreSQL
and wrong for Redis, which takes no part in the transaction: here `dispatch` is
split at each Redis call. `StartChallenge`, `StoreToken`, `StoreCode` and
`CommitChallenge` are the session, token and code of `GenerateAuthChallenge`
and the commit that puts them on screen; `Abort` can come after each of them
and undoes nothing in Redis. A check is `ReadSession`, then
`CheckAuthentication`, in which `SessionActive` locks the account's row (`FOR
SHARE`) and thereby makes the comparison of versions and the commit one step.
`EndSession` covers a quit, a close, an overflowing outbox and `checkSession`,
also when the request is another terminal's; `DeleteSession` is the deletion
after the commit, which a crash loses. The steps of the browser's handlers are
separate: validate, authenticate or register, link; the Lua script is one step.
Disabling an account is a change of version, as the trigger makes it. A code
cannot expire before its token, because it is stored later for the same time.

### GameWorld

What characters do to the world. A command is one transaction, hence one
action; the refresh of the room (`Refresh`, `sendLook`) and the script hook a
command ends with (`Hook`) are part of it.

| State | Code |
|---|---|
| `hero` | rows of `characters`: room, health, stamina, gold, experience; `dead` and `bell` are `resurrection_ready_at` (NULL, ahead, past) |
| `pack`, `worn` | `inventory`: quantities, and the equipped rows |
| `ground` | `room_items` |
| `foe` | hostile `npcs`: health, and whether `respawn_at` has passed |
| `corpse` | the row of `monster_corpses` that the partial unique index allows a monster |
| `books` | completed deliveries, fees paid to the Hall, prizes of a trial |
| `lost` | history: purses that decayed with their corpse |
| `view` | the copy in `terminal_sessions.checkpoint` of the session that plays the character: `conn.Room`, `conn.Character.IsDead`; `lapsed` is history: others may have played since |
| `away` | the copies of lapsed sessions that may come back |

A command looks at two things that can differ: the row, and the session's copy.
The gate for the dead (`Gate`, `handleGameCommandWithoutPrompt`) looks at the
copy alone. `Move`, `MayStrike` and `Loot` look at the row's death as well;
taking, dropping, giving, resting and answering compare the copy's room with
the row's (`InPlace`, `requireCharacterInRoom`); using, equipping and
unequipping do neither. Most commands read the character back when they are
done (`Reload`, `LoadCharacter`), taking, dropping, equipping and unequipping do
not, and no command but a walk, a death and a selection changes the copy's room. A
session that quits or lapses (`Leaves`) makes room for another one that selects
the character and copies the row (`Select`); one that lapsed may come back with
the copy it had (`Return`), as `CharacterLease` shows it does. Its copy can
say "alive" of the dead, which the gate then lets through, or "dead" of the
living, which the gate holds back until `stats` or `look`'s healing hook reads the
row again. When exactly a session may return is `CharacterLease`'s affair;
here it may whenever it likes, which is never less than the code allows.

The attack is one action per outcome: `Kill` needs the unique index to accept
the corpse, otherwise the transaction rolls back and nothing changes;
`Exchange` is a round the monster survives, with the walk to the Hall of
Returning, its refresh and its hook when the attacker dies. Respawn and decay
are lazy, as in the code: time only makes a monster due (`FallDue`) or a corpse
expired (`Decay`), and the next command that looks at the room brings the one
back or deletes the other. `Armful` is the loop of `take all` with the room it
counts down. `Give` is the whole delivery, with the update that sets the docks'
stack of manifests to exactly one. `Restart` is `EnsureStarterWorld`. Looking
and speaking pass no gate and run hooks for the dead too. Abstracted: loot rolls are a free choice, every
purse has one size, a thing is named and not matched by part of its name, and of
a hook only healing and the one prize of a trial are kept. Two cores' commands are serialised by the advisory
lock, so one action per command is the interleaving the realm really has.

### AccountCredentials

The website and the operator's tool on the same users. A web request is split
where it waits: at every statement, Redis call, hash computation and mail.

| State | Code |
|---|---|
| `user` | `users` with `auth_version`, and the number of rows in `characters` |
| `holder` | the row lock of `SELECT ... FOR UPDATE` in `createCharacter` |
| `session` | the cookie and `websession:` in Redis with its password hash |
| `link` | `password-reset:` grants in Redis |
| `request` | what the handler of a browser has read so far |
| `knows`, `stale`, `outrun` | history: who knows which password; links overtaken by a change of the account; requests that carry a password the account no longer has |

A salted hash is new at each change, so it is represented by the version that
introduced it. `Load` is `readSession` and `loadUser`; `ChangeEmail` and
`ChangePassword` are the conditional updates `WHERE password_hash = ...`
(`Unchanged`), whose result may be no row (`Refused`). `Forgot`, `CreateLink`
and `Mail` are the three steps of a recovery request; `OpenLink`, `ConsumeLink`
and `StoreReset` those of its use, with `Granted` the version in its `WHERE`.
A mail whose sending reports an error may still have left, `Abandon` is a
restart or a client that gives up at any point, and links and sessions expire at
any moment. Not everything the account page does asks for the password: creating
a character (`CountCharacters`, `InsertCharacter`) only checks under the row lock
that the account is active, renaming one (not modelled) checks nothing but its
owner, and the two updates of email and password do not look at `is_active`. So
`ChangeIsAuthorised` speaks of saved emails and passwords only
(`SavesCredentials`), and an account disabled after `Load` still gets them.

### ScriptWorkflow

| State | Code |
|---|---|
| `rights` | `account_permissions` of active accounts |
| `script` | `scripts`: draft, revision, active flag, published source, approval |
| `audit` | the rows of `script_audit` that hold a source |
| `editor` | the editor in a terminal's connection state, which survives commands and permissions |
| `attached`, `state`, `paid` | `rooms.script_id`, `script_state`, and what a character was paid |
| `run` | a hook between its reads and its commit |

A script command locks the script's row; a run holds it shared while it
evaluates, so `Start` and `Finish` (or `Fail`) are two steps and commands on
that script wait in between (`RowFree`, `TargetFree`, `EntryFree`). Every line
typed into an editor asks for access again (`Evicted`). `Type` lets the text
become any source: the editor's line commands only differ in how they get there.
`Install` is the first start with a bundled script. A source is a member of a
set; what matters is whether it validates (`Broken`) and pays a prize guarded by
its state (`Paying`).

## 3. What is checked

| Run | Question | Instance |
|---|---|---|
| `terminal_safety` | does any mixture of retries, late commits, lost answers, overflows, a purge with its reset and hang-ups run a line twice, out of order or not at all, repeat or skip output, or wedge the edge? does it implement `ReliableTerminal`? | 2 UUIDs, 2 lines, channel of 1, outbox of 2, 3 chunks, 1 poll |
| `terminal_liveness` | is each line dealt with, does committed output arrive, does a hung-up goroutine end? | 1 UUID, 1 line, outbox of 1, 2 chunks, polls up to number 3 |
| `lease_safety` | has a character one player, and does only that player move it? | 3 sessions, 1 account, 1 character, 2 rooms, lease of 2 ticks, 1 credential change |
| `lease_liveness` | do revoked sessions end, is a vanished player replaced? | 2 sessions, 1 room |
| `lease_reselect` | is a character claimed elsewhere selected again, as the documentation says? (no: see section 6) | 3 sessions, 1 room |
| `pairing_safety` | is a terminal signed in only as who confirmed its current challenge, with credentials still valid, whatever interleaves? | 2 terminals, 2 browsers, 1 account, 2 tokens, 2 codes, 1 credential change |
| `pairing_liveness` | does a link sign the waiting terminal in? | 2 terminals, 1 browser, 2 tokens, 1 code |
| `pairing_advance` | does the terminal advance once the displayed challenge is confirmed, as the testers' guide says? (no: see section 6) | 1 terminal, 2 browsers, 2 tokens, 2 codes |
| `world` | is every coin accounted for, no pack too full, the manifest never lost, do the dead keep what they have and come back, and does a session's copy follow the row as long as it does not lapse? | 3 rooms, 2 characters, 1 monster, 3 things, packs of 1, four stories |
| `world_blow` | does a killing blow create a corpse, as the documentation says? (no: see section 6) | the same |
| `account` | do sessions, reset links, emails and passwords rest on credentials still current when they are used or written, and does the limit of characters hold? | 2 browsers, 1 account, 2 links, limit of 2 characters, 3 versions |
| `scripts` | does only what was reviewed run, is no draft overwritten, is a prize paid once? | 2 users, 1 script, 3 sources (one broken, one paying), 1 room, 2 connections of one character, 3 revisions |

Why the bounds are enough for the questions: two lines are what an order can
be violated with, and each may be abandoned, repeated and overtaken any number
of times since `strays` is not bounded; a channel of one line already puts the
reader under back-pressure; an outbox of one or two chunks overflows after the
welcome; two UUIDs are one reset, whose strays of the first session meet the
second. A lease of two ticks has the three ages that matter: within, exactly at
and beyond the two minutes. A third session is the claimant that comes and goes
between two requests of the first while the second broadcasts. Two tokens are a
challenge and its renewal, or the challenges of two terminals; two codes collide
and return after they expire; two browsers race for one challenge or confirm two
of one terminal. One account at two versions is enough for a grant gone stale;
that two accounts are not confused is what the theorems say for any number.

The four stories of `world` bound what lies about and what is still to happen,
each for a question of its own: a hunt with two kills (a respawn over a corpse,
a purse that decays), an errand with full packs, an errand with a restart that
places a second manifest, and a hunt with a potion to carry whose sessions come
and go twice: a second session plays while the first is away, and the first one
returns with an old copy. That is the shortest history in which a copy is stale
and used. A pack of one is full after one thing. `account` has three versions: a change, and
another that overtakes what was read before the first. `scripts` has three
revisions: a draft, a save, and a restore or a save that comes between.

The liveness run has one UUID and one line: what a reset does to waiting output
is covered by the safety run (`NeverWedged` says the edge always has a step that
leads on), not by a liveness property. Polls are bounded by their number in
both runs, and only the liveness run reaches one after the line.

Deadlock is checked in the runs of `CharacterLease` only. Elsewhere the system
may stop, and does: in `TerminalProtocol` when the goroutine is gone and nothing
is in the air; in `PairingAuth` when tokens are used up and all sessions closed;
in `AccountCredentials` and `ScriptWorkflow` when the bound on versions or
revisions leaves no request anything to do; `GameWorld` has in practice always a
step (one may look), which says nothing.

### Fairness

`TerminalProtocol!Fairness`: weak fairness of the goroutine's own steps (`Send`,
`ShowChunk`, `Settle`, `Depart`, `Poll`), because the Go scheduler runs it, the
retry and the poll are timers, and the deferred close has a three-second
timeout. Strong fairness of `Serve`, `Receive` and `ReceiveReset`: a core is
again and again reachable for long enough to answer, which is what blue-green
switching assures; without it the code promises nothing, it says "please wait".
Strong fairness of `TakeLine`: `select` picks at random among ready cases.
Nothing is assumed of `TypeLine`, `IdleClose`, `Hangup`, of failures or of
strays. `CharacterLease!FairSpec`: time passes, every live edge polls once a
second, and a player at the menu repeats the selection (strong fairness,
because the unique index can refuse a try at the exact two-minute tick).
`PairingAuth!FairSpec`: a transaction ends, by its commit or with its
connection (weak fairness), and PostgreSQL hands the advisory lock out in turn,
so that each waiting terminal's poll gets it again and again and is not aborted
every time (strong fairness of `ReadSession` and `CheckAuthentication`). Nothing
is assumed of browsers, of expiry or of a player who renews; the property
accepts those as ends of the wait. `GameWorld!FairSpec`: ten minutes pass after
a death (`RingBell`), and a dead player who wants to go on types `resurrect`
again (`Resurrect`); nothing is assumed of coins, so nobody needs the fee.
`AccountCredentials` and `ScriptWorkflow` promise nothing in time: a handler may
be abandoned at any point, and no property asks more.

### Mutants

Every property of a passing run is violated by some plausible bug, an operator
marked `Fault` before the definition it would replace: a repeated number
counted as fresh, a failed attempt not repeated, an acknowledgement kept across
a reset, an early release of leases, a poll that only refreshes `last_seen`, a
corpse overwritten, room in a pack counted once, a reset that ignores the
version, a save that ignores the revision, and so on.

## 4. What is proved

Every invariant and every action property of the passing runs, and the
refinement of `ReliableTerminal`, is a theorem for all values of the constants;
what the runs alone show is liveness.

### TerminalProtocolProofs

For any number of lines, chunks, polls and session UUIDs, any channel and any
outbox capacity (`BoundsAssumption` alone):

* `RequestInvariant`: `Spec => []RequestInv`, the part of `ProtocolInv` about
  requests and sequence numbers; it needs no other part.
* `TypeCorrect`, `LinesRunOnceInOrder`, `EdgeNeverWedged`, `AnswersMatch`.

The argument. `RanOnceInOrder` is not inductive: a step could run an abandoned
line late. `NextLineIsLater` says that a request in the air which the row has
not passed carries a line later than every line run, and `SequenceClose` that
the row is at the request's number or one behind and no stray is ahead, so a
line that runs is the request's own, once. That in turn needs `AnswerCurrent`
(an answer proves the row has reached the number, before `Settle` takes the
next one), `AckKnown` and `OutboxIssued` (acknowledgements only of identifiers
the row has issued), and, because of the 24-hour purge, `ReopenedOnlyFirst`: a
purged row is created again only by an opening that is still unanswered; no
stray opening can bring back a row with a sequence behind the edge's. After a
reset `OtherIdsGone` says that strays of earlier UUIDs find no row.
`ExecuteEffect` sums up one `dispatch` (the row ends at the larger of both
numbers, no identifier is taken back, a line runs only as the next number of a
row that exists); `Moves` is all the other lemmas use of it. Each step of the
edge, the hop and the cores has its lemma.

### TerminalOutputProofs

Under the same assumption, on top of `RequestInvariant`:

* `InductiveInvariant`: `Spec => []ProtocolInv`, which `terminal_safety` also
  checks: `RequestInv`, `LineInv` and `OutputInv`.
* `LinesAnswered`: the invariant `AnsweredMeansRan`.
* `OutputShownInOrder`, `OutputNotLost`: `ShownOnceNoGap` and `OutputKept`.
* `HangupFinal`, `ClosedFinal`: the action properties `HangupIsFinal` and `ClosedIsFinal`.
* `Refinement`: `ImplementsPromise`, that is, `TerminalProtocol` implements
  `ReliableTerminal`.

The argument for lines (`LineInv`). That a line has its fate when its request is
answered does not follow from the answer: the answer may have been given to
another attempt, by another core, before a purge. So the invariant speaks of
the row: it reaches a line's number only by running the line, unless it is
closed (`ReachedMeansRan`), whichever attempt it was that got through. For that, whatever is in
the air under the number being sent must carry that very line (`LastLineInAir`),
and every earlier line must be settled (`LinesSettled`), which also makes lines
run in the order typed with none skipped.

The argument for output (`OutputInv`). Identifiers in the session's row are ahead
of everything emitted (`EmittedIssued`), so a chunk never takes the number of
an earlier one; the case that made this hard is a row that expires while its
opening is still unanswered and is created again, with the same number and the
same greeting. Outbox and answer hold only what was committed (`OutboxEmitted`).
From the edge's acknowledgement on the outbox has no gap (`OutboxWhole`), unless
a farewell replaced it, since no retry acknowledges more than the edge has shown
(`AckBehind`) and a transaction trims only what is acknowledged. The
acknowledgement is the identifier last written to the socket
(`AckIsLastShown`), so the next chunk of an answer follows it.

The refinement, step by step. A transaction, whoever sent it and however late,
is `Work`: the line it runs is the first one without a fate
(`ServedRunsNext`) and its output takes new numbers (`AdvanceProduces`).
`ShowChunk` is `Show` (`ShowChunkShows`), a reset is `LoseLine` or nothing
(`ReceiveResetLoses`), and everything else the edge, the hop and the clock do
is `TypeLine`, `Leave` or a stutter (`EdgeLeavesOrStutters`).

### CharacterLeaseProofs

For all sets of sessions, accounts, characters and rooms and every lease, from
`LeaseAssumption` alone:

* `TypeCorrect`: `Spec => []TypeOK`.
* `LeaseInvariant`: `Spec => []LeaseInv`, the inductive invariant.
* `OnePlayer`, `IndexAgrees`: the invariants `OnePlayerPerCharacter` and
  `IndexNeverRefuses` of `lease_safety`; `IndexMirrors`, `RivalsOlder`: the two
  parts of `LeaseInv` they rest on.
* `MovedByItsPlayer`: the action property of `lease_safety`.

The argument. A row that stays a player keeps its column equal to its
character (`OtherRows`, `RequesterRow`), and the index keeps the columns of open
rows apart, so two players of one character would have equal columns. That
alone does not show that the *claims* suffice: a failing command discards the
endings of revoked sessions, so a revoked rival could hide its claim from the
requester and only the index would stop the write. `RivalsAreOlder` excludes
this: whoever lost its character to a player signed in no later than that
player, so if the player's credentials are stale the loser's are too, and the
loser is expelled before it acts (`NoStaleRival`). Hence `IndexNeverRefuses`: with
no row at the exact boundary of the lease the index never aborts a transaction.

### PairingAuthProofs

For all sets of terminals, browsers, accounts, tokens and codes and any number
of credential changes, from `PairingAssumption` alone:

* `PairingInvariant`: `Spec => []PairingInv`, the inductive invariant.
* `ChallengeConfirmedOnce`, `SignedInByConfirmation`, `CodesLeadHome`: the three
  safety invariants of `pairing_safety`.
* `SignInTakesCurrentCredentials`: its action property.

The argument. Tokens only age and keep the terminal they were made for
(`TokensHaveHomes`). A link in Redis, or one a check has already read, is a
confirmation of a challenge of the same terminal (`LinksAreConfirmations`); it
stays true after the session is replaced since `confirmed` is never forgotten.
Confirmed challenges are used or gone (`ConfirmedAreUsed`) and the script only
accepts live ones, hence `ConfirmedOnce`. `SignedInAsConfirmed` needs in addition
that the token compared by the check is the one of the terminal's own row while
the transaction holds the lock (`TransactionInOrder`), and `CodeLeadsHome` that a
code is only reused when its token is gone.

### GameWorldProofs

For any rooms, prices, items and monsters and any number of characters, from
`WorldAssumption` and `WorldNull`:

* `WorldInvariant`: `Spec => []WorldInv`, the inductive invariant.
* `DeathIsFree`: the action property `DeathTakesNothing`.
* `ManifestNeverLost`: the action property `ManifestKept`.

The argument. The parts of `WorldInv` lean on each other: `DeadInHall` needs that
a hook or a potion never lifts health past its maximum (`TypeOK`) and that the
bell is set exactly with death; that a blow is a number within the monster's health
needs the worn weapon to be the only one (`WornIsCarried`); `OneManifest`
needs that no corpse holds one; and `ViewTrue`, that a session which has not lapsed
has a true copy of room and death, needs every command that moves, kills or raises
a character to bring the copy along, the hook that ends it included (`HookSees`,
`ReloadSees`, `ViewStep`). `Becomes` says once what a step may make of a
character, and `DeathIsFree` follows from it, from `PackStep`, in which nothing
moves for a character whose copy is dead or that dies in the step, and from
`ViewTrue`, by which only a copy that lapsed can say "alive" of the dead. For `ManifestNeverLost` only five actions
matter: what is taken is carried, what is dropped lies there, a potion is not a
manifest, a delivery leaves one in the docks, and a start only adds.

### GameAccountsProofs

On top of `WorldInvariant`, from the same assumptions:

* `CoinsAccounted`: the invariant `CoinAccounts`.
* `PacksBounded`: the invariant `PackBounded`.

The argument for coins is a ledger. `Owed` is the number of a character's purses on
corpses or rotted. Every step enters, for every character, one of six things
(`Entered`): nothing, a kill (one experience, one owed), a purse looted (one
owed less, its coin in hand), a fee, a delivery or a prize; `EveryStepEntered`
has a lemma for each kind of action, and `EntriesBalance` shows that each entry keeps the
equation. A purse that rots with its corpse, in whichever command deletes it,
moves from one summand of `Owed` to the other (`DecayKeepsAccount`), and because the
index refuses a corpse where one lies, a kill never overwrites a purse
(`KillOwes`).

The argument for packs. What a stock holds is counted as a set, one pair of item
and number for each unit of a row's quantity (`Units`), so that the sum of
quantities in the code is a cardinality. That a pack's units are a finite set
is part of what is shown. One more unit is one more element, fewer units are a
subset, and the units a sum adds map one to one into the units of what is added
(`OneMoreUnit`, `FewerUnits`, `SumUnits`). For *take all* the last stack taken (`LastItem`) had
room after all stacks before it, so the armful fits (`ArmfulFits`).

### AccountCredentialsProofs

For all sets of browsers, accounts and links, any limit and any number of
changes, from `CredentialAssumption` and `CredentialNulls`:

* `AccountInvariant`: `Spec => []AccountInv`, the inductive invariant.
* `OnlyKnowers`, `LimitKept`: the invariants `OutsidersLockedOut` and `CharacterLimit`.
* `ResetsAreCurrent`, `ChangesAreAuthorised`: the action properties; the second
  is about saved emails and passwords, not about characters.

The argument. `LagIsMarked` ties the history to versions: a link or request
marked as overtaken has a version strictly behind its account's, so the equality
in the `WHERE` of its update fails; it needs `OneUse`, since a grant taken twice
could be marked in one place and current in the other. `LocksHeld` says that the
count a request carries is the number of characters as long as it holds the row.
`RowChange` sums up what a step may do to an account.

### ScriptWorkflowProofs

For all users, scripts, sources, rooms, connections and bundles, from
`ScriptAssumption` and `ScriptNulls`:

* `ScriptInvariant`: `Spec => []ScriptInv`, the inductive invariant.
* `PrizePaidOnce`, `ApprovedIsReviewed`, `DraftsNotOverwritten`: `PaidOnce`,
  `ApprovedAsReviewed` and `NothingOverwritten`.

The argument. A revision number only goes up and is recorded with its source in
the same transaction, so it names one (`RevisionNamesSource`), and a number an
admin or an editor holds still names the source it named. A run in flight holds
the state row it read, and no second run has it (`EntriesTrue`), so what was paid
is exactly what the state says.

### Assumptions on constants

Besides sizes, the modules assume that their null values are not among the
values they stand beside (`WorldNull`, `CredentialNulls`, `ScriptNulls`), as
NULL, `redis.Nil` and `nil` are in the code. `WorldAssumption` has finitely many items and monsters, which are
rows of tables, and gives each item a place of its own in the order in which
*take all* reads the ground (`ORDER BY i.name, ri.item_id`, unique since the
identifier is). TLC evaluates every assumption.

### Only model-checked

Liveness, everywhere: `EveryLineHandled`, `OutputDelivered`, `HangupCompletes`,
`RevokedSessionEnds`, `VanishedPlayerReplaced`, `LinkSignsIn` and `NoSpiritHeld`. The
prover does not treat fairness or ENABLED. The three violations of section 6
are shown by TLC alone.

## 5. Not modelled

| Part | Why |
|---|---|
| Legacy gateway: sockets, draining, shutdown | replaced by edge and core; its commands are those of `GameWorld` and `ScriptWorkflow`; what is left are write deadlines and one goroutine per player |
| Accept loop and telnet negotiation of the edge | a counter and a filter of bytes in front of the goroutine that is modelled |
| The hub shared by two listeners in one process, scene diffs | a stateless core rebuilds its presence from rows (`CharacterLease`); the diffs choose lines of text |
| Core listener and switch | a socket under `flock` and an atomic rename: a model would assume what it shows |
| Schema migration | one transaction each, under an advisory lock: what remains is the order of files |
| Script sandbox | steps, memory and processes are bounded by the interpreter and the operating system; `ScriptWorkflow` has its outcomes |
| Event bus | nothing reads the events back, and a stateless core passes nil |
| Rate limits, form tokens, cookies and headers | per-request checks with expiring counters; no property modelled here depends on them |
| Renaming a character, who, where, help, inventory, announce | single reads or a single update, or text only |
| Presentation, configuration, models, release scripts | formatting, plain data, and tools outside the program |

Bytes are abstracted to chunks throughout, so how large an encoded answer may
become is not covered.

## 6. Findings

`docs/BLUE-GREEN-DEPLOYMENTS.md` line 61: "A character claimed elsewhere after
lease expiry must be selected again." A session whose character was claimed
while it was away is demoted only if the claimant still plays when it returns;
if the claimant has left, the session goes on playing without selecting
(`lease_reselect`). No property of the game breaks: the character still has one
player.

`docs/ALPHA-TESTERS.md` line 7: "Open the displayed pairing URL in your browser and
sign in. The terminal advances automatically". After `renew` the earlier token is
still alive, and the script links any live token of the session. If a page of
the earlier challenge is submitted after the displayed one was confirmed and
before the next poll, the session carries the earlier token, which the terminal
rightly refuses (`SignedInAsConfirmed`), while the displayed challenge is used
up: the terminal waits until the player renews again (`pairing_advance`). Nobody
is signed in wrongly.

`docs/WORLD-CONTENT.md` line 74: "The killing blow grants experience and creates
a killer-owned corpse for 30 minutes." A monster is back after five minutes by
default, while its corpse stays for thirty unless it is emptied. The next killing
blow inserts a second corpse, which the unique index `monster_corpses_active_npc`
refuses; `Attack` (`combat.go` line 129) returns the error and the blow is rolled
back, stamina and all, at every try until the first corpse is looted empty or
decays (`world_blow`). Only its owner can loot it, and one whose pack is full
cannot empty it. Nothing is lost or duplicated (`CoinAccounts`), but the monster
cannot be killed meanwhile.

`docs/WORLD-CONTENT.md` line 76: "The dead move to the Hall of Returning at 0 HP and
cannot leave or use ordinary gameplay commands." The gate (`server.go` line 620)
asks the copy of the character in the session's checkpoint. A session that lapsed
while its character lived, and that returns after the character died under
another session (the first finding), passes it until a command reads the character
back; `use`, `equip` and `unequip` do not look at the row themselves, so the
dead drink potions and change what they wear. No run of its own shows it, but it
is why the second part of `DeathTakesNothing` leaves such copies out: without
`view[c].dead \/ ~view[c].lapsed` TLC finds the property violated in the story of
the two visits, by a potion taken, a walk to the docks, a second session's selection
and fight, death, the first session's return and its `use`. They neither
leave the Hall nor gain coin or experience, since walking, fighting and looting
check the row and the rooms of deliveries and prizes are elsewhere
(`DeathTakesNothing` says what is left).
