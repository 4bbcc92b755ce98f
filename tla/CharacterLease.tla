---------------------------- MODULE CharacterLease ----------------------------
(***************************************************************************)
(* Who plays which character.  Any number of terminals send requests to    *)
(* interchangeable cores; a core keeps nothing between two requests.  Each *)
(* request is one transaction under the advisory lock: it rebuilds the     *)
(* players from the rows seen in the last two minutes, ends the sessions   *)
(* whose credentials changed, lets the requester keep or lose its          *)
(* character, runs its command and writes the rows it touched.             *)
(*                                                                         *)
(* Sequence numbers and output are TerminalProtocol's subject; here a      *)
(* request either executes one command or, a duplicate or an idle poll,    *)
(* executes none.                                                          *)
(***************************************************************************)
EXTENDS Naturals

CONSTANTS
  Sessions,    \* terminal session UUIDs
  Users,       \* accounts
  Characters,  \* characters
  OwnerOf,     \* the account of each character
  Rooms,       \* rooms a character can be in
  Home,        \* where every character is at first
  Lease,       \* two minutes, in clock ticks
  MaxVersion,  \* bound: credential changes of one account
  NoUser, NoChar, NoRoom

ASSUME LeaseAssumption ==
  /\ OwnerOf \in [Characters -> Users]
  /\ Home \in Rooms
  /\ Lease \in Nat \ {0} /\ MaxVersion \in Nat
  /\ NoUser \notin Users /\ NoChar \notin Characters /\ NoRoom \notin Rooms

VARIABLES
  rows,      \* terminal_sessions with the part of the checkpoint that matters
  age,       \* ticks since last_seen; Lease + 1 stands for anything longer
  version,   \* users.auth_version, bumped by the trigger of migration 008
  location,  \* characters.current_room_id
  dead,      \* sessions whose edge vanished without a close request
  bereft     \* history: sessions whose character another one has claimed since

vars == <<rows, age, version, location, dead, bereft>>

Row == [status : {"none", "open", "closed"},
        state  : {"login", "auth", "game"},
        user   : Users \cup {NoUser},
        grant  : 0..MaxVersion,
        char   : Characters \cup {NoChar},
        room   : Rooms \cup {NoRoom},
        column : Characters \cup {NoChar}]   \* character_id, under the unique index

NoRow == [status |-> "none", state |-> "login", user |-> NoUser, grant |-> 0,
          char |-> NoChar, room |-> NoRoom, column |-> NoChar]

TypeOK ==
  /\ rows \in [Sessions -> Row]
  /\ age \in [Sessions -> 0..(Lease + 1)]
  /\ version \in [Users -> 0..MaxVersion]
  /\ location \in [Characters -> Rooms]
  /\ dead \subseteq Sessions
  /\ bereft \subseteq Sessions

Init ==
  /\ rows = [s \in Sessions |-> NoRow]
  /\ age = [s \in Sessions |-> 0]
  /\ version = [u \in Users |-> 0]
  /\ location = [c \in Characters |-> Home]
  /\ dead = {}
  /\ bereft = {}

-----------------------------------------------------------------------------
(* What dispatch reads and decides before the command.                     *)

Open(x)   == rows[x].status = "open"
InGame(x) == Open(x) /\ rows[x].state = "game"

\* Fault: a lapsed session keeps its character.
ColumnKept(x) == rows[x].column

\* character_id after the release of leases older than two minutes.
Column(x) == IF age[x] > Lease THEN NoChar ELSE rows[x].column

\* The rows selected.  One exactly two minutes old is neither released nor
\* selected, both comparisons being strict.
Selected(s) == {x \in Sessions : Open(x) /\ age[x] < Lease} \cup {s}

\* Fault: sessions at the character menu are not looked at.
AuthenticInGame(row) == row.state = "game" => row.grant = version[row.user]

\* checkSession: the account is unchanged since the session signed in.
Authentic(row) ==
  row.state \in {"auth", "game"} => row.grant = version[row.user]

\* Faults: the requester is not looked at; only the character menu is.
ExpelledOthers(s) == {x \in Selected(s) \ {s} : Open(x) /\ ~Authentic(rows[x])}
ExpelledAtMenu(s) ==
  {x \in Selected(s) : Open(x) /\ rows[x].state = "auth" /\ ~Authentic(rows[x])}

Expelled(s) == {x \in Selected(s) : Open(x) /\ ~Authentic(rows[x])}

\* The other players, in the order-free form of the hub's claims.
Others(s) == {x \in Selected(s) \ {s} : InGame(x) /\ x \notin Expelled(s)}

\* "conflicting character ownership": dispatch gives up.
Conflict(s) ==
  \E x, y \in Others(s) : x # y /\ rows[x].char = rows[y].char

Claimed(s, c) == \E x \in Others(s) : rows[x].char = c

ClosedRow(row) == [row EXCEPT !.status = "closed"]

\* Fault: whoever played goes on playing.
ResumedUnasked(s) ==
  IF rows[s].status = "none" THEN [NoRow EXCEPT !.status = "open"]
  ELSE IF s \in Expelled(s) THEN ClosedRow(rows[s])
  ELSE rows[s]

\* The requester's row when the command starts: created, ended, demoted to
\* character selection because its character plays elsewhere, or as it was.
Resumed(s) ==
  IF rows[s].status = "none" THEN [NoRow EXCEPT !.status = "open"]
  ELSE IF s \in Expelled(s) THEN ClosedRow(rows[s])
  ELSE IF InGame(s) /\ Claimed(s, rows[s].char)
         THEN [rows[s] EXCEPT !.state = "auth", !.char = NoChar, !.room = NoRoom]
         ELSE rows[s]

-----------------------------------------------------------------------------
(* Commands, as functions of the requester's row.                          *)

Command == [op: {"idle", "fail", "quit", "close"}]
             \cup [op: {"signin"}, user: Users]
             \cup [op: {"select"}, char: Characters]
             \cup [op: {"move"}, room: Rooms]

\* Is the command one this row can execute?
Accepts(row, cmd) ==
  /\ cmd.op \in {"signin", "select", "move", "quit", "fail"} => row.status = "open"
  /\ cmd.op = "signin" => row.state = "login"
  /\ cmd.op = "select" => row.state = "auth" /\ OwnerOf[cmd.char] = row.user
  /\ cmd.op = "move"   => row.state = "game"

\* The row after the command.
Executed(s, row, cmd) ==
  IF cmd.op = "signin"
    THEN [row EXCEPT !.state = "auth", !.user = cmd.user, !.grant = version[cmd.user]]
  ELSE IF cmd.op = "select" /\ ~Claimed(s, cmd.char)
    THEN [row EXCEPT !.state = "game", !.char = cmd.char, !.room = location[cmd.char]]
  ELSE IF cmd.op = "move" THEN [row EXCEPT !.room = cmd.room]
  ELSE IF cmd.op \in {"quit", "close"} THEN ClosedRow(row)
  ELSE row

-----------------------------------------------------------------------------
(* The transaction.                                                        *)

\* character_id as the upsert of a touched row computes it.
Indexed(row) ==
  [row EXCEPT !.column = IF row.status = "open" /\ row.state = "game"
                           THEN row.char ELSE NoChar]

\* A command that fails is rolled back with the endings of other sessions that
\* came before it: only the requester's row is written.
Ended(s, cmd) == IF cmd.op = "fail" THEN {} ELSE Expelled(s)

\* Fault: a request that executes nothing only refreshes last_seen.
WrittenIfActive(s, cmd, heard, spilled) ==
  [x \in Sessions |->
     LET row == IF x # s THEN rows[x] ELSE Executed(s, Resumed(s), cmd)
     IN  IF x = s /\ cmd.op = "idle" /\ Open(s) THEN [rows[s] EXCEPT !.column = Column(s)]
         ELSE IF x \in spilled \cup (Ended(s, cmd) \ {s}) THEN Indexed(ClosedRow(row))
         ELSE IF x \in heard \cup {s} THEN Indexed(row)
         ELSE [row EXCEPT !.column = Column(x)]]

\* All rows after s's command: heard are the other players that got output,
\* spilled those of them, and perhaps s, whose outbox overflowed.
Written(s, cmd, heard, spilled) ==
  [x \in Sessions |->
     LET row == IF x = s THEN Executed(s, Resumed(s), cmd) ELSE rows[x]
     IN  IF x \in spilled \cup (Ended(s, cmd) \ {s}) THEN Indexed(ClosedRow(row))
         ELSE IF x \in heard \cup {s} THEN Indexed(row)
         ELSE [row EXCEPT !.column = Column(x)]]

\* The partial unique index terminal_character_owner.
IndexAccepts(table) ==
  \A x, y \in Sessions :
    /\ x # y
    /\ table[x].status = "open" /\ table[y].status = "open"
    /\ table[x].column # NoChar
    => table[x].column # table[y].column

\* Sessions that lose their character to s in this step without being told.
Displaced(s, table) ==
  {x \in Sessions \ {s} : /\ table[x].status = "open" /\ table[x].state = "game"
                          /\ table[s].status = "open" /\ table[s].state = "game"
                          /\ table[x].char = table[s].char}

Dispatch(s, cmd) ==
  /\ s \notin dead
  /\ cmd.op = "close" => rows[s].status # "none"
  /\ ~Conflict(s)
  /\ Accepts(Resumed(s), cmd)
  /\ \E heard \in SUBSET Others(s) : \E spilled \in SUBSET (heard \cup {s}) :
       LET table == Written(s, cmd, heard, spilled)
       IN  /\ cmd.op = "fail" => heard = {} \/ s \in spilled
           /\ IndexAccepts(table)
           /\ rows' = table
           /\ bereft' = (bereft \cup Displaced(s, table)) \ {s}
  /\ age' = [age EXCEPT ![s] = 0]
  /\ location' = IF cmd.op = "move"
                   THEN [location EXCEPT ![Resumed(s).char] = cmd.room]
                   ELSE location
  /\ UNCHANGED <<version, dead>>

-----------------------------------------------------------------------------
(* The world around the transaction.                                       *)

Tick ==
  /\ age' = [x \in Sessions |-> IF Open(x) /\ age[x] <= Lease THEN age[x] + 1 ELSE age[x]]
  /\ UNCHANGED <<rows, version, location, dead, bereft>>

\* A password, e-mail or activity change: the trigger bumps auth_version.
ChangeCredentials(u) ==
  /\ version[u] < MaxVersion
  /\ version' = [version EXCEPT ![u] = version[u] + 1]
  /\ UNCHANGED <<rows, age, location, dead, bereft>>

\* The edge host dies: no close request will ever come.
Vanish(s) ==
  /\ Open(s)
  /\ dead' = dead \cup {s}
  /\ UNCHANGED <<rows, age, version, location, bereft>>

Next ==
  \/ \E s \in Sessions, cmd \in Command : Dispatch(s, cmd)
  \/ Tick
  \/ \E u \in Users : ChangeCredentials(u)
  \/ \E s \in Sessions : Vanish(s)

Spec == Init /\ [][Next]_vars

-----------------------------------------------------------------------------
(* Properties.                                                             *)

\* A player as any core rebuilds them.
Player(x) == InGame(x) /\ age[x] < Lease

\* No character is played by two sessions at once, through lapses, returns,
\* demotions and core changes; dispatch's own conflict error cannot happen.
OnePlayerPerCharacter ==
  \A x, y \in Sessions : x # y /\ Player(x) /\ Player(y) => rows[x].char # rows[y].char

\* The column under the unique index is what the checkpoint says, for every
\* session within its lease.
IndexMirrorsPlay ==
  \A x \in Sessions :
    Open(x) /\ age[x] < Lease =>
      rows[x].column = IF rows[x].state = "game" THEN rows[x].char ELSE NoChar

\* Sessions that sign in carry their account's version at that moment, and play
\* only its characters.
GrantsBounded ==
  \A x \in Sessions :
    /\ Open(x) /\ rows[x].state \in {"auth", "game"} =>
         rows[x].user \in Users /\ rows[x].grant <= version[rows[x].user]
    /\ InGame(x) =>
         rows[x].char \in Characters /\ rows[x].user = OwnerOf[rows[x].char]

\* A session that lost its character to a player signed in no later than it.
RivalsAreOlder ==
  \A x, y \in Sessions :
    x # y /\ InGame(x) /\ Player(y) /\ rows[x].char = rows[y].char =>
      rows[x].grant <= rows[y].grant

\* The inductive invariant behind the properties above and below.
LeaseInv ==
  TypeOK /\ IndexMirrorsPlay /\ IndexAccepts(rows) /\ GrantsBounded /\ RivalsAreOlder

\* The index aborts no transaction, unless some row is exactly two minutes old.
IndexNeverRefuses ==
  (\A x \in Sessions : Open(x) => age[x] # Lease) =>
    \A s \in Sessions :
      ~Conflict(s) =>
        \A cmd \in Command :
          Accepts(Resumed(s), cmd) =>
            \A heard \in SUBSET Others(s) : IndexAccepts(Written(s, cmd, heard, {}))

\* A character moves only at the hands of a session that is signed in under
\* the current credentials of its owner and is its only player.
OnlyThePlayerMoves ==
  [][\A c \in Characters : location'[c] # location[c] =>
       \E s \in Sessions :
         /\ InGame(s) /\ rows[s].char = c
         /\ rows[s].user = OwnerOf[c] /\ rows[s].grant = version[OwnerOf[c]]
         /\ \A x \in Sessions \ {s} : Player(x) => rows[x].char # c
         /\ age'[s] = 0]_vars

\* The documentation: a character claimed elsewhere after the lease expired
\* must be selected again, so the first request of such a session finds it
\* out of the game.
ClaimedElsewhereIsReselected ==
  [][\A s \in bereft : (InGame(s) /\ age'[s] = 0) => ~(InGame(s))']_vars

-----------------------------------------------------------------------------
(* Liveness.                                                               *)

\* Selecting c without overflowing the outbox of s, which the edge empties.
Select(s, c) ==
  Dispatch(s, [op |-> "select", char |-> c]) /\ rows'[s].status = "open"

\* Time passes, every edge polls for its terminals, and a player at the
\* character menu keeps trying to select.
FairSpec ==
  /\ Spec /\ WF_vars(Tick)
  /\ \A s \in Sessions : WF_vars(Dispatch(s, [op |-> "idle"]))
  /\ \A s \in Sessions, c \in Characters : SF_vars(Select(s, c))

Choosing(s, c) ==
  Open(s) /\ s \notin dead /\ rows[s].state = "auth" /\ rows[s].user = OwnerOf[c]

PlayedAlive(c) == \E x \in Sessions \ dead : Player(x) /\ rows[x].char = c

\* A session whose account changed ends by itself, at its edge's next poll at
\* the latest, unless its edge is gone.
RevokedSessionEnds ==
  \A s \in Sessions :
    (Open(s) /\ ~Authentic(rows[s])) ~> (~Open(s) \/ s \in dead)

\* A character held by a terminal that vanished can be played again: whoever
\* keeps asking for it gets it, or somebody else alive does.
VanishedPlayerReplaced ==
  \A s \in Sessions, c \in Characters :
    Choosing(s, c) ~> (~Choosing(s, c) \/ PlayedAlive(c))

=============================================================================
