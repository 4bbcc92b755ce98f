------------------------- MODULE CharacterLeaseProofs -------------------------
(***************************************************************************)
(* For any sets of sessions, accounts and characters and any lease: the    *)
(* rows keep their types, the column under the unique index mirrors the    *)
(* checkpoint of every session within its lease, and so no character has   *)
(* two players.                                                            *)
(***************************************************************************)
EXTENDS CharacterLease, TLAPS

USE LeaseAssumption

(***************************************************************************)
(* The requester's row before and after its command.                       *)
(***************************************************************************)

Playing(row) == row.status = "open" /\ row.state = "game"

\* The row a command starts from is a row; if it plays, it is the stored row
\* of a session that played, is authentic and meets no rival claim.
LEMMA ResumedRow ==
  ASSUME TypeOK, NEW s \in Sessions
  PROVE  /\ Resumed(s) \in Row
         /\ Playing(Resumed(s)) => /\ Resumed(s) = rows[s]
                                   /\ InGame(s) /\ s \notin Expelled(s)
                                   /\ ~Claimed(s, rows[s].char)
         /\ Resumed(s).status = "open" /\ Resumed(s).state \in {"auth", "game"} =>
              /\ Open(s) /\ rows[s].state \in {"auth", "game"}
              /\ Resumed(s).user = rows[s].user /\ Resumed(s).grant = rows[s].grant
              /\ rows[s].grant = version[rows[s].user]
  <1>1. rows[s] \in Row
    BY DEF TypeOK
  <1>2. CASE rows[s].status = "none"
    BY <1>2 DEF Resumed, Playing, NoRow, Row
  <1>3. CASE rows[s].status # "none" /\ s \in Expelled(s)
    BY <1>1, <1>3 DEF Resumed, Playing, ClosedRow, Row
  <1>4. CASE rows[s].status # "none" /\ s \notin Expelled(s)
    BY <1>1, <1>4 DEF Resumed, Playing, Row, InGame, Open, Expelled, Selected, Authentic
  <1>5. QED BY <1>2, <1>3, <1>4

\* The row a command leaves is a row; if it plays, either it played before the
\* command, as the same character, or it has just selected one nobody claimed.
LEMMA ExecutedRow ==
  ASSUME TypeOK, NEW s \in Sessions, NEW cmd \in Command,
         NEW row \in Row, Accepts(row, cmd)
  PROVE  LET after == Executed(s, row, cmd)
         IN  /\ after \in Row
             /\ after.status = "open" /\ after.state \in {"auth", "game"} =>
                  \/ /\ after.user \in Users
                     /\ after.grant = version[after.user]
                  \/ /\ row.status = "open" /\ row.state \in {"auth", "game"}
                     /\ after.user = row.user /\ after.grant = row.grant
             /\ Playing(after) =>
                  \/ /\ Playing(row) /\ after.char = row.char
                     /\ after.user = row.user /\ after.grant = row.grant
                  \/ /\ row.status = "open" /\ row.state = "auth"
                     /\ cmd.op = "select" /\ after.char = cmd.char
                     /\ cmd.char \in Characters /\ ~Claimed(s, cmd.char)
                     /\ after.user = row.user /\ after.grant = row.grant
                     /\ row.user = OwnerOf[cmd.char]
  <1>1. CASE cmd.op = "signin"
    BY <1>1 DEF TypeOK, Executed, Playing, Accepts, Row, Command
  <1>2. CASE cmd.op = "select"
    BY <1>2 DEF TypeOK, Executed, Playing, Accepts, Row, Command
  <1>3. CASE cmd.op = "move"
    BY <1>3 DEF TypeOK, Executed, Playing, Accepts, Row, Command
  <1>4. CASE cmd.op \in {"idle", "fail", "quit", "close"}
    BY <1>4 DEF TypeOK, Executed, Playing, Accepts, Row, Command, ClosedRow
  <1>5. QED BY <1>1, <1>2, <1>3, <1>4 DEF Command

\* The written table is a table of rows.
LEMMA WrittenType ==
  ASSUME TypeOK, NEW s \in Sessions, NEW cmd \in Command,
         Accepts(Resumed(s), cmd), NEW heard, NEW spilled
  PROVE  Written(s, cmd, heard, spilled) \in [Sessions -> Row]
  <1>1. Executed(s, Resumed(s), cmd) \in Row
    BY ResumedRow, ExecutedRow
  <1>2. \A row \in Row : Indexed(row) \in Row /\ ClosedRow(row) \in Row
    BY DEF Indexed, ClosedRow, Row
  <1>3. \A x \in Sessions : rows[x] \in Row /\ [rows[x] EXCEPT !.column = Column(x)] \in Row
    BY DEF TypeOK, Row, Column
  <1> DEFINE row(x) == IF x = s THEN Executed(s, Resumed(s), cmd) ELSE rows[x]
  <1>4. \A x \in Sessions : row(x) \in Row /\ [row(x) EXCEPT !.column = Column(x)] \in Row
    <2>1. \A x \in Sessions : row(x) \in Row
      BY <1>1, <1>3
    <2>2. \A x \in Sessions : Column(x) \in Characters \cup {NoChar}
      BY DEF Column, TypeOK, Row
    <2>3. QED BY <2>1, <2>2 DEF Row
  <1>5. Written(s, cmd, heard, spilled) =
          [x \in Sessions |->
             IF x \in spilled \cup (Ended(s, cmd) \ {s}) THEN Indexed(ClosedRow(row(x)))
             ELSE IF x \in heard \cup {s} THEN Indexed(row(x))
             ELSE [row(x) EXCEPT !.column = Column(x)]]
    BY DEF Written
  <1> HIDE DEF row
  <1>6. QED BY <1>2, <1>4, <1>5

-----------------------------------------------------------------------------

(***************************************************************************)
(* Every reachable state is well typed.                                    *)
(***************************************************************************)
THEOREM TypeCorrect == Spec => []TypeOK
  <1>1. Init => TypeOK
    BY DEF Init, TypeOK, NoRow, Row
  <1>2. TypeOK /\ [Next]_vars => TypeOK'
    <2> SUFFICES ASSUME TypeOK, [Next]_vars PROVE TypeOK'
      OBVIOUS
    <2>1. ASSUME NEW s \in Sessions, NEW cmd \in Command, Dispatch(s, cmd) PROVE TypeOK'
      <3>1. rows' \in [Sessions -> Row]
        BY <2>1, WrittenType DEF Dispatch
      <3>2. location' \in [Characters -> Rooms]
        BY <2>1 DEF Dispatch, TypeOK, Command
      <3>3. bereft' \subseteq Sessions
        BY <2>1 DEF Dispatch, TypeOK, Displaced
      <3>4. age' \in [Sessions -> 0..(Lease + 1)] /\ version' = version /\ dead' = dead
        BY <2>1 DEF Dispatch, TypeOK
      <3>5. QED BY <3>1, <3>2, <3>3, <3>4 DEF TypeOK
    <2>2. CASE Tick
      BY <2>2 DEF Tick, TypeOK
    <2>3. ASSUME NEW u \in Users, ChangeCredentials(u) PROVE TypeOK'
      BY <2>3 DEF ChangeCredentials, TypeOK
    <2>4. ASSUME NEW s \in Sessions, Vanish(s) PROVE TypeOK'
      BY <2>4 DEF Vanish, TypeOK
    <2>5. CASE UNCHANGED vars
      BY <2>5 DEF vars, TypeOK
    <2>6. QED BY <2>1, <2>2, <2>3, <2>4, <2>5 DEF Next
  <1>3. QED BY <1>1, <1>2, PTL DEF Spec

-----------------------------------------------------------------------------

(***************************************************************************)
(* The inductive invariant.                                                *)
(***************************************************************************)

\* A state whose columns mirror play and are unique has one player per
\* character.
LEMMA MirrorGivesOnePlayer ==
  ASSUME TypeOK, IndexMirrorsPlay, IndexAccepts(rows), GrantsBounded
  PROVE  OnePlayerPerCharacter
  BY DEF OnePlayerPerCharacter, Player, InGame, Open, IndexMirrorsPlay, IndexAccepts,
         GrantsBounded

\* What a dispatch does to the row of another session: it may close it or
\* release its column, and leaves the rest alone.
LEMMA OtherRows ==
  ASSUME TypeOK, IndexMirrorsPlay, NEW s \in Sessions, NEW cmd \in Command,
         NEW heard \in SUBSET Others(s), NEW spilled \in SUBSET (heard \cup {s}),
         NEW x \in Sessions, x # s
  PROVE  LET after == Written(s, cmd, heard, spilled)[x]
         IN  /\ after.state = rows[x].state /\ after.char = rows[x].char
             /\ after.user = rows[x].user /\ after.grant = rows[x].grant
             /\ after.status = "open" =>
                  /\ Open(x) /\ after.column = Column(x)
                  /\ cmd.op = "fail" \/ x \notin Expelled(s)
  <1> DEFINE after == Written(s, cmd, heard, spilled)[x]
  <1>1. rows[x] \in Row
    BY DEF TypeOK
  <1>2. CASE x \in spilled \cup Ended(s, cmd)
    <2>1. after = Indexed(ClosedRow(rows[x]))
      BY <1>2 DEF Written
    <2>2. QED BY <2>1, <1>1 DEF Indexed, ClosedRow, Row
  <1>3. CASE x \notin spilled \cup Ended(s, cmd) /\ x \in heard
    <2>1. after = Indexed(rows[x])
      BY <1>3 DEF Written
    <2>2. InGame(x) /\ age[x] < Lease /\ age[x] \in Nat
      BY <1>3 DEF Others, Selected, InGame, Open, TypeOK
    <2>3. rows[x].column = rows[x].char /\ Column(x) = rows[x].column
      BY <2>2 DEF IndexMirrorsPlay, InGame, Open, Column
    <2>4. QED BY <2>1, <2>2, <2>3, <1>1, <1>3 DEF Indexed, Row, InGame, Open, Ended
  <1>4. CASE x \notin spilled \cup Ended(s, cmd) /\ x \notin heard
    <2>1. after = [rows[x] EXCEPT !.column = Column(x)]
      BY <1>4 DEF Written
    <2>2. QED BY <2>1, <1>1, <1>4 DEF Row, Open, Ended
  <1>5. QED BY <1>2, <1>3, <1>4

\* What a dispatch makes of the requester: its column mirrors its row, and if
\* it plays it is authentic, of the right account, and met no rival claim.
LEMMA RequesterRow ==
  ASSUME TypeOK, GrantsBounded, NEW s \in Sessions, NEW cmd \in Command,
         Accepts(Resumed(s), cmd), NEW heard, NEW spilled
  PROVE  LET after == Written(s, cmd, heard, spilled)[s]
         IN  /\ after.column = IF Playing(after) THEN after.char ELSE NoChar
             /\ after.state \in {"auth", "game"} /\ after.status = "open" =>
                  after.user \in Users /\ after.grant = version[after.user]
             /\ Playing(after) =>
                  /\ after.char \in Characters /\ after.user = OwnerOf[after.char]
                  /\ ~Claimed(s, after.char)
                  /\ \/ cmd.op = "select"
                     \/ /\ InGame(s) /\ s \notin Expelled(s)
                        /\ after.char = rows[s].char /\ after.grant = rows[s].grant
  <1> DEFINE r == Resumed(s)
             e == Executed(s, r, cmd)
             after == Written(s, cmd, heard, spilled)[s]
  <1>1. /\ r \in Row
        /\ Playing(r) => r = rows[s] /\ InGame(s) /\ s \notin Expelled(s)
                         /\ ~Claimed(s, rows[s].char)
        /\ r.status = "open" /\ r.state \in {"auth", "game"} =>
             /\ Open(s) /\ rows[s].state \in {"auth", "game"}
             /\ r.user = rows[s].user /\ r.grant = rows[s].grant
             /\ rows[s].grant = version[rows[s].user]
    BY ResumedRow
  <1>2. /\ e \in Row
        /\ e.status = "open" /\ e.state \in {"auth", "game"} =>
             \/ e.user \in Users /\ e.grant = version[e.user]
             \/ /\ r.status = "open" /\ r.state \in {"auth", "game"}
                /\ e.user = r.user /\ e.grant = r.grant
        /\ Playing(e) =>
             \/ /\ Playing(r) /\ e.char = r.char
                /\ e.user = r.user /\ e.grant = r.grant
             \/ /\ r.status = "open" /\ r.state = "auth"
                /\ cmd.op = "select" /\ e.char = cmd.char
                /\ cmd.char \in Characters /\ ~Claimed(s, cmd.char)
                /\ e.user = r.user /\ e.grant = r.grant
                /\ r.user = OwnerOf[cmd.char]
    BY <1>1, ExecutedRow
  <1>3. after = Indexed(e) \/ after = Indexed(ClosedRow(e))
    BY DEF Written
  <1>4. /\ after.status = "open" => e.status = "open"
        /\ after.state = e.state /\ after.user = e.user
        /\ after.grant = e.grant /\ after.char = e.char
        /\ after.column = IF Playing(after) THEN e.char ELSE NoChar
    BY <1>2, <1>3 DEF Indexed, ClosedRow, Row, Playing
  <1>5. Open(s) /\ rows[s].state \in {"auth", "game"} => rows[s].user \in Users
    BY DEF GrantsBounded
  <1>6. InGame(s) => rows[s].char \in Characters /\ rows[s].user = OwnerOf[rows[s].char]
    BY DEF GrantsBounded, InGame
  <1>7. after.column = IF Playing(after) THEN after.char ELSE NoChar
    BY <1>4
  <1>8. after.state \in {"auth", "game"} /\ after.status = "open" =>
          after.user \in Users /\ after.grant = version[after.user]
    BY <1>1, <1>2, <1>4, <1>5
  <1>9. ASSUME Playing(after)
        PROVE  /\ after.char \in Characters /\ after.user = OwnerOf[after.char]
               /\ ~Claimed(s, after.char)
               /\ \/ cmd.op = "select"
                  \/ /\ InGame(s) /\ s \notin Expelled(s)
                     /\ after.char = rows[s].char /\ after.grant = rows[s].grant
    BY <1>9, <1>1, <1>2, <1>4, <1>6 DEF Playing
  <1>10. QED BY <1>7, <1>8, <1>9

\* A dispatch preserves the invariant.
LEMMA DispatchInv ==
  ASSUME LeaseInv, TypeOK', NEW s \in Sessions, NEW cmd \in Command, Dispatch(s, cmd)
  PROVE  LeaseInv'
  <1> USE DEF LeaseInv
  <1>1. PICK heard \in SUBSET Others(s) : \E spilled \in SUBSET (heard \cup {s}) :
          /\ rows' = Written(s, cmd, heard, spilled)
          /\ IndexAccepts(Written(s, cmd, heard, spilled))
    BY DEF Dispatch
  <1>2. PICK spilled \in SUBSET (heard \cup {s}) :
          /\ rows' = Written(s, cmd, heard, spilled)
          /\ IndexAccepts(Written(s, cmd, heard, spilled))
    BY <1>1
  <1>3. /\ Accepts(Resumed(s), cmd)
        /\ age' = [age EXCEPT ![s] = 0]
        /\ version' = version
    BY DEF Dispatch
  <1>4. \A x \in Sessions \ {s} :
          /\ rows'[x].state = rows[x].state /\ rows'[x].char = rows[x].char
          /\ rows'[x].user = rows[x].user /\ rows'[x].grant = rows[x].grant
          /\ rows'[x].status = "open" =>
               /\ Open(x) /\ rows'[x].column = Column(x)
               /\ cmd.op = "fail" \/ x \notin Expelled(s)
    BY <1>2, OtherRows
  <1>5. /\ rows'[s].column = IF Playing(rows'[s]) THEN rows'[s].char ELSE NoChar
        /\ rows'[s].state \in {"auth", "game"} /\ rows'[s].status = "open" =>
             rows'[s].user \in Users /\ rows'[s].grant = version[rows'[s].user]
        /\ Playing(rows'[s]) =>
             rows'[s].char \in Characters /\ rows'[s].user = OwnerOf[rows'[s].char]
    BY <1>2, <1>3, RequesterRow
  <1>6. IndexAccepts(rows)'
    BY <1>2 DEF IndexAccepts
  <1>7. IndexMirrorsPlay'
    <2> SUFFICES ASSUME NEW x \in Sessions, Open(x)', (age[x] < Lease)'
                 PROVE  rows'[x].column = IF rows'[x].state = "game" THEN rows'[x].char ELSE NoChar
      BY DEF IndexMirrorsPlay
    <2>1. CASE x = s
      BY <2>1, <1>5 DEF Open, Playing
    <2>2. CASE x # s
      <3>1. Open(x) /\ age[x] < Lease /\ age[x] \in Nat
        BY <2>2, <1>3, <1>4 DEF Open, TypeOK
      <3>2. Column(x) = rows[x].column
        BY <3>1 DEF Column
      <3>3. QED BY <2>2, <3>1, <3>2, <1>4 DEF IndexMirrorsPlay, Open
    <2>3. QED BY <2>1, <2>2
  <1>8. GrantsBounded'
    <2> SUFFICES ASSUME NEW x \in Sessions
                 PROVE  /\ Open(x)' /\ rows'[x].state \in {"auth", "game"} =>
                             rows'[x].user \in Users /\ rows'[x].grant <= version[rows'[x].user]
                        /\ InGame(x)' =>
                             rows'[x].char \in Characters /\ rows'[x].user = OwnerOf[rows'[x].char]
      BY <1>3 DEF GrantsBounded
    <2>1. CASE x = s
      <3>1. \A u \in Users : version[u] \in Nat
        BY DEF TypeOK
      <3>2. QED BY <2>1, <3>1, <1>5 DEF Open, InGame, Playing
    <2>2. CASE x # s
      BY <2>2, <1>4 DEF GrantsBounded, Open, InGame
    <2>3. QED BY <2>1, <2>2
  <1>9. RivalsAreOlder'
    <2>1. OnePlayerPerCharacter'
      BY <1>6, <1>7, <1>8, MirrorGivesOnePlayer, PTL
    <2> SUFFICES ASSUME NEW x \in Sessions, NEW y \in Sessions, x # y,
                        InGame(x)', Player(y)', rows'[x].char = rows'[y].char
                 PROVE  rows'[x].grant <= rows'[y].grant
      BY DEF RivalsAreOlder
    <2>2. CASE x = s
      <3>1. Player(x)'
        BY <2>2, <1>3 DEF Player, TypeOK
      <3>2. QED BY <2>1, <3>1 DEF OnePlayerPerCharacter
    <2>3. CASE y = s
      <3>1. rows'[y].grant = version[rows'[y].user]
        BY <2>3, <1>5 DEF Player, InGame, Open
      <3>2. rows'[x].user = rows'[y].user
        BY <1>8 DEF GrantsBounded, Player
      <3>3. rows'[x].grant <= version[rows'[x].user]
        BY <1>3, <1>8 DEF GrantsBounded, InGame
      <3>4. QED BY <3>1, <3>2, <3>3
    <2>4. CASE x # s /\ y # s
      <3>1. InGame(x) /\ Player(y)
        BY <2>4, <1>3, <1>4 DEF InGame, Open, Player, TypeOK
      <3>2. QED BY <2>4, <3>1, <1>4 DEF RivalsAreOlder
    <2>5. QED BY <2>2, <2>3, <2>4
  <1>10. QED BY <1>6, <1>7, <1>8, <1>9

\* Time passing only takes sessions out of their lease.
LEMMA TickInv ==
  ASSUME LeaseInv, TypeOK', Tick
  PROVE  LeaseInv'
  <1> USE DEF LeaseInv
  <1>1. rows' = rows /\ version' = version
    BY DEF Tick
  <1>2. \A x \in Sessions : age'[x] < Lease => age[x] < Lease
    BY DEF Tick, TypeOK
  <1>3. IndexMirrorsPlay'
    BY <1>1, <1>2 DEF IndexMirrorsPlay, Open
  <1>4. IndexAccepts(rows)'
    BY <1>1 DEF IndexAccepts
  <1>5. GrantsBounded'
    BY <1>1 DEF GrantsBounded, InGame, Open
  <1>6. RivalsAreOlder'
    BY <1>1, <1>2 DEF RivalsAreOlder, Player, InGame, Open
  <1>7. QED BY <1>3, <1>4, <1>5, <1>6

\* A credential change only raises the version no grant exceeds.
LEMMA ChangeInv ==
  ASSUME LeaseInv, TypeOK', NEW u \in Users, ChangeCredentials(u)
  PROVE  LeaseInv'
  <1> USE DEF LeaseInv
  <1>1. rows' = rows /\ age' = age
    BY DEF ChangeCredentials
  <1>2. \A v \in Users : version[v] \in Nat /\ version'[v] \in Nat /\ version[v] <= version'[v]
    BY DEF ChangeCredentials, TypeOK
  <1>3. IndexMirrorsPlay' /\ IndexAccepts(rows)' /\ RivalsAreOlder'
    BY <1>1 DEF IndexMirrorsPlay, IndexAccepts, RivalsAreOlder, Player, InGame, Open
  <1>4. GrantsBounded'
    <2> SUFFICES ASSUME NEW x \in Sessions, Open(x)', rows'[x].state \in {"auth", "game"}
                 PROVE  rows'[x].user \in Users /\ rows'[x].grant <= version'[rows'[x].user]
      BY <1>1 DEF GrantsBounded, InGame, Open
    <2>1. rows[x].user \in Users /\ rows[x].grant <= version[rows[x].user]
      BY <1>1 DEF GrantsBounded, Open
    <2>2. rows[x].grant \in Nat
      BY DEF TypeOK, Row
    <2>3. QED BY <1>1, <1>2, <2>1, <2>2
  <1>5. QED BY <1>3, <1>4

(***************************************************************************)
(* The inductive invariant holds in every reachable state.                 *)
(***************************************************************************)
THEOREM LeaseInvariant == Spec => []LeaseInv
  <1>1. Init => LeaseInv
    <2> SUFFICES ASSUME Init PROVE LeaseInv
      OBVIOUS
    <2>1. TypeOK
      BY DEF Init, TypeOK, NoRow, Row
    <2>2. \A x \in Sessions : rows[x].status = "none"
      BY DEF Init, NoRow
    <2>3. QED BY <2>1, <2>2 DEF LeaseInv, IndexMirrorsPlay, IndexAccepts, GrantsBounded,
                                RivalsAreOlder, InGame, Open
  <1>2. LeaseInv /\ TypeOK' /\ [Next]_vars => LeaseInv'
    <2> SUFFICES ASSUME LeaseInv, TypeOK', [Next]_vars PROVE LeaseInv'
      OBVIOUS
    <2>1. ASSUME NEW s \in Sessions, NEW cmd \in Command, Dispatch(s, cmd) PROVE LeaseInv'
      BY <2>1, DispatchInv
    <2>2. CASE Tick
      BY <2>2, TickInv
    <2>3. ASSUME NEW u \in Users, ChangeCredentials(u) PROVE LeaseInv'
      BY <2>3, ChangeInv
    <2>4. CASE (\E s \in Sessions : Vanish(s)) \/ UNCHANGED vars
      <3>1. rows' = rows /\ age' = age /\ version' = version
        BY <2>4 DEF Vanish, vars
      <3>2. QED BY <3>1 DEF LeaseInv, IndexMirrorsPlay, IndexAccepts, GrantsBounded,
                            RivalsAreOlder, Player, InGame, Open
    <2>5. QED BY <2>1, <2>2, <2>3, <2>4 DEF Next
  <1>3. QED BY <1>1, <1>2, TypeCorrect, PTL DEF Spec

(***************************************************************************)
(* No character is ever played by two sessions.                            *)
(***************************************************************************)
THEOREM OnePlayer == Spec => []OnePlayerPerCharacter
  <1>1. LeaseInv => OnePlayerPerCharacter
    BY MirrorGivesOnePlayer DEF LeaseInv
  <1>2. QED BY <1>1, LeaseInvariant, PTL

(***************************************************************************)
(* Within its lease, a session's entry in the index is what it plays.      *)
(***************************************************************************)
THEOREM IndexMirrors == Spec => []IndexMirrorsPlay
  <1>1. LeaseInv => IndexMirrorsPlay
    BY DEF LeaseInv
  <1>2. QED BY <1>1, LeaseInvariant, PTL

(***************************************************************************)
(* A session whose character was claimed meanwhile signed in no later than *)
(* the claimant: if it is still authentic, so is its rival.                *)
(***************************************************************************)
THEOREM RivalsOlder == Spec => []RivalsAreOlder
  <1>1. LeaseInv => RivalsAreOlder
    BY DEF LeaseInv
  <1>2. QED BY <1>1, LeaseInvariant, PTL

-----------------------------------------------------------------------------

(***************************************************************************)
(* The database's guard is never what keeps the realm consistent.          *)
(***************************************************************************)

\* What a player that is authentic cannot meet: a rival the core is about to
\* end for stale credentials.
LEMMA NoStaleRival ==
  ASSUME LeaseInv, NEW s \in Sessions, NEW y \in Sessions, y # s,
         InGame(s), s \notin Expelled(s), Player(y), rows[y].char = rows[s].char
  PROVE  y \notin Expelled(s)
  <1>1. rows[s].grant = version[rows[s].user]
    BY DEF Expelled, Selected, InGame, Open, Authentic
  <1>2. rows[s].user = rows[y].user /\ rows[s].user \in Users
    BY DEF LeaseInv, GrantsBounded, Player, InGame
  <1>3. rows[s].grant <= rows[y].grant /\ rows[y].grant <= version[rows[y].user]
    BY DEF LeaseInv, RivalsAreOlder, GrantsBounded, Player, InGame
  <1>4. version[rows[s].user] \in Nat /\ rows[y].grant \in Nat
    BY <1>2 DEF LeaseInv, TypeOK, Row
  <1>5. rows[y].grant = version[rows[y].user]
    BY <1>1, <1>2, <1>3, <1>4
  <1>6. QED BY <1>5 DEF Expelled, Authentic

\* Two sessions in the index are the requester and a player it did not claim
\* against, or two others the index already held apart.
LEMMA IndexKept ==
  ASSUME LeaseInv, \A x \in Sessions : Open(x) => age[x] # Lease,
         NEW s \in Sessions, NEW cmd \in Command, Accepts(Resumed(s), cmd),
         NEW heard \in SUBSET Others(s)
  PROVE  IndexAccepts(Written(s, cmd, heard, {}))
  <1> DEFINE table == Written(s, cmd, heard, {})
  <1> USE DEF LeaseInv
  <1>1. \A x \in Sessions \ {s} :
          /\ table[x].char = rows[x].char
          /\ table[x].status = "open" =>
               /\ Open(x) /\ table[x].column = Column(x)
               /\ cmd.op = "fail" \/ x \notin Expelled(s)
    <2>1. {} \in SUBSET (heard \cup {s})
      OBVIOUS
    <2>2. ASSUME NEW x \in Sessions, x # s
          PROVE  /\ table[x].char = rows[x].char
                 /\ table[x].status = "open" =>
                      /\ Open(x) /\ table[x].column = Column(x)
                      /\ cmd.op = "fail" \/ x \notin Expelled(s)
      BY <2>1, <2>2, OtherRows
    <2>3. QED BY <2>2
  <1>2. /\ table[s].column = IF Playing(table[s]) THEN table[s].char ELSE NoChar
        /\ Playing(table[s]) =>
             /\ table[s].char \in Characters /\ ~Claimed(s, table[s].char)
             /\ \/ cmd.op = "select"
                \/ /\ InGame(s) /\ s \notin Expelled(s)
                   /\ table[s].char = rows[s].char
    BY RequesterRow
  <1> HIDE DEF table
  <1>3. ASSUME NEW y \in Sessions \ {s}, table[y].status = "open",
               Playing(table[s]), table[y].column = table[s].char
        PROVE  FALSE
    <2>1. Open(y) /\ Column(y) = table[s].char /\ Column(y) # NoChar
      BY <1>1, <1>2, <1>3
    <2>2. age[y] < Lease /\ rows[y].column = table[s].char
      BY <2>1 DEF Column, TypeOK
    <2>3. Player(y) /\ rows[y].char = table[s].char
      BY <2>1, <2>2 DEF IndexMirrorsPlay, Player, InGame, Open
    <2>4. y \in Expelled(s)
      BY <1>2, <1>3, <2>3 DEF Claimed, Others, Selected, Player, InGame
    <2>5. cmd.op = "fail"
      BY <1>1, <1>3, <2>4
    <2>6. QED BY <1>2, <1>3, <2>3, <2>4, <2>5, NoStaleRival
  <1>4. ASSUME NEW x \in Sessions \ {s}, NEW y \in Sessions \ {s}, x # y,
               table[x].status = "open", table[y].status = "open",
               table[x].column # NoChar
        PROVE  table[x].column # table[y].column
    <2>1. /\ Open(x) /\ Open(y) /\ rows[x].column # NoChar
          /\ table[x].column = rows[x].column
          /\ table[y].column = rows[y].column \/ table[y].column = NoChar
      BY <1>1, <1>4 DEF Column
    <2>2. QED BY <1>4, <2>1 DEF IndexAccepts, Open
  <1>5. QED BY <1>2, <1>3, <1>4 DEF IndexAccepts, table, Playing

(***************************************************************************)
(* Unless a row is exactly two minutes old, the unique index aborts no     *)
(* transaction: claims and releases already keep every write apart.        *)
(***************************************************************************)
THEOREM IndexAgrees == Spec => []IndexNeverRefuses
  <1>1. LeaseInv => IndexNeverRefuses
    BY IndexKept DEF IndexNeverRefuses
  <1>2. QED BY <1>1, LeaseInvariant, PTL

(***************************************************************************)
(* A character moves only at the hands of its one player, signed in under  *)
(* the owner's current credentials.                                        *)
(***************************************************************************)
THEOREM MovedByItsPlayer == Spec => OnlyThePlayerMoves
  <1> DEFINE Moved == \A c \in Characters : location'[c] # location[c] =>
                \E s \in Sessions :
                  /\ InGame(s) /\ rows[s].char = c
                  /\ rows[s].user = OwnerOf[c] /\ rows[s].grant = version[OwnerOf[c]]
                  /\ \A x \in Sessions \ {s} : Player(x) => rows[x].char # c
                  /\ age'[s] = 0
  <1>1. LeaseInv /\ [Next]_vars => [Moved]_vars
    <2> SUFFICES ASSUME LeaseInv, [Next]_vars PROVE Moved
      BY DEF Moved
    <2>1. ASSUME NEW s \in Sessions, NEW cmd \in Command, Dispatch(s, cmd) PROVE Moved
      <3>1. CASE cmd.op = "move"
        <4>1. Accepts(Resumed(s), cmd) /\ age' = [age EXCEPT ![s] = 0]
              /\ location' = [location EXCEPT ![Resumed(s).char] = cmd.room]
          BY <2>1, <3>1 DEF Dispatch
        <4>2. /\ Resumed(s) = rows[s] /\ InGame(s) /\ s \notin Expelled(s)
              /\ ~Claimed(s, rows[s].char)
          BY <3>1, <4>1, ResumedRow DEF Accepts, Playing, LeaseInv
        <4>3. rows[s].char \in Characters /\ rows[s].user = OwnerOf[rows[s].char]
          BY <4>2 DEF LeaseInv, GrantsBounded
        <4>4. rows[s].grant = version[rows[s].user]
          BY <4>2 DEF Expelled, Selected, InGame, Open, Authentic
        <4>5. \A x \in Sessions \ {s} : Player(x) => rows[x].char # rows[s].char
          BY <4>2, NoStaleRival DEF Claimed, Others, Selected, Player, InGame
        <4>6. age'[s] = 0
          BY <4>1 DEF LeaseInv, TypeOK
        <4>7. \A c \in Characters : location'[c] # location[c] => c = rows[s].char
          BY <4>1, <4>2, <4>3 DEF LeaseInv, TypeOK
        <4>8. QED BY <4>2, <4>3, <4>4, <4>5, <4>6, <4>7
      <3>2. CASE cmd.op # "move"
        BY <2>1, <3>2 DEF Dispatch
      <3>3. QED BY <3>1, <3>2
    <2>2. CASE ~(\E s \in Sessions, cmd \in Command : Dispatch(s, cmd))
      BY <2>2 DEF Next, Tick, ChangeCredentials, Vanish, vars
    <2>3. QED BY <2>1, <2>2
  <1>2. QED BY <1>1, LeaseInvariant, PTL DEF Spec, OnlyThePlayerMoves

=============================================================================
