------------------------------- MODULE GameWorld -------------------------------
(***************************************************************************)
(* What characters do to the world: walking, fighting, dying and coming    *)
(* back, looting, carrying, delivering and resting.  Each command is one   *)
(* database transaction (and, at a core, one dispatch), so each is one     *)
(* action, the room refresh and the script hook it ends with included.     *)
(* Between commands time passes: bells ring, monsters fall due to return,  *)
(* corpses decay; and a core may restart and place the starter items again.*)
(*                                                                         *)
(* A command reads two things that need not agree: the rows, and the copy  *)
(* of the character and its room that the session keeps in its checkpoint. *)
(* A session that lapsed keeps its copy while another one plays on, and    *)
(* plays from it when it returns (CharacterLease says when it may).        *)
(*                                                                         *)
(* Prices, purses and vital statistics are parameters; a purse is the same *)
(* for every corpse.  Of a script hook, only healing and the one-time      *)
(* prize of a finished trial are kept.                                     *)
(***************************************************************************)
EXTENDS Integers, FiniteSets, FiniteSetsExt

CONSTANTS
  Characters, Items, Foes, Rooms,
  Exits,        \* the rooms one can walk to from each room
  RoomType,     \* "normal", "dungeon", "inn" or "safe"
  Hall,         \* the Hall of Returning
  Square,       \* where the Town Crier stands
  Docks,        \* where the manifest washes up
  Shrine,       \* the room whose script pays a prize
  Lair,         \* the room of each monster
  ItemType,     \* "quest", "healing", "stamina", "weapon" or "armor"
  Bonus,        \* the number in the item's properties
  NameRank,     \* the place of an item in the order of the ground's rows: name, then id
  Manifest,     \* the one quest item
  Placements,   \* the pairs of a room and an item that a start places
  Capacity,     \* maxInventorySize
  MaxHealth, MaxStamina, Strength, AttackCost,
  FoeHealth, FoeAttack, FoeDefense,
  Drops,        \* what a corpse of the monster may hold besides coin
  Purse, Reward, Fee, Prize,
  HookHeals,    \* how much a script hook may heal
  Stories,      \* bound: what lies and lives where at first, and the budgets
  NoItem, NoCorpse

RoomTypes == {"normal", "dungeon", "inn", "safe"}
ItemTypes == {"quest", "healing", "stamina", "weapon", "armor"}

ASSUME WorldAssumption ==
  /\ Exits \in [Rooms -> SUBSET Rooms] /\ RoomType \in [Rooms -> RoomTypes]
  /\ {Hall, Square, Docks, Shrine} \subseteq Rooms
  /\ Hall \notin {Docks, Square, Shrine} /\ RoomType[Hall] = "safe"
  /\ Lair \in [Foes -> Rooms] /\ Placements \subseteq Rooms \X Items
  /\ ItemType \in [Items -> ItemTypes] /\ Bonus \in [Items -> Nat]
  /\ IsFiniteSet(Items) /\ NameRank \in [Items -> Nat]
  /\ \A i, j \in Items : NameRank[i] = NameRank[j] => i = j
  /\ Manifest \in Items /\ ItemType[Manifest] = "quest"
  /\ IsFiniteSet(Foes) /\ FoeHealth \in [Foes -> Nat \ {0}] /\ FoeAttack \in [Foes -> Nat]
  /\ FoeDefense \in [Foes -> Nat] /\ Drops \in [Foes -> SUBSET Items]
  /\ \A m \in Foes : Manifest \notin Drops[m]
  /\ {MaxHealth, MaxStamina, Capacity} \subseteq Nat \ {0}
  /\ {Strength, AttackCost, Purse, Reward, Fee, Prize} \subseteq Nat
  /\ HookHeals \subseteq Nat \ {0}
  /\ NoItem \notin Items
  /\ Stories \subseteq
       [ground : [Rooms -> [Items -> Nat]],
        foes   : SUBSET Foes,
        left   : [kills : Nat, errands : Nat, restarts : Nat, visits : Nat]]

VARIABLES
  hero,    \* rows of characters, with the resurrection clock
  pack,    \* inventory: quantity of each item
  worn,    \* inventory: the equipped items
  ground,  \* room_items: quantity of each item in each room
  foe,     \* npcs that are hostile
  corpse,  \* the row of monster_corpses that the unique index allows a monster
  books,   \* character_objectives, transactions and script_state
  lost,    \* history: purses that decayed with their corpse
  view,    \* terminal_sessions.checkpoint of the session that plays each character
  away,    \* the same of the lapsed sessions that may come back
  left     \* bound: kills, deliveries or prizes, restarts, and sessions still to come

sessions == <<view, away>>
vars == <<hero, pack, worn, ground, foe, corpse, books, lost, sessions, left>>

Hero == [room : Rooms, health : 0..MaxHealth, stamina : 0..MaxStamina,
         dead : BOOLEAN,
         bell : {"none", "waiting", "rung"},  \* resurrection_ready_at: NULL, ahead, past
         gold : Nat, experience : Nat]        \* one point for each kill

Corpse == [owner : Characters, coin : BOOLEAN,
           item : (Items \ {Manifest}) \cup {NoItem}, expired : BOOLEAN]

Stock == [Items -> Nat]

View == [room : Rooms, dead : BOOLEAN,   \* conn.Room, conn.Character.IsDead
         lapsed : BOOLEAN]               \* history: others may have played since

ASSUME WorldNull == NoCorpse \notin Corpse

TypeOK ==
  /\ hero \in [Characters -> Hero]
  /\ pack \in [Characters -> Stock] /\ worn \in [Characters -> SUBSET Items]
  /\ ground \in [Rooms -> Stock]
  /\ DOMAIN foe \subseteq Foes
  /\ foe \in [DOMAIN foe -> [health : Nat, due : BOOLEAN]]
  /\ \A m \in DOMAIN foe : foe[m].health <= FoeHealth[m]
  /\ corpse \in [Foes -> Corpse \cup {NoCorpse}]
  /\ books \in [Characters -> [deliveries : Nat, fees : Nat, prizes : Nat]]
  /\ lost \in [Characters -> Nat]
  /\ view \in [Characters -> View] /\ away \in [Characters -> SUBSET {v \in View : v.lapsed}]
  /\ left \in [kills : Nat, errands : Nat, restarts : Nat, visits : Nat]

Empty == [i \in Items |-> 0]

Init ==
  \E s \in Stories :
    /\ hero = [c \in Characters |->
                 [room |-> Square, health |-> MaxHealth, stamina |-> MaxStamina,
                  dead |-> FALSE, bell |-> "none", gold |-> 0, experience |-> 0]]
    /\ pack = [c \in Characters |-> Empty] /\ worn = [c \in Characters |-> {}]
    /\ ground = s.ground
    /\ foe = [m \in s.foes |-> [health |-> FoeHealth[m], due |-> FALSE]]
    /\ corpse = [m \in Foes |-> NoCorpse]
    /\ books = [c \in Characters |-> [deliveries |-> 0, fees |-> 0, prizes |-> 0]]
    /\ lost = [c \in Characters |-> 0]
    /\ view = [c \in Characters |-> [room |-> Square, dead |-> FALSE, lapsed |-> FALSE]]
    /\ away = [c \in Characters |-> {}]
    /\ left = s.left

-----------------------------------------------------------------------------
(* What commands have in common.                                           *)

Least(x, y) == IF x <= y THEN x ELSE y
Most(x, y)  == IF x >= y THEN x ELSE y

\* Fault: what the command wrote is not read back.
LoadedBefore(v, h) == v

\* LoadCharacter: a copy v as the row h corrects it; the room is not read again.
Loaded(v, h) == [v EXCEPT !.dead = h.dead]

Reload(c) == view' = [view EXCEPT ![c] = Loaded(@, hero'[c])]

\* The script hook that ends a command, the row being h and the copy v: it runs
\* where both agree on the room, for the dead as well, and healing reloads.
Hook(c, h, v) ==
  \/ hero' = [hero EXCEPT ![c] = h] /\ view' = [view EXCEPT ![c] = v]
  \/ /\ v.room = h.room
     /\ \E n \in HookHeals :
          hero' = [hero EXCEPT ![c] = [h EXCEPT !.health = Least(MaxHealth, h.health + n)]]
     /\ view' = [view EXCEPT ![c] = Loaded(v, h)]

\* The commands a dead character may not use: the copy decides who is dead.
Gate(c) == ~view[c].dead

\* requireCharacterInRoom: the copy knows where the character is.
InPlace(c) == view[c].room = hero[c].room

\* respawnNPCs: the monsters of a room that are due return at full health.
Respawned(npcs, r) ==
  [m \in DOMAIN npcs |->
     IF Lair[m] = r /\ npcs[m].health = 0 /\ npcs[m].due
       THEN [health |-> FoeHealth[m], due |-> FALSE] ELSE npcs[m]]

\* Every command that looks at corpses deletes the expired ones everywhere.
Decayed == {m \in Foes : corpse[m] # NoCorpse /\ corpse[m].expired}
Kept    == [m \in Foes |-> IF m \in Decayed THEN NoCorpse ELSE corpse[m]]

\* Purses that go with them.
LostPurses ==
  [c \in Characters |->
     lost[c] + Cardinality({m \in Decayed : corpse[m].owner = c /\ corpse[m].coin})]

\* sendLook.
Refresh(r) == foe' = Respawned(foe, r) /\ corpse' = Kept /\ lost' = LostPurses

\* The things of a stock, one for each unit of a row's quantity.
Units(stock) == UNION {{i} \X (1..stock[i]) : i \in Items}
Total(stock) == Cardinality(Units(stock))

Carried(c) == {i \in Items : pack[c][i] > 0}

-----------------------------------------------------------------------------
(* Looking, talking, walking, resting.                                     *)

Look(c) ==
  /\ Hook(c, hero[c], view[c])
  /\ Refresh(view[c].room)
  /\ UNCHANGED <<pack, worn, ground, books, away, left>>

\* say: the others hear it and the room's script may answer.
Say(c) ==
  /\ Hook(c, hero[c], view[c])
  /\ UNCHANGED <<pack, worn, ground, foe, corpse, books, lost, away, left>>

\* look <thing> only lists the monsters, as every poll does.
Examine(c) ==
  /\ foe' = Respawned(foe, view[c].room)
  /\ UNCHANGED <<hero, pack, worn, ground, corpse, books, lost, sessions, left>>

\* stats: the only command that does nothing but reload the copy.
Stats(c) ==
  /\ view' = [view EXCEPT ![c] = Loaded(@, hero[c])]
  /\ UNCHANGED <<hero, pack, worn, ground, foe, corpse, books, lost, away, left>>

\* talk: the monsters are listed to find whom, then a script may answer.
Talk(c) ==
  /\ Gate(c)
  /\ Hook(c, hero[c], view[c])
  /\ foe' = Respawned(foe, view[c].room)
  /\ UNCHANGED <<pack, worn, ground, corpse, books, lost, away, left>>

\* The exits are those of the row's room, wherever the copy is.
Move(c, r) ==
  /\ Gate(c) /\ ~hero[c].dead
  /\ r \in Exits[hero[c].room]
  /\ Hook(c, [hero[c] EXCEPT !.room = r, !.stamina = Most(0, @ - 1)], [view[c] EXCEPT !.room = r])
  /\ Refresh(r)
  /\ UNCHANGED <<pack, worn, ground, books, away, left>>

Rest(c) ==
  /\ Gate(c) /\ InPlace(c)
  /\ RoomType[hero[c].room] = "inn"
  /\ hero' = [hero EXCEPT ![c].health = MaxHealth, ![c].stamina = MaxStamina]
  /\ Reload(c)
  /\ UNCHANGED <<pack, worn, ground, foe, corpse, books, lost, away, left>>

\* A trial's script pays its prize and notes it, once for each character.
Answer(c) ==
  /\ Gate(c) /\ InPlace(c)
  /\ hero[c].room = Shrine /\ books[c].prizes = 0 /\ left.errands > 0
  /\ hero' = [hero EXCEPT ![c].gold = @ + Prize]
  /\ books' = [books EXCEPT ![c].prizes = 1]
  /\ left' = [left EXCEPT !.errands = @ - 1]
  /\ Reload(c)
  /\ UNCHANGED <<pack, worn, ground, foe, corpse, lost, away>>

-----------------------------------------------------------------------------
(* Fighting, looting, dying.                                               *)

\* The monsters an attacker finds: those of the room that were due are back.
Woken(c) == Respawned(foe, hero[c].room)

\* combatEquipment: the best equipped weapon, the best equipped armor.
Equipped(c, kind) == {Bonus[i] : i \in {j \in worn[c] \cap Carried(c) : ItemType[j] = kind}}
Blow(c, m) ==
  Least(Woken(c)[m].health, Most(1, Strength + Max(Equipped(c, "weapon") \cup {0}) - FoeDefense[m]))
Retaliation(c, m) == Least(hero[c].health, Most(1, FoeAttack[m] - Max(Equipped(c, "armor") \cup {0})))

\* An attack that none of the refusals stops.
MayStrike(c, m) ==
  /\ Gate(c) /\ InPlace(c) /\ m \in DOMAIN foe
  /\ ~hero[c].dead /\ hero[c].health > 0 /\ hero[c].stamina >= AttackCost
  /\ RoomType[hero[c].room] \in {"normal", "dungeon"}
  /\ Lair[m] = hero[c].room
  /\ Woken(c)[m].health > 0

Tired(c) == [hero[c] EXCEPT !.stamina = @ - AttackCost]

\* Fault: the corpse of the previous life is overwritten.
IndexAcceptsAnything(m) == TRUE

\* The unique index monster_corpses_active_npc, after the expired rows are gone.
IndexAccepts(m) == Kept[m] = NoCorpse

\* The killing blow.  When the index refuses the corpse the whole attack is
\* rolled back.
Kill(c, m) ==
  /\ MayStrike(c, m) /\ left.kills > 0
  /\ Blow(c, m) = Woken(c)[m].health
  /\ IndexAccepts(m)
  /\ hero' = [hero EXCEPT ![c] = [Tired(c) EXCEPT !.experience = @ + 1]]
  /\ foe' = [Woken(c) EXCEPT ![m] = [health |-> 0, due |-> FALSE]]
  /\ \E item \in Drops[m] \cup {NoItem} :
       corpse' = [Kept EXCEPT ![m] =
                    [owner |-> c, coin |-> TRUE, item |-> item, expired |-> FALSE]]
  /\ lost' = LostPurses
  /\ left' = [left EXCEPT !.kills = @ - 1]
  /\ Reload(c)
  /\ UNCHANGED <<pack, worn, ground, books, away>>

\* Fault: the dead are left where they fell.
FallenInPlace(h) == [h EXCEPT !.health = 0, !.dead = TRUE, !.bell = "waiting"]

\* A character struck down is carried to the Hall of Returning.
Fallen(h) == [h EXCEPT !.health = 0, !.dead = TRUE, !.bell = "waiting", !.room = Hall]

\* A round the monster survives: it strikes back.
Exchange(c, m) ==
  /\ MayStrike(c, m)
  /\ Blow(c, m) < Woken(c)[m].health
  /\ LET struck == [Woken(c) EXCEPT ![m] = [health |-> @.health - Blow(c, m), due |-> FALSE]]
         hurt   == [Tired(c) EXCEPT !.health = @ - Retaliation(c, m)]
     IN  IF hurt.health > 0
           THEN /\ hero' = [hero EXCEPT ![c] = hurt] /\ Reload(c)
                /\ foe' = struck /\ UNCHANGED <<corpse, lost>>
           ELSE /\ Hook(c, Fallen(hurt), [Loaded(view[c], Fallen(hurt)) EXCEPT !.room = Hall])
                /\ foe' = Respawned(struck, Hall)
                /\ corpse' = Kept /\ lost' = LostPurses
  /\ UNCHANGED <<pack, worn, ground, books, away, left>>

Risen(h) == [h EXCEPT !.dead = FALSE, !.bell = "none",
                      !.health = Most(1, MaxHealth \div 2), !.stamina = MaxStamina]

\* Fault: waiting for the bell needs a sign of life.
ResurrectIfHealed(c) ==
  /\ hero[c].dead /\ hero[c].room = Hall /\ hero[c].bell = "rung" /\ hero[c].health > 0
  /\ hero' = [hero EXCEPT ![c] = Risen(hero[c])]
  /\ Reload(c)
  /\ UNCHANGED <<pack, worn, ground, foe, corpse, books, lost, away, left>>

\* resurrect, after the slow bell.
Resurrect(c) ==
  /\ hero[c].dead /\ hero[c].room = Hall /\ hero[c].bell = "rung"
  /\ hero' = [hero EXCEPT ![c] = Risen(hero[c])]
  /\ Reload(c)
  /\ UNCHANGED <<pack, worn, ground, foe, corpse, books, lost, away, left>>

\* resurrect pay.
ResurrectPay(c) ==
  /\ hero[c].dead /\ hero[c].room = Hall /\ hero[c].gold >= Fee
  /\ hero' = [hero EXCEPT ![c] = [Risen(hero[c]) EXCEPT !.gold = @ - Fee]]
  /\ books' = [books EXCEPT ![c].fees = @ + 1]
  /\ Reload(c)
  /\ UNCHANGED <<pack, worn, ground, foe, corpse, lost, away, left>>

\* The owner loots: coin at once, the item if the pack has room for it.
Loot(c, m) ==
  /\ Gate(c) /\ InPlace(c) /\ ~hero[c].dead
  /\ Kept[m] # NoCorpse
  /\ Lair[m] = hero[c].room /\ corpse[m].owner = c
  /\ LET body  == corpse[m]
         takes == body.item # NoItem /\ Total(pack[c]) < Capacity
     IN  /\ hero' = [hero EXCEPT ![c].gold = @ + IF body.coin THEN Purse ELSE 0]
         /\ pack' = IF takes THEN [pack EXCEPT ![c][body.item] = @ + 1] ELSE pack
         /\ corpse' = [Kept EXCEPT ![m] =
                         IF takes \/ body.item = NoItem THEN NoCorpse
                         ELSE [body EXCEPT !.coin = FALSE]]
  /\ lost' = LostPurses
  /\ Reload(c)
  /\ UNCHANGED <<worn, ground, foe, books, away, left>>

-----------------------------------------------------------------------------
(* Things: taking, dropping, using, equipping, delivering.                 *)

Stored(c, i)    == [pack EXCEPT ![c][i] = @ + 1]
Removed(c, i)   == [pack EXCEPT ![c][i] = @ - 1]
\* An inventory row that goes takes its equipped flag along.
StillWorn(c, i) == [worn EXCEPT ![c] = IF pack[c][i] = 1 THEN @ \ {i} ELSE @]

Take(c, i) ==
  LET r == hero[c].room
  IN  /\ Gate(c) /\ InPlace(c)
      /\ ground[r][i] > 0
      /\ Total(pack[c]) < Capacity
      /\ ItemType[i] = "quest" => pack[c][i] = 0
      /\ ground' = [ground EXCEPT ![r][i] = @ - 1]
      /\ pack' = Stored(c, i)
      /\ UNCHANGED <<hero, worn, foe, corpse, books, lost, sessions, left>>

\* Fault: the pack's room is counted once, not after each stack.
ArmfulTooMuch(c, r, armful) ==
  \A i \in Items :
    LET space == Capacity - Total(pack[c])
    IN  armful[i] =
          IF space <= 0 \/ ground[r][i] = 0 THEN 0
          ELSE IF ItemType[i] = "quest" THEN (IF pack[c][i] > 0 THEN 0 ELSE 1)
          ELSE Least(ground[r][i], space)

\* take all: what goes of each stack, the stacks taken in order of name.
Armful(c, r, armful) ==
  \A i \in Items :
    LET before == {u \in Units(armful) : NameRank[u[1]] < NameRank[i]}
        space  == Capacity - Total(pack[c]) - Cardinality(before)
    IN  armful[i] =
          IF space <= 0 \/ ground[r][i] = 0 THEN 0
          ELSE IF ItemType[i] = "quest" THEN (IF pack[c][i] > 0 THEN 0 ELSE 1)
          ELSE Least(ground[r][i], space)

TakeAll(c) ==
  LET r == hero[c].room
  IN  /\ Gate(c) /\ InPlace(c)
      /\ \E armful \in [Items -> 0..Capacity] :
           /\ Armful(c, r, armful)
           /\ pack' = [pack EXCEPT ![c] = [i \in Items |-> @[i] + armful[i]]]
           /\ ground' = [ground EXCEPT ![r] = [i \in Items |-> @[i] - armful[i]]]
      /\ UNCHANGED <<hero, worn, foe, corpse, books, lost, sessions, left>>

Drop(c, i) ==
  /\ Gate(c) /\ InPlace(c)
  /\ pack[c][i] > 0 /\ i \notin worn[c]
  /\ pack' = Removed(c, i)
  /\ ground' = [ground EXCEPT ![hero[c].room][i] = @ + 1]
  /\ UNCHANGED <<hero, worn, foe, corpse, books, lost, sessions, left>>

\* What using i makes of a character.
Used(h, i) ==
  IF ItemType[i] = "healing" THEN [h EXCEPT !.health = Least(MaxHealth, h.health + Bonus[i])]
  ELSE [h EXCEPT !.stamina = Least(MaxStamina, h.stamina + Bonus[i])]

\* use: the item's script may handle it; else a potion is drunk.  Drinking and
\* wearing ask neither the row nor the room.
UseScripted(c, i) ==
  /\ Gate(c) /\ pack[c][i] > 0
  /\ Hook(c, hero[c], view[c])
  /\ UNCHANGED <<pack, worn, ground, foe, corpse, books, lost, away, left>>

Use(c, i) ==
  /\ Gate(c) /\ pack[c][i] > 0 /\ ItemType[i] \in {"healing", "stamina"}
  /\ hero' = [hero EXCEPT ![c] = Used(hero[c], i)]
  /\ pack' = Removed(c, i) /\ worn' = StillWorn(c, i)
  /\ Reload(c)
  /\ UNCHANGED <<ground, foe, corpse, books, lost, away, left>>

Equip(c, i) ==
  /\ Gate(c) /\ pack[c][i] > 0 /\ ItemType[i] \in {"weapon", "armor"}
  /\ i \notin worn[c]
  /\ worn' = [worn EXCEPT ![c] = {j \in @ : ItemType[j] # ItemType[i]} \cup {i}]
  /\ UNCHANGED <<hero, pack, ground, foe, corpse, books, lost, sessions, left>>

Unequip(c, i) ==
  /\ Gate(c) /\ i \in worn[c]
  /\ worn' = [worn EXCEPT ![c] = @ \ {i}]
  /\ UNCHANGED <<hero, pack, ground, foe, corpse, books, lost, sessions, left>>

\* Fault: the manifest does not wash up again.
WashedUpNowhere(stock) == stock

\* The docks hold exactly one manifest after a delivery, whatever lay there.
WashedUp(stock) == [stock EXCEPT ![Docks][Manifest] = 1]

\* give: the Town Crier takes the manifest, pays, and it washes up again.
Give(c) ==
  /\ Gate(c) /\ InPlace(c) /\ left.errands > 0
  /\ hero[c].room = Square /\ pack[c][Manifest] > 0
  /\ pack' = [pack EXCEPT ![c][Manifest] = 0]
  /\ worn' = [worn EXCEPT ![c] = @ \ {Manifest}]
  /\ hero' = [hero EXCEPT ![c].gold = @ + Reward, ![c].stamina = Least(MaxStamina, @ + 20)]
  /\ books' = [books EXCEPT ![c].deliveries = @ + 1]
  /\ ground' = WashedUp(ground)
  /\ foe' = Respawned(foe, Square)
  /\ left' = [left EXCEPT !.errands = @ - 1]
  /\ Reload(c)
  /\ UNCHANGED <<corpse, lost, away>>

-----------------------------------------------------------------------------
(* Sessions.                                                               *)

\* The session that played c has quit, or has lapsed and may come back.
Leaves(c) == away' \in {away, [away EXCEPT ![c] = @ \cup {[view[c] EXCEPT !.lapsed = TRUE]}]}

\* Another session chooses c: its copy is the row.
Select(c) ==
  /\ left.visits > 0
  /\ Hook(c, hero[c], [room |-> hero[c].room, dead |-> hero[c].dead, lapsed |-> FALSE])
  /\ Leaves(c)
  /\ Refresh(hero[c].room)
  /\ left' = [left EXCEPT !.visits = @ - 1]
  /\ UNCHANGED <<pack, worn, ground, books>>

\* A lapsed session, or one of several with the same copy, claims c again and
\* plays on from its copy.
Return(c) ==
  /\ left.visits > 0
  /\ \E v \in away[c] : view' = [view EXCEPT ![c] = v]
  /\ Leaves(c)
  /\ left' = [left EXCEPT !.visits = @ - 1]
  /\ UNCHANGED <<hero, pack, worn, ground, foe, corpse, books, lost>>

-----------------------------------------------------------------------------
(* Time and restarts.                                                      *)

\* Ten minutes after a death.
RingBell(c) ==
  /\ hero[c].bell = "waiting"
  /\ hero' = [hero EXCEPT ![c].bell = "rung"]
  /\ UNCHANGED <<pack, worn, ground, foe, corpse, books, lost, sessions, left>>

\* respawn_at passes.
FallDue(m) ==
  /\ m \in DOMAIN foe /\ foe[m].health = 0 /\ ~foe[m].due
  /\ foe' = [foe EXCEPT ![m].due = TRUE]
  /\ UNCHANGED <<hero, pack, worn, ground, corpse, books, lost, sessions, left>>

\* Half an hour after a kill.
Decay(m) ==
  /\ corpse[m] # NoCorpse /\ ~corpse[m].expired
  /\ corpse' = [corpse EXCEPT ![m].expired = TRUE]
  /\ UNCHANGED <<hero, pack, worn, ground, foe, books, lost, sessions, left>>

\* A core starts: EnsureStarterWorld places what is missing from its place.
Restart ==
  /\ left.restarts > 0
  /\ ground' = [r \in Rooms |-> [i \in Items |->
                  IF <<r, i>> \in Placements /\ ground[r][i] = 0 THEN 1 ELSE ground[r][i]]]
  /\ left' = [left EXCEPT !.restarts = @ - 1]
  /\ UNCHANGED <<hero, pack, worn, foe, corpse, books, lost, sessions>>

Act(c) ==
  \/ Look(c) \/ Say(c) \/ Examine(c) \/ Stats(c) \/ Talk(c) \/ Rest(c) \/ Answer(c)
  \/ \E r \in Rooms : Move(c, r)
  \/ \E m \in Foes : Kill(c, m) \/ Exchange(c, m) \/ Loot(c, m)
  \/ Resurrect(c) \/ ResurrectPay(c)
  \/ TakeAll(c) \/ Give(c)
  \/ \E i \in Items :
       \/ Take(c, i) \/ Drop(c, i) \/ UseScripted(c, i) \/ Use(c, i)
       \/ Equip(c, i) \/ Unequip(c, i)

Next ==
  \/ \E c \in Characters : Act(c) \/ Select(c) \/ Return(c) \/ RingBell(c)
  \/ \E m \in Foes : FallDue(m) \/ Decay(m)
  \/ Restart

Spec == Init /\ [][Next]_vars

\* The bell rings in time, and the dead keep asking.
FairSpec ==
  Spec /\ \A c \in Characters : WF_vars(RingBell(c)) /\ WF_vars(Resurrect(c))

-----------------------------------------------------------------------------
(* Properties.                                                             *)

\* Whoever has no health is dead, and the dead stay in the Hall with the bell
\* set: no order of blows, potions, healing scripts and walks leaves a
\* character that can neither act nor resurrect.
DeadInHall ==
  \A c \in Characters :
    /\ hero[c].health = 0 => hero[c].dead
    /\ hero[c].dead => hero[c].room = Hall
    /\ hero[c].dead <=> hero[c].bell # "none"

\* Corpses that still hold the purse of c.
Purses(c) == {m \in Foes : corpse[m] # NoCorpse /\ corpse[m].owner = c /\ corpse[m].coin}

\* Every coin is accounted for: what a character holds, spent, left on its
\* corpses or let rot is exactly what its kills, deliveries and trials earned.
\* No purse is looted twice, overwritten by a later corpse or paid to another.
CoinAccounts ==
  \A c \in Characters :
    hero[c].gold + Fee * books[c].fees + Purse * (Cardinality(Purses(c)) + lost[c])
      = Purse * hero[c].experience + Reward * books[c].deliveries + Prize * books[c].prizes

\* What is equipped is carried, and at most one item of a type is.
WornIsCarried ==
  \A c \in Characters :
    /\ worn[c] \subseteq Carried(c)
    /\ \A i, j \in worn[c] : ItemType[i] = ItemType[j] => i = j

\* Nobody carries two manifests.
OneManifest == \A c \in Characters : pack[c][Manifest] <= 1

\* A session that has played on since it chose its character holds a true copy:
\* no command writes the row's room or death and leaves the copy behind.
ViewTrue ==
  \A c \in Characters :
    ~view[c].lapsed => InPlace(c) /\ view[c].dead = hero[c].dead

WorldInv == TypeOK /\ DeadInHall /\ WornIsCarried /\ OneManifest /\ ViewTrue

\* No pack exceeds its capacity, however it was filled.
PackBounded == \A c \in Characters : Total(pack[c]) <= Capacity

\* The manifest of the delivery quest never leaves the world, however it is
\* taken, dropped, delivered or placed again.
InWorld == \/ \E r \in Rooms : ground[r][Manifest] > 0
           \/ \E c \in Characters : pack[c][Manifest] > 0
ManifestKept == [][InWorld => InWorld']_vars

Keeps(c) == pack'[c] = pack[c] /\ worn'[c] = worn[c]
StaysInHall(c) ==
  /\ hero'[c].room = hero[c].room /\ hero'[c].experience = hero[c].experience
  /\ hero'[c].gold # hero[c].gold => ~hero'[c].dead
DiesFreely(c) ==
  Keeps(c) /\ hero'[c].gold = hero[c].gold /\ hero'[c].experience = hero[c].experience

\* Dying takes no item, coin or experience; the dead neither leave nor gain, and
\* pay only to live; and nothing they carry or wear changes, unless the session
\* that plays them came back from a lapse with a copy in which they live.
DeathTakesNothing ==
  [][\A c \in Characters :
       /\ hero[c].dead => StaysInHall(c)
       /\ hero[c].dead /\ (view[c].dead \/ ~view[c].lapsed) => Keeps(c)
       /\ hero'[c].dead /\ ~hero[c].dead => DiesFreely(c)]_vars

\* "No spirit is held here forever": the dead come back, coin or no coin.
NoSpiritHeld == \A c \in Characters : hero[c].dead ~> ~hero[c].dead

\* "The killing blow grants experience and creates a killer-owned corpse": a
\* blow that none of the refusals stops and that takes the last health is
\* accepted.
KillingBlowLands ==
  \A c \in Characters, m \in Foes :
    (MayStrike(c, m) /\ Blow(c, m) = Woken(c)[m].health) => IndexAccepts(m)

=============================================================================
