---------------------------- MODULE GameWorldProofs ----------------------------
(***************************************************************************)
(* For any world, any prices and any number of characters, items and       *)
(* monsters: the dead are in the Hall with the bell set and keep what they *)
(* have, what is worn is carried, nobody carries two manifests and the     *)
(* manifest never leaves the world.                                        *)
(***************************************************************************)
EXTENDS GameWorld, TLAPS, FiniteSetTheorems

(***************************************************************************)
(* The constants, by topic.                                                *)
(***************************************************************************)

LEMMA Numbers ==
  /\ MaxHealth \in Nat \ {0} /\ MaxStamina \in Nat \ {0} /\ Capacity \in Nat \ {0}
  /\ Strength \in Nat /\ AttackCost \in Nat /\ Purse \in Nat /\ Reward \in Nat
  /\ Fee \in Nat /\ Prize \in Nat
  /\ MaxHealth \in 0..MaxHealth /\ MaxStamina \in 0..MaxStamina
  /\ HookHeals \subseteq Nat
  BY WorldAssumption

LEMMA Monsters ==
  ASSUME NEW m \in Foes
  PROVE  /\ FoeHealth[m] \in Nat \ {0} /\ FoeAttack[m] \in Nat /\ FoeDefense[m] \in Nat
         /\ Drops[m] \subseteq Items \ {Manifest} /\ Lair[m] \in Rooms
  BY WorldAssumption

LEMMA Things ==
  /\ Manifest \in Items /\ ItemType[Manifest] = "quest" /\ NoItem \notin Items
  /\ \A i \in Items : Bonus[i] \in Nat /\ ItemType[i] \in ItemTypes
  BY WorldAssumption

LEMMA Places ==
  /\ Hall \in Rooms /\ Square \in Rooms /\ Docks \in Rooms
  /\ Hall # Docks /\ Hall # Square /\ Hall # Shrine
  /\ RoomType[Hall] = "safe"
  BY WorldAssumption

(***************************************************************************)
(* Small numbers.                                                          *)
(***************************************************************************)

LEMMA LeastMost ==
  ASSUME NEW x \in Int, NEW y \in Int
  PROVE  /\ Least(x, y) \in {x, y} /\ Least(x, y) <= x /\ Least(x, y) <= y
         /\ Most(x, y) \in {x, y} /\ Most(x, y) >= x /\ Most(x, y) >= y
  BY DEF Least, Most

LEMMA MaxIn ==
  ASSUME NEW T, \E x \in T : \A y \in T : x >= y
  PROVE  Max(T) \in T
  <1>1. (CHOOSE x \in T : \A y \in T : x >= y) \in T
    BY Zenon
  <1>2. QED BY <1>1 DEF Max

\* The best of at most one bonus and none.
LEMMA MaxOfOne ==
  ASSUME NEW S, S \subseteq Nat, \A x, y \in S : x = y
  PROVE  Max(S \cup {0}) \in Nat
  <1>1. \E x \in S \cup {0} : \A y \in S \cup {0} : x >= y
    <2>1. CASE S = {}
      BY <2>1
    <2>2. CASE S # {}
      <3>1. PICK x \in S : TRUE
        BY <2>2
      <3>2. x \in Nat /\ \A y \in S \cup {0} : x >= y
        BY <3>1
      <3>3. QED BY <3>1, <3>2
    <2>3. QED BY <2>1, <2>2
  <1>2. Max(S \cup {0}) \in S \cup {0}
    BY <1>1, MaxIn
  <1>3. S \cup {0} \subseteq Nat
    OBVIOUS
  <1>4. QED BY <1>2, <1>3, Zenon

LEMMA BestEquipped ==
  ASSUME WornIsCarried, NEW c \in Characters, NEW kind
  PROVE  Max(Equipped(c, kind) \cup {0}) \in Nat
  <1>1. worn[c] \subseteq Items /\ \A i, j \in worn[c] : ItemType[i] = ItemType[j] => i = j
    BY DEF WornIsCarried, Carried
  <1>2. Equipped(c, kind) \subseteq Nat
    BY <1>1, Things DEF Equipped
  <1>3. \A x, y \in Equipped(c, kind) : x = y
    BY <1>1 DEF Equipped
  <1>4. QED BY <1>2, <1>3, MaxOfOne

(***************************************************************************)
(* Characters.                                                             *)
(***************************************************************************)

\* What every character is.
Sound(h) ==
  /\ h \in Hero
  /\ h.health = 0 => h.dead
  /\ h.dead => h.room = Hall
  /\ h.dead <=> h.bell # "none"

\* What a step may make of g, dead or alive.
Becomes(g, h) ==
  /\ Sound(h)
  /\ g.dead => /\ h.room = g.room /\ h.experience = g.experience
               /\ h.gold # g.gold => ~h.dead
  /\ h.dead /\ ~g.dead => h.gold = g.gold /\ h.experience = g.experience

LEMMA HeroParts ==
  ASSUME NEW h \in Hero
  PROVE  /\ h.room \in Rooms /\ h.health \in 0..MaxHealth /\ h.stamina \in 0..MaxStamina
         /\ h.health \in Nat /\ h.stamina \in Nat
         /\ h.dead \in BOOLEAN /\ h.bell \in {"none", "waiting", "rung"}
         /\ h.gold \in Nat /\ h.experience \in Nat
  BY DEF Hero

\* Characters with another health, or one more kill.
LEMMA HeroUpdates ==
  ASSUME NEW h \in Hero, NEW x \in 0..MaxHealth, NEW n \in Nat
  PROVE  /\ [h EXCEPT !.health = x] \in Hero /\ [h EXCEPT !.health = x].health = x
         /\ [h EXCEPT !.health = x].dead = h.dead /\ [h EXCEPT !.health = x].bell = h.bell
         /\ [h EXCEPT !.health = x].gold = h.gold
         /\ [h EXCEPT !.health = x].experience = h.experience
         /\ [h EXCEPT !.experience = n] \in Hero
         /\ [h EXCEPT !.experience = n].dead = h.dead /\ [h EXCEPT !.experience = n].bell = h.bell
         /\ [h EXCEPT !.experience = n].health = h.health
  BY DEF Hero

LEMMA FallenHero ==
  ASSUME NEW h \in Hero
  PROVE  /\ Fallen(h) \in Hero /\ Fallen(h).dead = TRUE /\ Fallen(h).room = Hall
         /\ Fallen(h).bell = "waiting" /\ Fallen(h).gold = h.gold
         /\ Fallen(h).experience = h.experience
  <1>1. Fallen(h) = [h EXCEPT !.health = 0, !.dead = TRUE, !.bell = "waiting", !.room = Hall]
    BY DEF Fallen
  <1>2. Hall \in Rooms /\ 0 \in 0..MaxHealth
    BY Places, Numbers
  <1>3. QED BY <1>1, <1>2 DEF Hero

\* What a script hook may make of a character.
AfterHook(h) ==
  {h} \cup {[h EXCEPT !.health = Least(MaxHealth, h.health + n)] : n \in HookHeals}

LEMMA HookHero ==
  ASSUME NEW c, NEW h, NEW v, Hook(c, h, v)
  PROVE  \E g \in AfterHook(h) : hero' = [hero EXCEPT ![c] = g]
  <1>1. CASE hero' = [hero EXCEPT ![c] = h]
    BY <1>1 DEF AfterHook
  <1>2. ASSUME NEW n \in HookHeals,
               hero' = [hero EXCEPT ![c] = [h EXCEPT !.health = Least(MaxHealth, h.health + n)]]
        PROVE  \E g \in AfterHook(h) : hero' = [hero EXCEPT ![c] = g]
    BY <1>2 DEF AfterHook
  <1>3. QED BY <1>1, <1>2 DEF Hook

LEMMA HookKeeps ==
  ASSUME NEW h \in Hero, NEW g \in AfterHook(h)
  PROVE  /\ g \in Hero /\ g.room = h.room /\ g.dead = h.dead /\ g.bell = h.bell
         /\ g.gold = h.gold /\ g.experience = h.experience
         /\ g.health = 0 => h.health = 0
  <1>1. CASE g = h
    BY <1>1
  <1>2. ASSUME NEW n \in HookHeals, g = [h EXCEPT !.health = Least(MaxHealth, h.health + n)]
        PROVE  /\ g \in Hero /\ g.room = h.room /\ g.dead = h.dead /\ g.bell = h.bell
               /\ g.gold = h.gold /\ g.experience = h.experience
               /\ g.health = 0 => h.health = 0
    <2>1. h.health \in Nat /\ n \in Nat /\ MaxHealth \in Nat \ {0}
      BY HeroParts, Numbers
    <2> DEFINE x == Least(MaxHealth, h.health + n)
    <2>2. x \in 0..MaxHealth /\ (x = 0 => h.health = 0)
      BY <2>1 DEF Least
    <2> HIDE DEF x
    <2>3. QED BY <1>2, <2>2 DEF Hero, x
  <1>3. QED BY <1>1, <1>2 DEF AfterHook

LEMMA HookBecomes ==
  ASSUME NEW g, NEW h, Becomes(g, h), NEW k \in AfterHook(h)
  PROVE  Becomes(g, k)
  BY HookKeeps DEF Becomes, Sound

LEMMA SoundHero ==
  ASSUME TypeOK, DeadInHall, NEW c \in Characters
  PROVE  Sound(hero[c]) /\ Becomes(hero[c], hero[c])
  BY DEF TypeOK, DeadInHall, Sound, Becomes

\* Risen characters.
LEMMA RisenBecomes ==
  ASSUME NEW g, Sound(g), NEW gold \in Nat
  PROVE  /\ Becomes(g, Risen(g)) /\ Risen(g) \in Hero /\ ~Risen(g).dead
         /\ Becomes(g, [Risen(g) EXCEPT !.gold = gold])
         /\ Risen(g).gold = g.gold
  <1> DEFINE x == Most(1, MaxHealth \div 2)
  <1>1. x \in 1..MaxHealth /\ x \in 0..MaxHealth
    BY Numbers DEF Most
  <1>2. g \in Hero /\ g.room \in Rooms /\ MaxStamina \in 0..MaxStamina
    BY HeroParts, Numbers DEF Sound
  <1>3. Risen(g) = [g EXCEPT !.dead = FALSE, !.bell = "none", !.health = x, !.stamina = MaxStamina]
    BY DEF Risen
  <1> HIDE DEF x
  <1>4. Risen(g) \in Hero /\ Risen(g).health = x /\ Risen(g).dead = FALSE /\ Risen(g).bell = "none"
          /\ Risen(g).room = g.room /\ Risen(g).gold = g.gold /\ Risen(g).experience = g.experience
    BY <1>1, <1>2, <1>3 DEF Hero
  <1> DEFINE k == [Risen(g) EXCEPT !.gold = gold]
  <1>5. k \in Hero /\ k.health = x /\ k.dead = FALSE /\ k.bell = "none"
          /\ k.room = g.room /\ k.experience = g.experience
    BY <1>4 DEF Hero
  <1> HIDE DEF k
  <1>6. x # 0
    BY <1>1
  <1>7. Becomes(g, Risen(g)) /\ Becomes(g, k)
    BY <1>4, <1>5, <1>6 DEF Becomes, Sound
  <1>8. QED BY <1>4, <1>7 DEF k

\* A living character with other numbers, health left, is sound.
LEMMA LivingBecomes ==
  ASSUME NEW g, Sound(g), ~g.dead, NEW h \in Hero, h.dead = g.dead, h.bell = g.bell, h.health # 0
  PROVE  Becomes(g, h)
  BY DEF Becomes, Sound

\* A character with other numbers, whose health does not run out, is as sound.
LEMMA SameBecomes ==
  ASSUME NEW g, Sound(g), NEW h \in Hero, h.dead = g.dead, h.bell = g.bell, h.room = g.room,
         h.gold = g.gold, h.experience = g.experience, h.health = 0 => g.health = 0
  PROVE  Becomes(g, h)
  BY DEF Becomes, Sound

LEMMA HeroStep ==
  ASSUME TypeOK, DeadInHall, WornIsCarried, Next
  PROVE  hero' = hero \/ \E c \in Characters, h \in Hero :
           hero' = [hero EXCEPT ![c] = h] /\ Becomes(hero[c], h)
  <1> DEFINE Goal == \E c \in Characters, h \in Hero :
                       hero' = [hero EXCEPT ![c] = h] /\ Becomes(hero[c], h)
  <1>1. ASSUME NEW c \in Characters, NEW h, Becomes(hero[c], h), hero' = [hero EXCEPT ![c] = h]
        PROVE  Goal
    BY <1>1 DEF Becomes, Sound
  <1>2. \A c \in Characters : /\ hero[c] \in Hero /\ Sound(hero[c]) /\ Becomes(hero[c], hero[c])
                              /\ (~hero[c].dead => hero[c].health # 0)
                              /\ (hero[c].dead => hero[c].room = Hall)
    BY SoundHero DEF Sound
  <1> HIDE DEF Goal
  <1>3. ASSUME NEW c \in Characters,
               Look(c) \/ Say(c) \/ Talk(c) \/ Select(c) \/ \E i \in Items : UseScripted(c, i)
        PROVE  Goal
    <2>1. PICK h \in AfterHook(hero[c]) : hero' = [hero EXCEPT ![c] = h]
      BY <1>3, HookHero DEF Look, Say, Talk, Select, UseScripted
    <2>2. QED BY <1>1, <1>2, <2>1, HookBecomes
  <1>4. ASSUME NEW c \in Characters, NEW r \in Rooms, Move(c, r)
        PROVE  Goal
    <2> DEFINE x == Most(0, hero[c].stamina - 1)
               g == [hero[c] EXCEPT !.room = r, !.stamina = x]
    <2>1. hero[c].stamina \in 0..MaxStamina /\ hero[c] \in Hero /\ ~hero[c].dead
      BY <1>2, <1>4, HeroParts DEF Move
    <2>2. x \in 0..MaxStamina
      BY <2>1, Numbers DEF Most
    <2>3. PICK h \in AfterHook(g) : hero' = [hero EXCEPT ![c] = h]
      BY <1>4, HookHero DEF Move
    <2> HIDE DEF x
    <2>4. g \in Hero /\ g.dead = hero[c].dead /\ g.bell = hero[c].bell /\ g.health = hero[c].health
      BY <2>1, <2>2 DEF Hero
    <2> HIDE DEF g
    <2>5. Becomes(hero[c], g)
      BY <1>2, <2>1, <2>4, LivingBecomes
    <2>6. QED BY <1>1, <2>3, <2>5, HookBecomes
  <1>5. ASSUME NEW c \in Characters, Rest(c)
        PROVE  Goal
    <2> DEFINE g == [hero[c] EXCEPT !.health = MaxHealth, !.stamina = MaxStamina]
    <2>1. hero[c] \in Hero /\ ~hero[c].dead
      BY <1>2, <1>5, Places DEF Rest
    <2>2. g \in Hero /\ g.dead = hero[c].dead /\ g.bell = hero[c].bell /\ g.health # 0
      BY <2>1, Numbers DEF Hero
    <2>3. hero' = [hero EXCEPT ![c] = g]
      BY <1>5 DEF Rest, TypeOK
    <2> HIDE DEF g
    <2>4. QED BY <1>1, <1>2, <2>1, <2>2, <2>3, LivingBecomes
  <1>6. ASSUME NEW c \in Characters, NEW n \in Nat, ~hero[c].dead,
               hero' = [hero EXCEPT ![c].gold = @ + n]
        PROVE  Goal
    <2> DEFINE g == [hero[c] EXCEPT !.gold = @ + n]
    <2>1. hero[c] \in Hero /\ hero[c].gold \in Nat
      BY <1>2, HeroParts
    <2>2. g \in Hero /\ g.dead = hero[c].dead /\ g.bell = hero[c].bell /\ g.health = hero[c].health
      BY <2>1 DEF Hero
    <2>3. hero' = [hero EXCEPT ![c] = g]
      BY <1>6 DEF TypeOK
    <2> HIDE DEF g
    <2>4. QED BY <1>1, <1>2, <1>6, <2>2, <2>3, LivingBecomes
  <1>7. ASSUME NEW c \in Characters, Answer(c) \/ \E m \in Foes : Loot(c, m)
        PROVE  Goal
    <2>1. CASE Answer(c)
      BY <1>2, <1>6, <2>1, Numbers, Places DEF Answer
    <2>2. ASSUME NEW m \in Foes, Loot(c, m)
          PROVE  Goal
      <3> DEFINE n == IF corpse[m].coin THEN Purse ELSE 0
      <3>1. n \in Nat
        BY Numbers
      <3>2. hero' = [hero EXCEPT ![c].gold = @ + n] /\ ~hero[c].dead
        BY <2>2 DEF Loot
      <3> HIDE DEF n
      <3>3. QED BY <1>6, <3>1, <3>2
    <2>3. QED BY <1>7, <2>1, <2>2
  <1>8. ASSUME NEW c \in Characters, Give(c)
        PROVE  Goal
    <2> DEFINE x == Least(MaxStamina, hero[c].stamina + 20)
               g == [hero[c] EXCEPT !.gold = @ + Reward, !.stamina = x]
    <2>1. hero[c] \in Hero /\ hero[c].gold \in Nat /\ hero[c].stamina \in Nat /\ ~hero[c].dead
      BY <1>2, <1>8, HeroParts, Places DEF Give
    <2>2. x \in 0..MaxStamina /\ hero[c].gold + Reward \in Nat
      BY <2>1, Numbers DEF Least
    <2>3. hero' = [hero EXCEPT ![c] = g]
      BY <1>8, <2>1 DEF Give, TypeOK, Hero
    <2> HIDE DEF x
    <2>4. g \in Hero /\ g.dead = hero[c].dead /\ g.bell = hero[c].bell /\ g.health = hero[c].health
      BY <2>1, <2>2 DEF Hero
    <2> HIDE DEF g
    <2>5. QED BY <1>1, <1>2, <2>1, <2>3, <2>4, LivingBecomes
  <1>9. ASSUME NEW c \in Characters, NEW i \in Items, Use(c, i)
        PROVE  Goal
    <2> DEFINE g == Used(hero[c], i)
    <2>1. hero[c] \in Hero /\ hero[c].health \in Nat /\ hero[c].stamina \in Nat /\ Bonus[i] \in Nat
      BY <1>2, <1>9, HeroParts, Things DEF Use
    <2>2. /\ Least(MaxHealth, hero[c].health + Bonus[i]) \in 0..MaxHealth
          /\ Least(MaxHealth, hero[c].health + Bonus[i]) = 0 => hero[c].health = 0
          /\ Least(MaxStamina, hero[c].stamina + Bonus[i]) \in 0..MaxStamina
      <3>1. ASSUME NEW x \in Nat, NEW n \in Nat, NEW M \in Nat
            PROVE  Least(M, x + n) \in 0..M /\ (M # 0 /\ Least(M, x + n) = 0 => x = 0)
        BY <3>1 DEF Least
      <3>2. QED BY <2>1, <3>1, Numbers
    <2>3. g \in Hero /\ g.dead = hero[c].dead /\ g.bell = hero[c].bell /\ g.room = hero[c].room
            /\ g.gold = hero[c].gold /\ g.experience = hero[c].experience
            /\ (g.health = 0 => hero[c].health = 0)
      <3>1. CASE ItemType[i] = "healing"
        BY <2>1, <2>2, <3>1 DEF Used, Hero
      <3>2. CASE ItemType[i] # "healing"
        BY <2>1, <2>2, <3>2 DEF Used, Hero
      <3>3. QED BY <3>1, <3>2
    <2>4. hero' = [hero EXCEPT ![c] = g]
      BY <1>9 DEF Use
    <2> HIDE DEF g
    <2>5. QED BY <1>1, <1>2, <2>3, <2>4, SameBecomes
  <1>10. ASSUME NEW c \in Characters, NEW m \in Foes, MayStrike(c, m)
         PROVE  /\ hero[c] \in Hero /\ ~hero[c].dead /\ hero[c].health \in Nat
                /\ Tired(c) \in Hero /\ Tired(c).dead = FALSE /\ Tired(c).bell = hero[c].bell
                /\ Tired(c).health = hero[c].health /\ Tired(c).gold = hero[c].gold
                /\ Tired(c).experience = hero[c].experience /\ Tired(c).room = hero[c].room
    <2>1. hero[c] \in Hero /\ hero[c].stamina \in 0..MaxStamina /\ ~hero[c].dead
            /\ hero[c].health \in Nat /\ hero[c].stamina >= AttackCost /\ hero[c].dead \in BOOLEAN
      BY <1>2, <1>10, HeroParts DEF MayStrike
    <2>2. hero[c].stamina - AttackCost \in 0..MaxStamina
      BY <2>1, Numbers
    <2>3. QED BY <2>1, <2>2 DEF Tired, Hero
  <1>11. ASSUME NEW c \in Characters, NEW m \in Foes, Kill(c, m)
         PROVE  Goal
    <2> DEFINE g == [Tired(c) EXCEPT !.experience = @ + 1]
    <2>1. MayStrike(c, m) /\ hero' = [hero EXCEPT ![c] = g]
      BY <1>11 DEF Kill
    <2>2. g \in Hero /\ g.dead = FALSE /\ g.bell = hero[c].bell /\ g.health = hero[c].health
      <3>1. Tired(c) \in Hero /\ Tired(c).experience + 1 \in Nat /\ 0 \in 0..MaxHealth
        <4>1. Tired(c) \in Hero
          BY <1>10, <2>1
        <4>2. Tired(c).experience \in Nat
          BY <4>1, HeroParts
        <4>3. QED BY <4>1, <4>2, Numbers
      <3>2. /\ [Tired(c) EXCEPT !.experience = Tired(c).experience + 1] \in Hero
            /\ [Tired(c) EXCEPT !.experience = Tired(c).experience + 1].dead = Tired(c).dead
            /\ [Tired(c) EXCEPT !.experience = Tired(c).experience + 1].bell = Tired(c).bell
            /\ [Tired(c) EXCEPT !.experience = Tired(c).experience + 1].health = Tired(c).health
        BY <3>1, HeroUpdates
      <3>3. QED BY <1>10, <2>1, <3>2
    <2> HIDE DEF g
    <2>3. ~hero[c].dead /\ hero[c].dead = FALSE
      BY <1>10, <1>2, <2>1, HeroParts
    <2>4. QED BY <1>1, <1>2, <2>1, <2>2, <2>3, LivingBecomes
  <1>12. ASSUME NEW c \in Characters, NEW m \in Foes, Exchange(c, m)
         PROVE  Goal
    <2> DEFINE hit  == Retaliation(c, m)
               hurt == [Tired(c) EXCEPT !.health = @ - hit]
    <2>1. MayStrike(c, m)
      BY <1>12 DEF Exchange
    <2>2. hit \in 0..hero[c].health
      <3>1. Max(Equipped(c, "armor") \cup {0}) \in Nat
        BY BestEquipped
      <3>2. FoeAttack[m] \in Nat /\ hero[c].health \in Nat
        BY <1>10, <2>1, Monsters
      <3>3. QED BY <3>1, <3>2 DEF Retaliation, Least, Most
    <2> HIDE DEF hit
    <2>3. hurt \in Hero /\ hurt.dead = FALSE /\ hurt.bell = hero[c].bell
            /\ hurt.gold = hero[c].gold /\ hurt.experience = hero[c].experience
            /\ hurt.health \in Nat
      <3>1. hero[c].health \in 0..MaxHealth /\ hero[c].health - hit \in 0..MaxHealth
        <4>1. hero[c] \in Hero
          BY <1>2
        <4>2. hero[c].health \in 0..MaxHealth
          BY <4>1, HeroParts
        <4>3. QED BY <2>2, <4>2, Numbers
      <3>2. hurt = [Tired(c) EXCEPT !.health = hero[c].health - hit] /\ Tired(c) \in Hero
        BY <1>10, <2>1
      <3> DEFINE rest == hero[c].health - hit
      <3>3. rest \in 0..MaxHealth /\ hurt = [Tired(c) EXCEPT !.health = rest] /\ Tired(c) \in Hero
        BY <3>1, <3>2
      <3> HIDE DEF rest, hurt
      <3>4. /\ hurt \in Hero /\ hurt.health = rest
            /\ hurt.dead = Tired(c).dead /\ hurt.bell = Tired(c).bell
            /\ hurt.gold = Tired(c).gold /\ hurt.experience = Tired(c).experience
        BY <3>3, HeroUpdates
      <3>5. rest \in Nat
        BY <3>3, Numbers
      <3>6. QED BY <1>10, <2>1, <3>4, <3>5
    <2>4. hero[c].dead = FALSE
      BY <1>10, <1>2, <2>1, HeroParts
    <2>5. CASE hurt.health > 0
      <3>1. hero' = [hero EXCEPT ![c] = hurt]
        BY <1>12, <2>5 DEF Exchange, hit
      <3> HIDE DEF hurt
      <3>2. Becomes(hero[c], hurt)
        <4>1. Sound(hero[c]) /\ ~hero[c].dead /\ hurt.health # 0
          BY <1>2, <2>3, <2>4, <2>5
        <4>2. QED BY <2>3, <2>4, <4>1, LivingBecomes
      <3>3. QED BY <1>1, <3>1, <3>2
    <2>6. CASE ~(hurt.health > 0)
      <3>1. PICK h \in AfterHook(Fallen(hurt)) : hero' = [hero EXCEPT ![c] = h]
        <4>1. \E v : Hook(c, Fallen(hurt), v)
          BY <1>12, <2>6 DEF Exchange, hit
        <4>2. QED BY <4>1, HookHero
      <3> HIDE DEF hurt
      <3>2. Fallen(hurt) \in Hero /\ Fallen(hurt).dead = TRUE /\ Fallen(hurt).room = Hall
              /\ Fallen(hurt).bell = "waiting" /\ Fallen(hurt).gold = hero[c].gold
              /\ Fallen(hurt).experience = hero[c].experience
        BY <2>3, FallenHero
      <3>3. Becomes(hero[c], Fallen(hurt))
        BY <2>4, <3>2 DEF Becomes, Sound
      <3>4. QED BY <1>1, <3>1, <3>3, HookBecomes
    <2>7. QED BY <2>5, <2>6
  <1>13. ASSUME NEW c \in Characters, Resurrect(c)
         PROVE  Goal
    <2>1. Becomes(hero[c], Risen(hero[c]))
      BY <1>2, RisenBecomes
    <2>2. QED BY <1>1, <1>13, <2>1 DEF Resurrect
  <1>14. ASSUME NEW c \in Characters, ResurrectPay(c)
         PROVE  Goal
    <2>1. hero[c].gold - Fee \in Nat
      BY <1>2, <1>14, HeroParts, Numbers DEF ResurrectPay
    <2>2. hero' = [hero EXCEPT ![c] = [Risen(hero[c]) EXCEPT !.gold = hero[c].gold - Fee]]
      BY <1>2, <1>14, RisenBecomes DEF ResurrectPay
    <2>3. QED BY <1>1, <1>2, <2>1, <2>2, RisenBecomes
  <1>15. ASSUME NEW c \in Characters, RingBell(c)
         PROVE  Goal
    <2> DEFINE g == [hero[c] EXCEPT !.bell = "rung"]
    <2>1. hero' = [hero EXCEPT ![c] = g] /\ hero[c].bell = "waiting"
      BY <1>15 DEF RingBell, TypeOK
    <2>2. g \in Hero /\ g.dead = hero[c].dead /\ g.bell = "rung" /\ g.health = hero[c].health
            /\ g.room = hero[c].room /\ g.gold = hero[c].gold /\ g.experience = hero[c].experience
      BY <1>2 DEF Hero
    <2> HIDE DEF g
    <2>3. Becomes(hero[c], g)
      BY <1>2, <2>1, <2>2 DEF Becomes, Sound
    <2>4. QED BY <1>1, <2>1, <2>3
  <1>16. \A c \in Characters :
           Examine(c) \/ Stats(c) \/ Return(c) \/ TakeAll(c)
             \/ (\E i \in Items : Take(c, i) \/ Drop(c, i) \/ Equip(c, i) \/ Unequip(c, i)) => hero' = hero
    BY DEF Examine, Stats, Return, TakeAll, Take, Drop, Equip, Unequip
  <1>17. (\E m \in Foes : FallDue(m) \/ Decay(m)) \/ Restart => hero' = hero
    BY DEF FallDue, Decay, Restart
  <1>18. ASSUME NEW c \in Characters, Act(c)
         PROVE  hero' = hero \/ Goal
    BY <1>3, <1>4, <1>5, <1>7, <1>8, <1>9, <1>11, <1>12, <1>13, <1>14, <1>16, <1>18 DEF Act
  <1>19. QED BY <1>3, <1>15, <1>16, <1>17, <1>18 DEF Next, Goal

(***************************************************************************)
(* Packs.                                                                  *)
(***************************************************************************)

\* What holds of the pack and the equipment of one character.
PackOk(p, w) ==
  /\ p \in Stock
  /\ w \subseteq {i \in Items : p[i] > 0}
  /\ \A i, j \in w : ItemType[i] = ItemType[j] => i = j
  /\ p[Manifest] <= 1

\* More of something, no second manifest.
LEMMA PackGrows ==
  ASSUME NEW p, NEW w, PackOk(p, w), NEW q \in Stock,
         \A i \in Items : p[i] <= q[i], q[Manifest] <= 1
  PROVE  PackOk(q, w)
  BY DEF PackOk, Stock

\* One less of something that is not worn, or of which more remain.
LEMMA PackShrinks ==
  ASSUME NEW p, NEW w, PackOk(p, w), NEW v, v \subseteq w, NEW q \in Stock,
         \A i \in Items : q[i] = p[i] \/ (q[i] < p[i] /\ (i \in v => q[i] > 0))
  PROVE  PackOk(q, v)
  <1>1. v \subseteq {i \in Items : q[i] > 0}
    BY DEF PackOk, Stock
  <1>2. q[Manifest] <= 1
    BY Things DEF PackOk, Stock
  <1>3. QED BY <1>1, <1>2 DEF PackOk

\* Whoever's pack or equipment changes plays from a copy that lives, and neither
\* dies nor rises.
LEMMA PackStep ==
  ASSUME TypeOK, DeadInHall, WornIsCarried, OneManifest, Next
  PROVE  \/ pack' = pack /\ worn' = worn
         \/ \E c \in Characters :
              /\ ~view[c].dead /\ hero'[c].dead = hero[c].dead
              /\ \A d \in Characters : d # c => pack'[d] = pack[d] /\ worn'[d] = worn[d]
              /\ pack' = [pack EXCEPT ![c] = pack'[c]] /\ worn' = [worn EXCEPT ![c] = worn'[c]]
              /\ PackOk(pack'[c], worn'[c])
  <1> DEFINE Quiet == pack' = pack /\ worn' = worn
             Changed(c) ==
               /\ ~view[c].dead /\ hero'[c].dead = hero[c].dead
               /\ \A d \in Characters : d # c => pack'[d] = pack[d] /\ worn'[d] = worn[d]
               /\ pack' = [pack EXCEPT ![c] = pack'[c]] /\ worn' = [worn EXCEPT ![c] = worn'[c]]
               /\ PackOk(pack'[c], worn'[c])
  <1>1. \A c \in Characters : /\ PackOk(pack[c], worn[c])
                              /\ pack[c] \in Stock /\ worn[c] \in SUBSET Items
                              /\ \A i \in Items : pack[c][i] \in Nat
    BY Things DEF TypeOK, WornIsCarried, OneManifest, Carried, PackOk, Stock
  \* What remains to be shown of a command that writes a pack.
  <1>2. ASSUME NEW c \in Characters, ~view[c].dead, hero'[c].dead = hero[c].dead,
               NEW p, NEW w, pack' = [pack EXCEPT ![c] = p], worn' = [worn EXCEPT ![c] = w],
               PackOk(p, w)
        PROVE  Changed(c)
    BY <1>2 DEF TypeOK
  <1>3. worn = [c \in Characters |-> worn[c]] /\ pack = [c \in Characters |-> pack[c]]
    BY DEF TypeOK
  <1> HIDE DEF Quiet, Changed
  <1>4. ASSUME NEW c \in Characters, NEW i \in Items, i # Manifest \/ pack[c][i] = 0,
               ~view[c].dead, hero'[c].dead = hero[c].dead,
               pack' = [pack EXCEPT ![c][i] = @ + 1], worn' = worn
        PROVE  Changed(c)
    <2> DEFINE q == [pack[c] EXCEPT ![i] = @ + 1]
    <2>1. q \in Stock /\ \A j \in Items : pack[c][j] <= q[j]
      BY <1>1 DEF Stock
    <2>2. q[Manifest] <= 1
      BY <1>1, <1>4, Things DEF Stock, PackOk
    <2>3. pack' = [pack EXCEPT ![c] = q]
      BY <1>4
    <2> HIDE DEF q
    <2>4. PackOk(q, worn[c])
      BY <1>1, <2>1, <2>2, PackGrows
    <2>5. worn' = [worn EXCEPT ![c] = worn[c]]
      BY <1>3, <1>4
    <2>6. QED BY <1>2, <1>4, <2>3, <2>4, <2>5
  <1>5. ASSUME NEW c \in Characters, NEW i \in Items, NEW v, v \subseteq worn[c],
               pack[c][i] > 0, i \in v => pack[c][i] > 1,
               ~view[c].dead, hero'[c].dead = hero[c].dead,
               pack' = [pack EXCEPT ![c][i] = @ - 1], worn' = [worn EXCEPT ![c] = v]
        PROVE  Changed(c)
    <2> DEFINE q == [pack[c] EXCEPT ![i] = @ - 1]
    <2>1. q \in Stock
            /\ \A j \in Items : q[j] = pack[c][j] \/ (q[j] < pack[c][j] /\ (j \in v => q[j] > 0))
      BY <1>1, <1>5 DEF Stock
    <2>2. pack' = [pack EXCEPT ![c] = q]
      BY <1>5
    <2> HIDE DEF q
    <2>3. PackOk(q, v)
      BY <1>1, <1>5, <2>1, PackShrinks
    <2>4. QED BY <1>2, <1>5, <2>2, <2>3
  <1>6. ASSUME NEW c \in Characters, NEW m \in Foes, Loot(c, m)
        PROVE  Quiet \/ Changed(c)
    <2> DEFINE takes == corpse[m].item # NoItem /\ Total(pack[c]) < Capacity
    <2>1. worn' = worn /\ ~view[c].dead
            /\ pack' = IF takes THEN [pack EXCEPT ![c][corpse[m].item] = @ + 1] ELSE pack
      BY <1>6 DEF Loot, Gate
    <2>2. hero'[c].dead = hero[c].dead
      BY <1>6 DEF Loot, TypeOK, Hero
    <2>3. CASE ~takes
      BY <2>1, <2>3 DEF Quiet
    <2>4. CASE takes
      <3>1. corpse[m] \in Corpse
        BY <1>6 DEF Loot, Kept, TypeOK
      <3>2. corpse[m].item \in Items
        BY <2>4, <3>1, Things DEF Corpse
      <3>3. corpse[m].item # Manifest
        BY <3>1, Things DEF Corpse
      <3>4. QED BY <1>4, <2>1, <2>2, <2>4, <3>2, <3>3
    <2>5. QED BY <2>3, <2>4
  <1>7. ASSUME NEW c \in Characters, NEW i \in Items, Take(c, i)
        PROVE  Changed(c)
    <2>1. i # Manifest \/ pack[c][i] = 0
      BY <1>7, Things DEF Take
    <2>2. QED BY <1>4, <1>7, <2>1 DEF Take, Gate, Stored
  <1>8. ASSUME NEW c \in Characters, TakeAll(c)
        PROVE  Changed(c)
    <2>1. PICK armful \in [Items -> 0..Capacity] :
            /\ Armful(c, hero[c].room, armful)
            /\ pack' = [pack EXCEPT ![c] = [i \in Items |-> @[i] + armful[i]]]
      BY <1>8 DEF TakeAll
    <2> DEFINE q == [i \in Items |-> pack[c][i] + armful[i]]
    <2>2. \A i \in Items : armful[i] \in Nat
      BY Numbers
    <2>3. q \in Stock /\ \A i \in Items : pack[c][i] <= q[i]
      BY <1>1, <2>2 DEF Stock
    <2>4. armful[Manifest] = 0 \/ (armful[Manifest] = 1 /\ ~(pack[c][Manifest] > 0))
      BY <2>1, Things DEF Armful
    <2>5. q[Manifest] <= 1
      <3>1. q[Manifest] = pack[c][Manifest] + armful[Manifest] /\ pack[c][Manifest] \in Nat
              /\ pack[c][Manifest] <= 1
        BY <1>1, Things DEF PackOk
      <3>2. QED BY <2>4, <3>1
    <2>6. pack' = [pack EXCEPT ![c] = q] /\ worn' = worn /\ hero' = hero /\ ~view[c].dead
      BY <1>8, <2>1 DEF TakeAll, Gate
    <2> HIDE DEF q
    <2>7. PackOk(q, worn[c])
      BY <1>1, <2>3, <2>5, PackGrows
    <2>8. worn' = [worn EXCEPT ![c] = worn[c]]
      BY <1>3, <2>6
    <2>9. QED BY <1>2, <2>6, <2>7, <2>8
  <1>9. ASSUME NEW c \in Characters, NEW i \in Items, Drop(c, i)
        PROVE  Changed(c)
    <2>1. worn' = [worn EXCEPT ![c] = worn[c]]
      BY <1>3, <1>9 DEF Drop
    <2>2. QED BY <1>5, <1>9, <2>1 DEF Drop, Gate, Removed
  <1>10. ASSUME NEW c \in Characters, NEW i \in Items, Use(c, i)
         PROVE  Changed(c)
    <2> DEFINE v == IF pack[c][i] = 1 THEN worn[c] \ {i} ELSE worn[c]
    <2>1. v \subseteq worn[c] /\ pack[c][i] > 0 /\ (i \in v => pack[c][i] > 1)
      BY <1>1, <1>10 DEF Use
    <2>2. worn' = [worn EXCEPT ![c] = v] /\ pack' = [pack EXCEPT ![c][i] = @ - 1] /\ ~view[c].dead
      BY <1>10 DEF Use, StillWorn, Removed, Gate
    <2>3. hero'[c].dead = hero[c].dead
      <3>1. hero[c] \in Hero /\ hero' = [hero EXCEPT ![c] = Used(hero[c], i)]
        BY <1>10 DEF Use, TypeOK
      <3>2. Used(hero[c], i).dead = hero[c].dead
        BY <3>1 DEF Used, Hero
      <3>3. QED BY <3>1, <3>2 DEF TypeOK
    <2> HIDE DEF v
    <2>4. QED BY <1>5, <2>1, <2>2, <2>3
  <1>11. ASSUME NEW c \in Characters, NEW i \in Items, Equip(c, i)
         PROVE  Changed(c)
    <2> DEFINE w == {j \in worn[c] : ItemType[j] # ItemType[i]} \cup {i}
    <2>1. PackOk(pack[c], w)
      BY <1>1, <1>11 DEF Equip, PackOk
    <2>2. worn' = [worn EXCEPT ![c] = w] /\ hero' = hero /\ ~view[c].dead
      BY <1>11 DEF Equip, Gate
    <2>3. pack' = [pack EXCEPT ![c] = pack[c]]
      BY <1>3, <1>11 DEF Equip
    <2> HIDE DEF w
    <2>4. QED BY <1>2, <2>1, <2>2, <2>3
  <1>12. ASSUME NEW c \in Characters, NEW i \in Items, Unequip(c, i)
         PROVE  Changed(c)
    <2> DEFINE w == worn[c] \ {i}
    <2>1. PackOk(pack[c], w)
      BY <1>1 DEF PackOk
    <2>2. worn' = [worn EXCEPT ![c] = w] /\ hero' = hero /\ ~view[c].dead
      BY <1>12 DEF Unequip, Gate
    <2>3. pack' = [pack EXCEPT ![c] = pack[c]]
      BY <1>3, <1>12 DEF Unequip
    <2> HIDE DEF w
    <2>4. QED BY <1>2, <2>1, <2>2, <2>3
  <1>13. ASSUME NEW c \in Characters, Give(c)
         PROVE  Changed(c)
    <2> DEFINE q == [pack[c] EXCEPT ![Manifest] = 0]
               v == worn[c] \ {Manifest}
    <2>1. q \in Stock
      BY <1>1 DEF Stock
    <2>2. \A j \in Items : q[j] = pack[c][j] \/ (q[j] < pack[c][j] /\ (j \in v => q[j] > 0))
      BY <1>1, Things DEF Stock
    <2>3. PackOk(q, v)
      BY <1>1, <2>1, <2>2, PackShrinks
    <2>4. pack' = [pack EXCEPT ![c] = q] /\ worn' = [worn EXCEPT ![c] = v] /\ ~view[c].dead
      BY <1>13 DEF Give, Gate
    <2>5. hero'[c].dead = hero[c].dead
      BY <1>13 DEF Give, TypeOK, Hero
    <2> HIDE DEF q, v
    <2>6. QED BY <1>2, <2>3, <2>4, <2>5
  <1>14. \A c \in Characters :
           \/ Look(c) \/ Say(c) \/ Examine(c) \/ Stats(c) \/ Talk(c) \/ Rest(c) \/ Answer(c)
           \/ Resurrect(c) \/ ResurrectPay(c) \/ Select(c) \/ Return(c) \/ RingBell(c)
           => Quiet
    BY DEF Look, Say, Examine, Stats, Talk, Rest, Answer, Resurrect, ResurrectPay, Select, Return,
           RingBell, Quiet
  <1>15. \A c \in Characters :
           \/ \E r \in Rooms : Move(c, r)
           \/ \E m \in Foes : Kill(c, m) \/ Exchange(c, m)
           \/ \E i \in Items : UseScripted(c, i)
           => Quiet
    BY DEF Move, Kill, Exchange, UseScripted, Quiet
  <1>16. (\E m \in Foes : FallDue(m) \/ Decay(m)) \/ Restart => Quiet
    BY DEF FallDue, Decay, Restart, Quiet
  <1>17. ASSUME NEW c \in Characters, Act(c)
         PROVE  Quiet \/ Changed(c)
    BY <1>6, <1>7, <1>8, <1>9, <1>10, <1>11, <1>12, <1>13, <1>14, <1>15, <1>17 DEF Act
  <1>18. Quiet \/ \E c \in Characters : Changed(c)
    BY <1>14, <1>16, <1>17 DEF Next
  <1>19. QED BY <1>18 DEF Quiet, Changed

(***************************************************************************)
(* The rest of the world.                                                  *)
(***************************************************************************)

LEMMA GroundStep ==
  ASSUME TypeOK, Next
  PROVE  ground' \in [Rooms -> Stock]
  <1>1. \A c \in Characters : hero[c].room \in Rooms
    BY HeroParts DEF TypeOK
  <1>2. \A r \in Rooms, i \in Items : ground[r][i] \in Nat
    BY DEF TypeOK, Stock
  <1>3. ASSUME NEW c \in Characters, NEW i \in Items, Take(c, i) \/ Drop(c, i)
        PROVE  ground' \in [Rooms -> Stock]
    <2>1. CASE Take(c, i)
      BY <1>1, <1>2, <2>1 DEF Take, TypeOK, Stock
    <2>2. CASE Drop(c, i)
      BY <1>1, <1>2, <2>2 DEF Drop, TypeOK, Stock
    <2>3. QED BY <1>3, <2>1, <2>2
  <1>4. ASSUME NEW c \in Characters, TakeAll(c)
        PROVE  ground' \in [Rooms -> Stock]
    <2> DEFINE r == hero[c].room
    <2>1. PICK armful \in [Items -> 0..Capacity] :
            /\ Armful(c, r, armful)
            /\ ground' = [ground EXCEPT ![r] = [i \in Items |-> @[i] - armful[i]]]
      BY <1>4 DEF TakeAll
    <2>2. \A i \in Items : ground[r][i] - armful[i] \in Nat
      <3> SUFFICES ASSUME NEW i \in Items PROVE ground[r][i] - armful[i] \in Nat
        OBVIOUS
      <3>1. armful[i] \in Nat /\ ground[r][i] \in Nat
        BY <1>1, <1>2, Numbers
      <3> DEFINE before == {u \in Units(armful) : NameRank[u[1]] < NameRank[i]}
                 space  == Capacity - Total(pack[c]) - Cardinality(before)
      <3>2. armful[i] = IF space <= 0 \/ ground[r][i] = 0 THEN 0
                        ELSE IF ItemType[i] = "quest" THEN (IF pack[c][i] > 0 THEN 0 ELSE 1)
                        ELSE Least(ground[r][i], space)
        BY <2>1 DEF Armful
      <3> HIDE DEF before, space, r
      <3>3. QED BY <3>1, <3>2 DEF Least
    <2>3. [i \in Items |-> ground[r][i] - armful[i]] \in Stock
      BY <2>2 DEF Stock
    <2>4. QED BY <1>1, <2>1, <2>3 DEF TypeOK
  <1>5. ASSUME NEW c \in Characters, Give(c)
        PROVE  ground' \in [Rooms -> Stock]
    BY <1>5, Places, Things DEF Give, WashedUp, TypeOK, Stock
  <1>6. ASSUME Restart
        PROVE  ground' \in [Rooms -> Stock]
    BY <1>2, <1>6 DEF Restart, Stock
  <1>7. \A c \in Characters :
          \/ Look(c) \/ Say(c) \/ Examine(c) \/ Stats(c) \/ Talk(c) \/ Rest(c) \/ Answer(c)
          \/ Resurrect(c) \/ ResurrectPay(c) \/ Select(c) \/ Return(c) \/ RingBell(c)
          => ground' = ground
    BY DEF Look, Say, Examine, Stats, Talk, Rest, Answer, Resurrect, ResurrectPay, Select, Return,
           RingBell
  <1>8. \A c \in Characters :
          \/ \E r \in Rooms : Move(c, r)
          \/ \E m \in Foes : Kill(c, m) \/ Exchange(c, m) \/ Loot(c, m)
          => ground' = ground
    BY DEF Move, Kill, Exchange, Loot
  <1>9. \A c \in Characters, i \in Items :
          UseScripted(c, i) \/ Use(c, i) \/ Equip(c, i) \/ Unequip(c, i) => ground' = ground
    BY DEF UseScripted, Use, Equip, Unequip
  <1>10. (\E m \in Foes : FallDue(m) \/ Decay(m)) => ground' = ground
    BY DEF FallDue, Decay
  <1>11. CASE ground' = ground
    BY <1>11 DEF TypeOK
  <1>12. ASSUME NEW c \in Characters, Act(c)
         PROVE  ground' \in [Rooms -> Stock]
    BY <1>3, <1>4, <1>5, <1>7, <1>8, <1>9, <1>11, <1>12 DEF Act
  <1>13. QED BY <1>6, <1>7, <1>10, <1>11, <1>12 DEF Next

\* Monsters, their health within bounds.
Horde(npcs) ==
  /\ DOMAIN npcs \subseteq Foes
  /\ npcs \in [DOMAIN npcs -> [health : Nat, due : BOOLEAN]]
  /\ \A m \in DOMAIN npcs : npcs[m].health <= FoeHealth[m]

LEMMA RespawnedHorde ==
  ASSUME NEW npcs, Horde(npcs), NEW r
  PROVE  Horde(Respawned(npcs, r)) /\ DOMAIN Respawned(npcs, r) = DOMAIN npcs
  <1> DEFINE f == Respawned(npcs, r)
  <1>1. DOMAIN f = DOMAIN npcs
          /\ \A m \in DOMAIN npcs : f[m] = npcs[m] \/ f[m] = [health |-> FoeHealth[m], due |-> FALSE]
    BY DEF Respawned
  <1>2. \A m \in DOMAIN npcs : f[m] \in [health : Nat, due : BOOLEAN] /\ f[m].health <= FoeHealth[m]
    <2> SUFFICES ASSUME NEW m \in DOMAIN npcs
                 PROVE  f[m] \in [health : Nat, due : BOOLEAN] /\ f[m].health <= FoeHealth[m]
      OBVIOUS
    <2>1. m \in Foes /\ npcs[m] \in [health : Nat, due : BOOLEAN] /\ npcs[m].health <= FoeHealth[m]
      BY DEF Horde
    <2>2. FoeHealth[m] \in Nat
      BY <2>1, Monsters
    <2> HIDE DEF f
    <2>3. CASE f[m] = npcs[m]
      BY <2>1, <2>3
    <2>4. CASE f[m] = [health |-> FoeHealth[m], due |-> FALSE]
      BY <2>2, <2>4
    <2>5. QED BY <1>1, <2>3, <2>4
  <1>3. f = [m \in DOMAIN npcs |-> f[m]]
    BY DEF Respawned
  <1> HIDE DEF f
  <1>4. f \in [DOMAIN f -> [health : Nat, due : BOOLEAN]]
    BY <1>1, <1>2, <1>3
  <1>5. QED BY <1>1, <1>2, <1>4 DEF Horde, f

LEMMA StruckHorde ==
  ASSUME NEW npcs, Horde(npcs), NEW m \in DOMAIN npcs, NEW n \in Nat, n <= FoeHealth[m],
         NEW due \in BOOLEAN
  PROVE  Horde([npcs EXCEPT ![m] = [health |-> n, due |-> due]])
  BY DEF Horde

LEMMA FoeStep ==
  ASSUME TypeOK, WornIsCarried, Next
  PROVE  Horde(foe')
  <1>1. Horde(foe) /\ \A r : Horde(Respawned(foe, r)) /\ DOMAIN Respawned(foe, r) = DOMAIN foe
    BY RespawnedHorde DEF TypeOK, Horde
  <1>2. CASE foe' = foe \/ \E r : foe' = Respawned(foe, r)
    BY <1>1, <1>2
  <1>3. ASSUME NEW c \in Characters, NEW m \in Foes, MayStrike(c, m)
        PROVE  /\ Horde(Woken(c)) /\ m \in DOMAIN Woken(c) /\ FoeHealth[m] \in Nat
               /\ Woken(c)[m].health \in Nat /\ Woken(c)[m].health <= FoeHealth[m]
               /\ Blow(c, m) \in 0..Woken(c)[m].health
    <2>1. Horde(Woken(c)) /\ m \in DOMAIN Woken(c)
      BY <1>1, <1>3 DEF Woken, MayStrike
    <2>2. Woken(c)[m].health \in Nat /\ Woken(c)[m].health <= FoeHealth[m]
      BY <2>1 DEF Horde
    <2>3. Max(Equipped(c, "weapon") \cup {0}) \in Nat
      BY BestEquipped
    <2>4. Blow(c, m) \in 0..Woken(c)[m].health
      BY <2>2, <2>3, Monsters, Numbers DEF Blow, Least, Most
    <2>5. QED BY <2>1, <2>2, <2>4, Monsters
  <1>4. ASSUME NEW c \in Characters, NEW m \in Foes, Kill(c, m)
        PROVE  Horde(foe')
    <2>1. MayStrike(c, m) /\ foe' = [Woken(c) EXCEPT ![m] = [health |-> 0, due |-> FALSE]]
      BY <1>4 DEF Kill
    <2>2. Horde(Woken(c)) /\ m \in DOMAIN Woken(c) /\ 0 <= FoeHealth[m]
      BY <1>3, <2>1
    <2>3. QED BY <2>1, <2>2, StruckHorde
  <1>5. ASSUME NEW c \in Characters, NEW m \in Foes, Exchange(c, m)
        PROVE  Horde(foe')
    <2> DEFINE n == Woken(c)[m].health - Blow(c, m)
               struck == [Woken(c) EXCEPT ![m] = [health |-> n, due |-> FALSE]]
    <2>1. MayStrike(c, m)
      BY <1>5 DEF Exchange
    <2>2. n \in Nat /\ n <= FoeHealth[m]
      BY <1>3, <2>1
    <2>3. foe' \in {struck, Respawned(struck, Hall)}
      BY <1>5 DEF Exchange
    <2> HIDE DEF n
    <2>4. Horde(struck)
      BY <1>3, <2>1, <2>2, StruckHorde
    <2> HIDE DEF struck
    <2>5. QED BY <2>3, <2>4, RespawnedHorde
  <1>6. ASSUME NEW m \in Foes, FallDue(m)
        PROVE  Horde(foe')
    BY <1>1, <1>6 DEF FallDue, Horde
  <1>7. \A c \in Characters :
          Look(c) \/ Examine(c) \/ Talk(c) \/ Give(c) \/ Select(c) \/ (\E r \in Rooms : Move(c, r)) =>
            foe' = foe \/ \E r : foe' = Respawned(foe, r)
    BY DEF Look, Examine, Talk, Give, Select, Move, Refresh
  <1>8. \A c \in Characters :
          \/ Say(c) \/ Stats(c) \/ Rest(c) \/ Answer(c) \/ Resurrect(c) \/ ResurrectPay(c)
          \/ Return(c) \/ RingBell(c) \/ TakeAll(c)
          \/ \E m \in Foes : Loot(c, m)
          => foe' = foe
    BY DEF Say, Stats, Rest, Answer, Resurrect, ResurrectPay, Return, RingBell, TakeAll, Loot
  <1>9. \A c \in Characters, i \in Items :
          \/ Take(c, i) \/ Drop(c, i) \/ UseScripted(c, i) \/ Use(c, i)
          \/ Equip(c, i) \/ Unequip(c, i)
          => foe' = foe
    BY DEF Take, Drop, UseScripted, Use, Equip, Unequip
  <1>10. (\E m \in Foes : Decay(m)) \/ Restart => foe' = foe
    BY DEF Decay, Restart
  <1>11. ASSUME NEW c \in Characters, Act(c)
         PROVE  Horde(foe')
    BY <1>2, <1>4, <1>5, <1>7, <1>8, <1>9, <1>11 DEF Act
  <1>12. QED BY <1>2, <1>6, <1>7, <1>8, <1>10, <1>11 DEF Next

\* Corpses, and the purses that decay with them.
LEMMA CorpseStep ==
  ASSUME TypeOK, Next
  PROVE  corpse' \in [Foes -> Corpse \cup {NoCorpse}] /\ lost' \in [Characters -> Nat]
  <1>1. Kept \in [Foes -> Corpse \cup {NoCorpse}]
    BY DEF Kept, TypeOK
  <1>2. LostPurses \in [Characters -> Nat]
    <2>1. \A c \in Characters :
            Cardinality({m \in Decayed : corpse[m].owner = c /\ corpse[m].coin}) \in Nat
      <3> SUFFICES ASSUME NEW c \in Characters
                   PROVE  Cardinality({m \in Decayed : corpse[m].owner = c /\ corpse[m].coin}) \in Nat
        OBVIOUS
      <3> DEFINE D == {m \in Decayed : corpse[m].owner = c /\ corpse[m].coin}
      <3>1. D \subseteq Foes /\ IsFiniteSet(Foes)
        BY WorldAssumption DEF Decayed
      <3> HIDE DEF D
      <3>2. IsFiniteSet(D)
        BY <3>1, FS_Subset
      <3>3. Cardinality(D) \in Nat
        BY <3>2, FS_CardinalityType
      <3>4. QED BY <3>3 DEF D
    <2>2. QED BY <2>1 DEF LostPurses, TypeOK
  <1>3. CASE corpse' = corpse /\ lost' = lost
    BY <1>3 DEF TypeOK
  <1>4. CASE corpse' = Kept /\ lost' = LostPurses
    BY <1>1, <1>2, <1>4
  <1>5. ASSUME NEW c \in Characters, NEW m \in Foes, Kill(c, m)
        PROVE  corpse' \in [Foes -> Corpse \cup {NoCorpse}] /\ lost' \in [Characters -> Nat]
    <2>1. PICK item \in Drops[m] \cup {NoItem} :
            corpse' = [Kept EXCEPT ![m] =
                         [owner |-> c, coin |-> TRUE, item |-> item, expired |-> FALSE]]
      BY <1>5 DEF Kill
    <2>2. [owner |-> c, coin |-> TRUE, item |-> item, expired |-> FALSE] \in Corpse
      BY Monsters DEF Corpse
    <2>3. lost' = LostPurses
      BY <1>5 DEF Kill
    <2>4. QED BY <1>1, <1>2, <2>1, <2>2, <2>3
  <1>6. ASSUME NEW c \in Characters, NEW m \in Foes, Loot(c, m)
        PROVE  corpse' \in [Foes -> Corpse \cup {NoCorpse}] /\ lost' \in [Characters -> Nat]
    <2>1. corpse[m] \in Corpse
      BY <1>6 DEF Loot, Kept, TypeOK
    <2>2. [corpse[m] EXCEPT !.coin = FALSE] \in Corpse
      BY <2>1 DEF Corpse
    <2>3. lost' = LostPurses
            /\ corpse' \in {[Kept EXCEPT ![m] = NoCorpse],
                            [Kept EXCEPT ![m] = [corpse[m] EXCEPT !.coin = FALSE]]}
      BY <1>6 DEF Loot
    <2>4. QED BY <1>1, <1>2, <2>2, <2>3
  <1>7. ASSUME NEW m \in Foes, Decay(m)
        PROVE  corpse' \in [Foes -> Corpse \cup {NoCorpse}] /\ lost' \in [Characters -> Nat]
    <2>1. [corpse[m] EXCEPT !.expired = TRUE] \in Corpse
      BY <1>7 DEF Decay, TypeOK, Corpse
    <2>2. corpse' = [corpse EXCEPT ![m] = [corpse[m] EXCEPT !.expired = TRUE]] /\ lost' = lost
      BY <1>7 DEF Decay
    <2>3. QED BY <2>1, <2>2 DEF TypeOK
  <1>8. \A c \in Characters, m \in Foes : Exchange(c, m) =>
          (corpse' = corpse /\ lost' = lost) \/ (corpse' = Kept /\ lost' = LostPurses)
    BY DEF Exchange
  <1>9. \A c \in Characters :
          Look(c) \/ Select(c) \/ (\E r \in Rooms : Move(c, r)) => corpse' = Kept /\ lost' = LostPurses
    BY DEF Look, Select, Move, Refresh
  <1>10. \A c \in Characters :
           \/ Say(c) \/ Examine(c) \/ Stats(c) \/ Talk(c) \/ Rest(c) \/ Answer(c) \/ Resurrect(c)
           \/ ResurrectPay(c) \/ Return(c) \/ RingBell(c) \/ TakeAll(c) \/ Give(c)
           => corpse' = corpse /\ lost' = lost
    BY DEF Say, Examine, Stats, Talk, Rest, Answer, Resurrect, ResurrectPay, Return, RingBell,
           TakeAll, Give
  <1>11. \A c \in Characters, i \in Items :
           \/ Take(c, i) \/ Drop(c, i) \/ UseScripted(c, i) \/ Use(c, i)
           \/ Equip(c, i) \/ Unequip(c, i)
           => corpse' = corpse /\ lost' = lost
    BY DEF Take, Drop, UseScripted, Use, Equip, Unequip
  <1>12. (\E m \in Foes : FallDue(m)) \/ Restart => corpse' = corpse /\ lost' = lost
    BY DEF FallDue, Restart
  <1>13. ASSUME NEW c \in Characters, Act(c)
         PROVE  corpse' \in [Foes -> Corpse \cup {NoCorpse}] /\ lost' \in [Characters -> Nat]
    BY <1>3, <1>4, <1>5, <1>6, <1>8, <1>9, <1>10, <1>11, <1>13 DEF Act
  <1>14. QED BY <1>3, <1>4, <1>7, <1>9, <1>10, <1>12, <1>13 DEF Next

Books   == [deliveries : Nat, fees : Nat, prizes : Nat]
Budgets == [kills : Nat, errands : Nat, restarts : Nat, visits : Nat]

LEMMA BooksStep ==
  ASSUME TypeOK, Next
  PROVE  books' \in [Characters -> Books] /\ left' \in Budgets
  <1>1. books \in [Characters -> Books] /\ left \in Budgets
    BY DEF TypeOK, Books, Budgets
  <1>2. ASSUME NEW c \in Characters, Answer(c) \/ ResurrectPay(c) \/ Give(c)
        PROVE  books' \in [Characters -> Books] /\ left' \in Budgets
    <2>1. CASE Answer(c)
      BY <1>1, <2>1 DEF Answer, Books, Budgets
    <2>2. CASE ResurrectPay(c)
      BY <1>1, <2>2 DEF ResurrectPay, Books, Budgets
    <2>3. CASE Give(c)
      BY <1>1, <2>3 DEF Give, Books, Budgets
    <2>4. QED BY <1>2, <2>1, <2>2, <2>3
  <1>3. ASSUME NEW c \in Characters, NEW m \in Foes, Kill(c, m)
        PROVE  books' = books /\ left' \in Budgets
    BY <1>1, <1>3 DEF Kill, Budgets
  <1>4. ASSUME Restart \/ \E c \in Characters : Select(c) \/ Return(c)
        PROVE  books' = books /\ left' \in Budgets
    <2>1. CASE Restart
      BY <1>1, <2>1 DEF Restart, Budgets
    <2>2. ASSUME NEW c \in Characters, Select(c) \/ Return(c)
          PROVE  books' = books /\ left' \in Budgets
      <3>1. left' = [left EXCEPT !.visits = @ - 1] /\ left.visits > 0 /\ books' = books
        BY <2>2 DEF Select, Return
      <3>2. QED BY <1>1, <3>1 DEF Budgets
    <2>3. QED BY <1>4, <2>1, <2>2
  <1>5. \A c \in Characters :
          \/ Look(c) \/ Say(c) \/ Examine(c) \/ Stats(c) \/ Talk(c) \/ Rest(c)
          \/ Resurrect(c) \/ RingBell(c) \/ TakeAll(c)
          => books' = books /\ left' = left
    BY DEF Look, Say, Examine, Stats, Talk, Rest, Resurrect, RingBell, TakeAll
  <1>6. \A c \in Characters :
          (\E r \in Rooms : Move(c, r)) \/ (\E m \in Foes : Exchange(c, m) \/ Loot(c, m))
          => books' = books /\ left' = left
    BY DEF Move, Exchange, Loot
  <1>7. \A c \in Characters, i \in Items :
          \/ Take(c, i) \/ Drop(c, i) \/ UseScripted(c, i) \/ Use(c, i)
          \/ Equip(c, i) \/ Unequip(c, i)
          => books' = books /\ left' = left
    BY DEF Take, Drop, UseScripted, Use, Equip, Unequip
  <1>8. (\E m \in Foes : FallDue(m) \/ Decay(m)) => books' = books /\ left' = left
    BY DEF FallDue, Decay
  <1>9. ASSUME NEW c \in Characters, Act(c)
        PROVE  books' \in [Characters -> Books] /\ left' \in Budgets
    BY <1>1, <1>2, <1>3, <1>5, <1>6, <1>7, <1>9 DEF Act
  <1>10. QED BY <1>1, <1>4, <1>5, <1>8, <1>9 DEF Next

(***************************************************************************)
(* The copies that sessions keep.                                          *)
(***************************************************************************)

\* A copy of c that says of the row what is so, or has lapsed.
TrueCopy(v, h) == ~v.lapsed => v.room = h.room /\ v.dead = h.dead

LEMMA CopyParts ==
  ASSUME NEW v \in View
  PROVE  /\ v.room \in Rooms /\ v.dead \in BOOLEAN /\ v.lapsed \in BOOLEAN
         /\ \A d \in BOOLEAN : /\ [v EXCEPT !.dead = d] \in View
                             /\ [v EXCEPT !.dead = d].dead = d
                             /\ [v EXCEPT !.dead = d].room = v.room
                             /\ [v EXCEPT !.dead = d].lapsed = v.lapsed
         /\ \A r \in Rooms : /\ [v EXCEPT !.room = r] \in View
                            /\ [v EXCEPT !.room = r].room = r
                            /\ [v EXCEPT !.room = r].dead = v.dead
                            /\ [v EXCEPT !.room = r].lapsed = v.lapsed
         /\ [v EXCEPT !.lapsed = TRUE] \in View
  BY DEF View

LEMMA LoadedParts ==
  ASSUME NEW v \in View, NEW h \in Hero
  PROVE  /\ Loaded(v, h) \in View /\ Loaded(v, h).dead = h.dead
         /\ Loaded(v, h).room = v.room /\ Loaded(v, h).lapsed = v.lapsed
  BY DEF Loaded, View, Hero

\* What a step makes of the copy of the session that plays c, its row being h.
Sees(c, h, v) ==
  /\ v \in View /\ TrueCopy(v, h)
  /\ hero' = [hero EXCEPT ![c] = h] /\ view' = [view EXCEPT ![c] = v]

Copies == view' \in [Characters -> View] /\ \A d \in Characters : TrueCopy(view'[d], hero'[d])

LEMMA CopiesNow ==
  ASSUME TypeOK, ViewTrue
  PROVE  \A d \in Characters : view[d] \in View /\ hero[d] \in Hero /\ TrueCopy(view[d], hero[d])
  BY DEF TypeOK, ViewTrue, InPlace, TrueCopy

LEMMA SeesTrue ==
  ASSUME TypeOK, ViewTrue, NEW c \in Characters, NEW h, NEW v, Sees(c, h, v)
  PROVE  Copies
  <1>1. hero'[c] = h /\ view'[c] = v /\ view' \in [Characters -> View]
    BY DEF Sees, TypeOK
  <1>2. \A d \in Characters : d # c => hero'[d] = hero[d] /\ view'[d] = view[d]
    BY DEF Sees, TypeOK
  <1>3. \A d \in Characters : TrueCopy(view'[d], hero'[d])
    BY <1>1, <1>2, CopiesNow DEF Sees
  <1>4. QED BY <1>1, <1>3 DEF Copies

\* A hook leaves a true copy true.
LEMMA HookSees ==
  ASSUME TypeOK, ViewTrue, NEW c \in Characters, NEW h \in Hero, NEW v \in View, TrueCopy(v, h),
         Hook(c, h, v)
  PROVE  Copies
  <1>1. CASE hero' = [hero EXCEPT ![c] = h] /\ view' = [view EXCEPT ![c] = v]
    <2>1. Sees(c, h, v)
      BY <1>1 DEF Sees
    <2>2. QED BY <2>1, SeesTrue
  <1>2. ASSUME v.room = h.room, NEW n \in HookHeals,
               hero' = [hero EXCEPT ![c] = [h EXCEPT !.health = Least(MaxHealth, h.health + n)]],
               view' = [view EXCEPT ![c] = Loaded(v, h)]
        PROVE  Copies
    <2> DEFINE k == [h EXCEPT !.health = Least(MaxHealth, h.health + n)]
    <2>1. k \in AfterHook(h)
      BY DEF AfterHook
    <2> HIDE DEF k
    <2>2. k.room = h.room /\ k.dead = h.dead
      BY <2>1, HookKeeps
    <2>3. Loaded(v, h) \in View /\ Loaded(v, h).dead = k.dead /\ Loaded(v, h).room = k.room
      BY <1>2, <2>2, LoadedParts
    <2>4. hero' = [hero EXCEPT ![c] = k]
      BY <1>2 DEF k
    <2>5. Sees(c, k, Loaded(v, h))
      BY <1>2, <2>3, <2>4 DEF Sees, TrueCopy
    <2>6. QED BY <2>5, SeesTrue
  <1>3. QED BY <1>1, <1>2 DEF Hook

\* A command that stays in its room and reads the row back.
LEMMA ReloadSees ==
  ASSUME TypeOK, ViewTrue, NEW c \in Characters, NEW h \in Hero, h.room = hero[c].room,
         hero' = [hero EXCEPT ![c] = h], view' = [view EXCEPT ![c] = Loaded(view[c], h)]
  PROVE  Copies
  <1> DEFINE v == Loaded(view[c], h)
  <1>1. view[c] \in View /\ TrueCopy(view[c], hero[c])
    BY CopiesNow
  <1>2. v \in View /\ v.dead = h.dead /\ v.room = view[c].room /\ v.lapsed = view[c].lapsed
    BY <1>1, LoadedParts
  <1> HIDE DEF v
  <1>3. view' = [view EXCEPT ![c] = v]
    BY DEF v
  <1>4. Sees(c, h, v)
    BY <1>1, <1>2, <1>3 DEF Sees, TrueCopy
  <1>5. QED BY <1>4, SeesTrue

LEMMA TiredHero ==
  ASSUME TypeOK, NEW c \in Characters, NEW m \in Foes, MayStrike(c, m)
  PROVE  /\ Tired(c) \in Hero /\ Tired(c).gold = hero[c].gold
         /\ Tired(c).experience = hero[c].experience
  <1>1. hero[c] \in Hero /\ hero[c].stamina >= AttackCost
    BY DEF TypeOK, MayStrike
  <1>2. hero[c].stamina - AttackCost \in 0..MaxStamina
    BY <1>1, HeroParts, Numbers
  <1>3. QED BY <1>1, <1>2 DEF Tired, Hero

LEMMA FallenTired ==
  ASSUME NEW h \in Hero, NEW x
  PROVE  LET f == Fallen([h EXCEPT !.health = x])
         IN  /\ f \in Hero /\ f.gold = h.gold /\ f.experience = h.experience
             /\ f.dead = TRUE /\ f.room = Hall
  <1>1. Hall \in Rooms /\ 0 \in 0..MaxHealth
    BY Places, Numbers
  <1>2. QED BY <1>1 DEF Fallen, Hero

\* The commands that read the row back, but for the blow that kills.
LEMMA ReloadsStep ==
  ASSUME TypeOK, ViewTrue, hero' \in [Characters -> Hero], NEW c \in Characters, Reload(c),
         \/ Rest(c) \/ Answer(c) \/ Resurrect(c) \/ ResurrectPay(c) \/ Give(c)
         \/ \E i \in Items : Use(c, i)
         \/ \E m \in Foes : Kill(c, m) \/ Loot(c, m)
         \/ \E m \in Foes : /\ MayStrike(c, m)
                            /\ hero' = [hero EXCEPT ![c] = [Tired(c) EXCEPT !.health = @ - Retaliation(c, m)]]
  PROVE  Copies
  <1>1. hero[c] \in Hero /\ hero \in [Characters -> Hero] /\ hero'[c] \in Hero
    BY DEF TypeOK
  <1>2. hero' = [hero EXCEPT ![c] = hero'[c]] /\ hero'[c].room = hero[c].room
    <2>1. CASE Rest(c)
      BY <1>1, <2>1 DEF Rest, Hero
    <2>2. CASE Answer(c)
      BY <1>1, <2>2 DEF Answer, Hero
    <2>3. CASE Resurrect(c)
      BY <1>1, <2>3 DEF Resurrect, Risen, Hero
    <2>4. CASE ResurrectPay(c)
      BY <1>1, <2>4 DEF ResurrectPay, Risen, Hero
    <2>5. CASE Give(c)
      BY <1>1, <2>5 DEF Give, Hero
    <2>6. ASSUME NEW i \in Items, Use(c, i)
          PROVE  hero' = [hero EXCEPT ![c] = hero'[c]] /\ hero'[c].room = hero[c].room
      <3>1. hero' = [hero EXCEPT ![c] = Used(hero[c], i)]
        BY <2>6 DEF Use
      <3>2. Used(hero[c], i).room = hero[c].room
        BY <1>1 DEF Used, Hero
      <3>3. QED BY <1>1, <3>1, <3>2
    <2>7. ASSUME NEW m \in Foes, Kill(c, m)
          PROVE  hero' = [hero EXCEPT ![c] = hero'[c]] /\ hero'[c].room = hero[c].room
      BY <1>1, <2>7 DEF Kill, Tired, Hero
    <2>8. ASSUME NEW m \in Foes, Loot(c, m)
          PROVE  hero' = [hero EXCEPT ![c] = hero'[c]] /\ hero'[c].room = hero[c].room
      BY <1>1, <2>8 DEF Loot, Hero
    <2>9. ASSUME NEW m \in Foes,
                 hero' = [hero EXCEPT ![c] = [Tired(c) EXCEPT !.health = @ - Retaliation(c, m)]]
          PROVE  hero' = [hero EXCEPT ![c] = hero'[c]] /\ hero'[c].room = hero[c].room
      BY <1>1, <2>9 DEF Tired, Hero
    <2>10. QED BY <2>1, <2>2, <2>3, <2>4, <2>5, <2>6, <2>7, <2>8, <2>9
  <1>3. view' = [view EXCEPT ![c] = Loaded(view[c], hero'[c])]
    BY DEF Reload
  <1>4. QED BY <1>1, <1>2, <1>3, ReloadSees

LEMMA ViewStep ==
  ASSUME TypeOK, ViewTrue, hero' \in [Characters -> Hero], Next
  PROVE  view' \in [Characters -> View] /\ ViewTrue'
  <1>1. \A c \in Characters : /\ view[c] \in View /\ hero[c] \in Hero
                              /\ TrueCopy(view[c], hero[c])
    BY CopiesNow
  <1>2. ASSUME NEW c \in Characters,
               Look(c) \/ Say(c) \/ Talk(c) \/ \E i \in Items : UseScripted(c, i)
        PROVE  Copies
    <2>1. Hook(c, hero[c], view[c])
      BY <1>2 DEF Look, Say, Talk, UseScripted
    <2>2. QED BY <1>1, <2>1, HookSees
  <1>3. ASSUME NEW c \in Characters, Select(c)
        PROVE  Copies
    <2> DEFINE v == [room |-> hero[c].room, dead |-> hero[c].dead, lapsed |-> FALSE]
    <2>1. v \in View /\ TrueCopy(v, hero[c]) /\ Hook(c, hero[c], v)
      BY <1>1, <1>3, HeroParts DEF Select, View, TrueCopy
    <2> HIDE DEF v
    <2>2. QED BY <1>1, <2>1, HookSees
  <1>4. ASSUME NEW c \in Characters, NEW r \in Rooms, Move(c, r)
        PROVE  Copies
    <2> DEFINE x == Most(0, hero[c].stamina - 1)
               g == [hero[c] EXCEPT !.room = r, !.stamina = x]
               v == [view[c] EXCEPT !.room = r]
    <2>1. x \in 0..MaxStamina
      BY <1>1, HeroParts, Numbers DEF Most
    <2>2. Hook(c, g, v)
      BY <1>4 DEF Move
    <2> HIDE DEF x
    <2>3. g \in Hero /\ g.room = r /\ g.dead = hero[c].dead
      BY <1>1, <2>1 DEF Hero
    <2>4. v \in View /\ v.room = r /\ v.dead = view[c].dead /\ v.lapsed = view[c].lapsed
      BY <1>1, CopyParts
    <2> HIDE DEF g, v
    <2>5. TrueCopy(v, g)
      BY <1>1, <2>3, <2>4 DEF TrueCopy
    <2>6. QED BY <2>2, <2>3, <2>4, <2>5, HookSees
  <1>5. ASSUME NEW c \in Characters, NEW m \in Foes, Exchange(c, m)
        PROVE  Copies
    <2> DEFINE x == Tired(c).health - Retaliation(c, m)
               hurt == [Tired(c) EXCEPT !.health = x]
               fell == Fallen(hurt)
               v == [Loaded(view[c], fell) EXCEPT !.room = Hall]
    <2>1. MayStrike(c, m)
      BY <1>5 DEF Exchange
    <2>2. (hero' = [hero EXCEPT ![c] = hurt] /\ Reload(c)) \/ Hook(c, fell, v)
      BY <1>5 DEF Exchange
    <2>3. CASE hero' = [hero EXCEPT ![c] = hurt] /\ Reload(c)
      BY <2>1, <2>3, ReloadsStep
    <2>4. CASE Hook(c, fell, v)
      <3> HIDE DEF x
      <3>1. Tired(c) \in Hero
        BY <2>1, TiredHero
      <3>2. fell \in Hero /\ fell.dead = TRUE /\ fell.room = Hall
        BY <3>1, FallenTired
      <3> HIDE DEF fell
      <3>3. Loaded(view[c], fell) \in View /\ Loaded(view[c], fell).dead = TRUE
        BY <1>1, <3>2, CopyParts DEF Loaded
      <3>4. v \in View /\ v.dead = TRUE /\ v.room = Hall
        BY <3>3, CopyParts, Places
      <3> HIDE DEF v
      <3>5. TrueCopy(v, fell)
        BY <3>2, <3>4 DEF TrueCopy
      <3>6. QED BY <2>4, <3>2, <3>4, <3>5, HookSees
    <2>5. QED BY <2>2, <2>3, <2>4
  <1>6. ASSUME NEW c \in Characters,
               \/ Rest(c) \/ Answer(c) \/ Resurrect(c) \/ ResurrectPay(c) \/ Give(c)
               \/ \E i \in Items : Use(c, i)
               \/ \E m \in Foes : Kill(c, m) \/ Loot(c, m)
        PROVE  Copies
    <2>1. Reload(c)
      BY <1>6 DEF Rest, Answer, Resurrect, ResurrectPay, Give, Use, Kill, Loot
    <2>2. QED BY <1>6, <2>1, ReloadsStep
  <1>7. ASSUME NEW c \in Characters, Stats(c)
        PROVE  Copies
    <2>1. hero' = [hero EXCEPT ![c] = hero[c]]
            /\ view' = [view EXCEPT ![c] = Loaded(view[c], hero[c])]
      BY <1>7 DEF Stats, TypeOK
    <2>2. QED BY <1>1, <2>1, ReloadSees
  <1>8. ASSUME NEW c \in Characters, Return(c)
        PROVE  Copies
    <2>1. PICK v \in away[c] : view' = [view EXCEPT ![c] = v]
      BY <1>8 DEF Return
    <2>2. v \in View /\ v.lapsed
      BY <2>1 DEF TypeOK
    <2>3. hero' = [hero EXCEPT ![c] = hero[c]]
      BY <1>8 DEF Return, TypeOK
    <2>4. Sees(c, hero[c], v)
      BY <2>1, <2>2, <2>3 DEF Sees, TrueCopy
    <2>5. QED BY <2>4, SeesTrue
  <1>9. ASSUME view' = view,
               \A d \in Characters : hero'[d].room = hero[d].room /\ hero'[d].dead = hero[d].dead
        PROVE  Copies
    BY <1>1, <1>9 DEF Copies, TrueCopy, TypeOK
  <1>10. ASSUME NEW c \in Characters, RingBell(c)
         PROVE  Copies
    <2>1. view' = view /\ hero' = [hero EXCEPT ![c].bell = "rung"]
      BY <1>10 DEF RingBell, sessions
    <2>2. \A d \in Characters : hero'[d].room = hero[d].room /\ hero'[d].dead = hero[d].dead
      BY <1>1, <2>1 DEF TypeOK, Hero
    <2>3. QED BY <1>9, <2>1, <2>2
  <1>11. ASSUME \/ \E c \in Characters :
                      \/ Examine(c) \/ TakeAll(c)
                      \/ \E i \in Items : Take(c, i) \/ Drop(c, i) \/ Equip(c, i) \/ Unequip(c, i)
                \/ \E m \in Foes : FallDue(m) \/ Decay(m)
                \/ Restart
         PROVE  Copies
    <2>1. hero' = hero /\ view' = view
      BY <1>11 DEF Examine, TakeAll, Take, Drop, Equip, Unequip, FallDue, Decay, Restart, sessions
    <2>2. QED BY <1>9, <2>1
  <1>12. ASSUME NEW c \in Characters, Act(c)
         PROVE  Copies
    BY <1>2, <1>4, <1>5, <1>6, <1>7, <1>11, <1>12 DEF Act
  <1>13. Copies
    BY <1>3, <1>8, <1>10, <1>11, <1>12 DEF Next
  <1>14. QED BY <1>13 DEF Copies, TrueCopy, ViewTrue, InPlace

\* The copies that are away have lapsed.
LEMMA AwayStep ==
  ASSUME TypeOK, Next
  PROVE  away' \in [Characters -> SUBSET {v \in View : v.lapsed}]
  <1>1. CASE away' = away
    BY <1>1 DEF TypeOK
  <1>2. ASSUME NEW c \in Characters, Select(c) \/ Return(c)
        PROVE  away' \in [Characters -> SUBSET {v \in View : v.lapsed}]
    <2> DEFINE v == [view[c] EXCEPT !.lapsed = TRUE]
    <2>1. v \in View /\ v.lapsed
      BY DEF TypeOK, View
    <2>2. away' \in {away, [away EXCEPT ![c] = @ \cup {v}]}
      BY <1>2 DEF Select, Return, Leaves
    <2> HIDE DEF v
    <2>3. CASE away' = [away EXCEPT ![c] = @ \cup {v}]
      BY <2>1, <2>3 DEF TypeOK
    <2>4. QED BY <1>1, <2>2, <2>3
  <1>3. \A c \in Characters :
          \/ Look(c) \/ Say(c) \/ Examine(c) \/ Stats(c) \/ Talk(c) \/ Rest(c) \/ Answer(c)
          \/ Resurrect(c) \/ ResurrectPay(c) \/ RingBell(c) \/ Give(c)
          => away' = away
    BY DEF Look, Say, Examine, Stats, Talk, Rest, Answer, Resurrect, ResurrectPay, RingBell,
           Give, sessions
  <1>4. ASSUME NEW c \in Characters,
               (\E r \in Rooms : Move(c, r)) \/ \E m \in Foes : Kill(c, m) \/ Exchange(c, m) \/ Loot(c, m)
        PROVE  away' = away
    <2>1. ASSUME NEW r \in Rooms, Move(c, r) PROVE away' = away
      BY <2>1 DEF Move
    <2>2. ASSUME NEW m \in Foes, Kill(c, m) \/ Loot(c, m) PROVE away' = away
      BY <2>2 DEF Kill, Loot
    <2>3. ASSUME NEW m \in Foes, Exchange(c, m) PROVE away' = away
      BY <2>3 DEF Exchange
    <2>4. QED BY <1>4, <2>1, <2>2, <2>3
  <1>5. \A c \in Characters, i \in Items :
          \/ Take(c, i) \/ Drop(c, i) \/ UseScripted(c, i) \/ Use(c, i)
          \/ Equip(c, i) \/ Unequip(c, i)
          => away' = away
    BY DEF Take, Drop, UseScripted, Use, Equip, Unequip, sessions
  <1>6. (\E m \in Foes : FallDue(m) \/ Decay(m)) \/ Restart => away' = away
    BY DEF FallDue, Decay, Restart, sessions
  <1>7. \A c \in Characters : TakeAll(c) => away' = away
    BY DEF TakeAll, sessions
  <1>8. ASSUME NEW c \in Characters, Act(c)
        PROVE  away' = away
    BY <1>3, <1>4, <1>5, <1>7, <1>8 DEF Act
  <1>9. QED BY <1>1, <1>2, <1>3, <1>6, <1>8 DEF Next

(***************************************************************************)
(* The manifest.                                                           *)
(***************************************************************************)

\* What is picked up is carried, what is dropped lies there.
LEMMA HandledManifest ==
  ASSUME TypeOK, InWorld, NEW c \in Characters,
         \/ \E i \in Items : Take(c, i) \/ Drop(c, i) \/ Use(c, i)
         \/ TakeAll(c)
  PROVE  InWorld'
  <1>1. /\ \A r \in Rooms : ground[r] \in [Items -> Nat]
        /\ \A d \in Characters : pack[d] \in [Items -> Nat] /\ hero[d].room \in Rooms
    BY DEF TypeOK, Stock, Hero
  <1>2. ASSUME NEW i \in Items, Take(c, i) PROVE InWorld'
    <2> DEFINE r == hero[c].room
    <2>1. /\ ground' = [ground EXCEPT ![r][i] = @ - 1]
          /\ pack' = [pack EXCEPT ![c][i] = @ + 1]
      BY <1>2 DEF Take, Stored
    <2>2. CASE i = Manifest
      <3>1. pack'[c][Manifest] = pack[c][Manifest] + 1
        BY <1>1, <2>1, <2>2 DEF TypeOK
      <3>2. pack[c][Manifest] \in Nat
        BY <1>1, Things
      <3>3. QED BY <3>1, <3>2 DEF InWorld
    <2>3. CASE i # Manifest
      <3>1. /\ \A s \in Rooms : ground'[s][Manifest] = ground[s][Manifest]
            /\ \A d \in Characters : pack'[d][Manifest] = pack[d][Manifest]
        BY <1>1, <2>1, <2>3, Things DEF TypeOK
      <3>2. QED BY <3>1 DEF InWorld
    <2>4. QED BY <2>2, <2>3
  <1>3. ASSUME NEW i \in Items, Drop(c, i) PROVE InWorld'
    <2> DEFINE r == hero[c].room
    <2>1. /\ ground' = [ground EXCEPT ![r][i] = @ + 1]
          /\ pack' = [pack EXCEPT ![c][i] = @ - 1]
      BY <1>3 DEF Drop, Removed
    <2>2. CASE i = Manifest
      <3>1. ground'[r][Manifest] = ground[r][Manifest] + 1
        BY <1>1, <2>1, <2>2 DEF TypeOK
      <3>2. ground[r][Manifest] \in Nat /\ r \in Rooms
        BY <1>1, Things
      <3>3. QED BY <3>1, <3>2 DEF InWorld
    <2>3. CASE i # Manifest
      <3>1. /\ \A s \in Rooms : ground'[s][Manifest] = ground[s][Manifest]
            /\ \A d \in Characters : pack'[d][Manifest] = pack[d][Manifest]
        BY <1>1, <2>1, <2>3, Things DEF TypeOK
      <3>2. QED BY <3>1 DEF InWorld
    <2>4. QED BY <2>2, <2>3
  <1>4. ASSUME NEW i \in Items, Use(c, i) PROVE InWorld'
    <2>1. i # Manifest /\ pack' = [pack EXCEPT ![c][i] = @ - 1] /\ ground' = ground
      BY <1>4, Things DEF Use, Removed
    <2>2. \A d \in Characters : pack'[d][Manifest] = pack[d][Manifest]
      BY <1>1, <2>1, Things DEF TypeOK
    <2>3. QED BY <2>1, <2>2 DEF InWorld
  <1>5. CASE TakeAll(c)
    <2> DEFINE r == hero[c].room
    <2>1. PICK armful \in [Items -> 0..Capacity] :
            /\ pack' = [pack EXCEPT ![c] = [i \in Items |-> @[i] + armful[i]]]
            /\ ground' = [ground EXCEPT ![r] = [i \in Items |-> @[i] - armful[i]]]
      BY <1>5 DEF TakeAll
    <2>2. armful[Manifest] \in 0..Capacity /\ Capacity \in Nat
      BY Things, Numbers
    <2>3. /\ pack'[c][Manifest] = pack[c][Manifest] + armful[Manifest]
          /\ ground'[r][Manifest] = ground[r][Manifest] - armful[Manifest]
          /\ \A s \in Rooms : s # r => ground'[s] = ground[s]
          /\ \A d \in Characters : d # c => pack'[d] = pack[d]
      BY <1>1, <2>1, Things DEF TypeOK
    <2>4. pack[c][Manifest] \in Nat /\ ground[r][Manifest] \in Nat
      BY <1>1, Things
    <2>5. CASE armful[Manifest] > 0
      <3>1. pack'[c][Manifest] > 0
        BY <2>2, <2>3, <2>4, <2>5
      <3>2. QED BY <3>1 DEF InWorld
    <2>6. CASE armful[Manifest] = 0
      <3>1. /\ \A s \in Rooms : ground'[s][Manifest] = ground[s][Manifest]
            /\ \A d \in Characters : pack'[d][Manifest] = pack[d][Manifest]
        <4>1. pack'[c][Manifest] = pack[c][Manifest]
                /\ ground'[r][Manifest] = ground[r][Manifest]
          BY <2>3, <2>4, <2>6
        <4>2. QED BY <2>3, <4>1
      <3>2. QED BY <3>1 DEF InWorld
    <2>7. QED BY <2>2, <2>5, <2>6
  <1>6. QED BY <1>2, <1>3, <1>4, <1>5

\* A delivery puts one in the docks, a start only adds, a corpse holds none.
LEMMA ManifestStays ==
  ASSUME TypeOK, InWorld, Next
  PROVE  InWorld'
  <1>1. /\ \A r \in Rooms : ground[r] \in [Items -> Nat]
        /\ \A d \in Characters : pack[d] \in [Items -> Nat]
    BY DEF TypeOK, Stock
  <1>2. ASSUME NEW c \in Characters, Give(c) PROVE InWorld'
    <2>1. ground' = [ground EXCEPT ![Docks][Manifest] = 1]
      BY <1>2 DEF Give, WashedUp
    <2>2. ground'[Docks][Manifest] = 1
      BY <1>1, <2>1, Places, Things DEF TypeOK
    <2>3. QED BY <2>2, Places DEF InWorld
  <1>3. ASSUME NEW c \in Characters, NEW m \in Foes, Loot(c, m) PROVE InWorld'
    <2>1. ground' = ground
            /\ pack' \in {pack, [pack EXCEPT ![c][corpse[m].item] = @ + 1]}
      BY <1>3 DEF Loot
    <2>2. CASE pack' = pack
      BY <2>1, <2>2 DEF InWorld
    <2>3. CASE pack' = [pack EXCEPT ![c][corpse[m].item] = @ + 1]
      <3> DEFINE i == corpse[m].item
      <3>1. \A d \in Characters : pack'[d][Manifest] \in {pack[d][Manifest], pack[d][Manifest] + 1}
        <4>1. \A d \in Characters : d # c => pack'[d] = pack[d]
          BY <2>3 DEF TypeOK
        <4>2. pack'[c] = [pack[c] EXCEPT ![i] = @ + 1]
          BY <2>3 DEF TypeOK
        <4> HIDE DEF i
        <4>3. pack'[c][Manifest] \in {pack[c][Manifest], pack[c][Manifest] + 1}
          BY <1>1, <4>2, Things
        <4>4. QED BY <4>1, <4>3
      <3>2. \A d \in Characters : pack[d][Manifest] \in Nat
        BY <1>1, Things
      <3>3. \A d \in Characters : pack[d][Manifest] > 0 => pack'[d][Manifest] > 0
        BY <3>1, <3>2
      <3>4. QED BY <2>1, <3>3 DEF InWorld
    <2>4. QED BY <2>1, <2>2, <2>3
  <1>4. CASE Restart
    <2>1. /\ \A r \in Rooms : ground'[r][Manifest] \in {1, ground[r][Manifest]}
          /\ pack' = pack
      BY <1>4, Things DEF Restart
    <2>2. QED BY <2>1 DEF InWorld
  <1>5. CASE ground' = ground /\ pack' = pack
    BY <1>5 DEF InWorld
  <1>6. \A c \in Characters :
          \/ Look(c) \/ Say(c) \/ Examine(c) \/ Stats(c) \/ Talk(c) \/ Rest(c) \/ Answer(c)
          \/ Resurrect(c) \/ ResurrectPay(c) \/ Select(c) \/ Return(c) \/ RingBell(c)
          => ground' = ground /\ pack' = pack
    BY DEF Look, Say, Examine, Stats, Talk, Rest, Answer, Resurrect, ResurrectPay, Select, Return,
           RingBell
  <1>7. \A c \in Characters :
          \/ \E r \in Rooms : Move(c, r)
          \/ \E m \in Foes : Kill(c, m) \/ Exchange(c, m)
          => ground' = ground /\ pack' = pack
    BY DEF Move, Kill, Exchange
  <1>8. \A c \in Characters, i \in Items :
          UseScripted(c, i) \/ Equip(c, i) \/ Unequip(c, i) => ground' = ground /\ pack' = pack
    BY DEF UseScripted, Equip, Unequip
  <1>9. (\E m \in Foes : FallDue(m) \/ Decay(m)) => ground' = ground /\ pack' = pack
    BY DEF FallDue, Decay
  <1>10. ASSUME NEW c \in Characters, Act(c) PROVE InWorld'
    BY <1>2, <1>3, <1>5, <1>6, <1>7, <1>8, <1>10, HandledManifest DEF Act
  <1>11. QED BY <1>4, <1>5, <1>6, <1>9, <1>10 DEF Next

(***************************************************************************)
(* The invariant.                                                          *)
(***************************************************************************)

LEMMA WorldInit == Init => WorldInv
  <1> SUFFICES ASSUME Init PROVE WorldInv
    OBVIOUS
  <1>1. PICK s \in Stories :
          /\ ground = s.ground /\ left = s.left
          /\ foe = [m \in s.foes |-> [health |-> FoeHealth[m], due |-> FALSE]]
    BY DEF Init
  <1>2. s.ground \in [Rooms -> [Items -> Nat]] /\ s.foes \subseteq Foes
          /\ s.left \in [kills : Nat, errands : Nat, restarts : Nat, visits : Nat]
    BY WorldAssumption
  <1>3. DOMAIN foe \subseteq Foes /\ foe \in [DOMAIN foe -> [health : Nat, due : BOOLEAN]]
          /\ \A m \in DOMAIN foe : foe[m].health <= FoeHealth[m]
    BY <1>1, <1>2, Monsters
  <1> DEFINE fresh == [room |-> Square, health |-> MaxHealth, stamina |-> MaxStamina,
                       dead |-> FALSE, bell |-> "none", gold |-> 0, experience |-> 0]
  <1>4. fresh \in Hero
    BY Numbers, Places DEF Hero
  <1>5. hero \in [Characters -> Hero]
    BY <1>4 DEF Init
  <1>6. TypeOK
    <2>1. ground \in [Rooms -> Stock] /\ left \in [kills : Nat, errands : Nat, restarts : Nat, visits : Nat]
      BY <1>1, <1>2 DEF Stock
    <2>2. pack \in [Characters -> Stock] /\ worn \in [Characters -> SUBSET Items]
      BY DEF Init, Stock, Empty
    <2>3. /\ corpse \in [Foes -> Corpse \cup {NoCorpse}] /\ lost \in [Characters -> Nat]
          /\ books \in [Characters -> [deliveries : Nat, fees : Nat, prizes : Nat]]
      BY DEF Init
    <2>4. view \in [Characters -> View] /\ away \in [Characters -> SUBSET {v \in View : v.lapsed}]
      BY Places DEF Init, View
    <2>5. QED BY <1>3, <1>5, <2>1, <2>2, <2>3, <2>4 DEF TypeOK
  <1>7. DeadInHall /\ ViewTrue
    <2>1. \A c \in Characters :
            hero[c] = fresh /\ view[c] = [room |-> Square, dead |-> FALSE, lapsed |-> FALSE]
      BY DEF Init
    <2>2. DeadInHall
      BY <2>1, Numbers DEF DeadInHall
    <2>3. ViewTrue
      <3>1. ASSUME NEW c \in Characters PROVE InPlace(c) /\ view[c].dead = hero[c].dead
        <4>1. hero[c].room = Square /\ hero[c].dead = FALSE
          BY <2>1
        <4>2. view[c].room = Square /\ view[c].dead = FALSE
          BY <2>1
        <4>3. QED BY <4>1, <4>2, Zenon DEF InPlace
      <3>2. QED BY <3>1 DEF ViewTrue
    <2>4. QED BY <2>2, <2>3
  <1>8. WornIsCarried /\ OneManifest
    BY Things DEF Init, WornIsCarried, OneManifest, Empty
  <1>9. QED BY <1>6, <1>7, <1>8 DEF WorldInv

LEMMA WorldStep == WorldInv /\ [Next]_vars => WorldInv'
  <1> SUFFICES ASSUME WorldInv, [Next]_vars PROVE WorldInv'
    OBVIOUS
  <1>1. CASE Next
    <2>1. TypeOK /\ DeadInHall /\ WornIsCarried /\ OneManifest /\ ViewTrue
      BY DEF WorldInv
    <2>2. hero' \in [Characters -> Hero] /\ DeadInHall'
      <3>1. hero' \in [Characters -> Hero] /\ \A c \in Characters : Sound(hero'[c])
        <4>1. CASE hero' = hero
          BY <2>1, <4>1, SoundHero DEF TypeOK
        <4>2. ASSUME NEW c \in Characters, NEW h \in Hero,
                     hero' = [hero EXCEPT ![c] = h], Becomes(hero[c], h)
              PROVE  hero' \in [Characters -> Hero] /\ \A d \in Characters : Sound(hero'[d])
          BY <2>1, <4>2, SoundHero DEF TypeOK, Becomes
        <4>3. QED BY <1>1, <2>1, <4>1, <4>2, HeroStep
      <3>2. QED BY <3>1 DEF Sound, DeadInHall
    <2>3. pack' \in [Characters -> Stock] /\ worn' \in [Characters -> SUBSET Items]
            /\ WornIsCarried' /\ OneManifest'
      <3>1. CASE pack' = pack /\ worn' = worn
        BY <2>1, <3>1 DEF TypeOK, WornIsCarried, OneManifest, Carried
      <3>2. ASSUME NEW c \in Characters,
                   \A d \in Characters : d # c => pack'[d] = pack[d] /\ worn'[d] = worn[d],
                   pack' = [pack EXCEPT ![c] = pack'[c]], worn' = [worn EXCEPT ![c] = worn'[c]],
                   PackOk(pack'[c], worn'[c])
            PROVE  pack' \in [Characters -> Stock] /\ worn' \in [Characters -> SUBSET Items]
                     /\ WornIsCarried' /\ OneManifest'
        <4>1. pack'[c] \in Stock /\ worn'[c] \in SUBSET Items
          BY <3>2 DEF PackOk
        <4>2. pack' \in [Characters -> Stock] /\ worn' \in [Characters -> SUBSET Items]
          BY <2>1, <3>2, <4>1 DEF TypeOK
        <4>3. \A d \in Characters :
                /\ worn'[d] \subseteq {i \in Items : pack'[d][i] > 0}
                /\ \A i, j \in worn'[d] : ItemType[i] = ItemType[j] => i = j
                /\ pack'[d][Manifest] <= 1
          <5>1. \A d \in Characters : d # c =>
                  /\ worn'[d] \subseteq {i \in Items : pack'[d][i] > 0}
                  /\ \A i, j \in worn'[d] : ItemType[i] = ItemType[j] => i = j
                  /\ pack'[d][Manifest] <= 1
            BY <2>1, <3>2 DEF WornIsCarried, OneManifest, Carried
          <5>2. QED BY <3>2, <5>1 DEF PackOk
        <4>4. QED BY <4>2, <4>3 DEF WornIsCarried, OneManifest, Carried
      <3>3. QED BY <1>1, <2>1, <3>1, <3>2, PackStep
    <2>4. TypeOK'
      <3>1. Horde(foe')
        BY <1>1, <2>1, FoeStep
      <3>2. view' \in [Characters -> View] /\ away' \in [Characters -> SUBSET {v \in View : v.lapsed}]
        BY <1>1, <2>1, <2>2, ViewStep, AwayStep
      <3>3. QED BY <1>1, <2>1, <2>2, <2>3, <3>1, <3>2, GroundStep, CorpseStep, BooksStep
                DEF TypeOK, Horde, Books, Budgets
    <2>5. ViewTrue'
      BY <1>1, <2>1, <2>2, ViewStep
    <2>6. QED BY <2>2, <2>3, <2>4, <2>5 DEF WorldInv
  <1>2. CASE UNCHANGED vars
    BY <1>2 DEF vars, sessions, WorldInv, TypeOK, DeadInHall, WornIsCarried, OneManifest, Carried,
                ViewTrue, InPlace
  <1>3. QED BY <1>1, <1>2

\* In every state the dead are in the Hall of Returning with the bell set and
\* whoever has no health is dead, what is worn is carried and of one piece for a
\* type, nobody carries two manifests, and no number is below zero.
THEOREM WorldInvariant == Spec => []WorldInv
  BY WorldInit, WorldStep, PTL DEF Spec

\* Dying costs nothing; the dead stay where they are and pay only to live; and
\* what they have is touched by none but a session that returned from a lapse
\* with a copy in which they live.
THEOREM DeathIsFree == Spec => DeathTakesNothing
  <1>1. WorldInv /\ [Next]_vars =>
          [\A c \in Characters :
             /\ hero[c].dead => StaysInHall(c)
             /\ hero[c].dead /\ (view[c].dead \/ ~view[c].lapsed) => Keeps(c)
             /\ hero'[c].dead /\ ~hero[c].dead => DiesFreely(c)]_vars
    <2> SUFFICES ASSUME WorldInv, Next, NEW c \in Characters
                 PROVE  /\ hero[c].dead => StaysInHall(c)
                        /\ hero[c].dead /\ (view[c].dead \/ ~view[c].lapsed) => Keeps(c)
                        /\ hero'[c].dead /\ ~hero[c].dead => DiesFreely(c)
      BY DEF vars
    <2>1. TypeOK /\ DeadInHall /\ WornIsCarried /\ OneManifest /\ ViewTrue
      BY DEF WorldInv
    <2>2. hero'[c] = hero[c] \/ Becomes(hero[c], hero'[c])
      BY <2>1, HeroStep DEF TypeOK
    <2>3. view[c].dead \/ hero'[c].dead # hero[c].dead => Keeps(c)
      BY <2>1, PackStep DEF Keeps
    <2>4. hero[c].dead /\ ~view[c].lapsed => view[c].dead
      BY <2>1 DEF ViewTrue
    <2>5. hero[c].dead => StaysInHall(c)
      BY <2>2 DEF Becomes, StaysInHall
    <2>6. hero'[c].dead /\ ~hero[c].dead =>
            hero'[c].gold = hero[c].gold /\ hero'[c].experience = hero[c].experience
      BY <2>2 DEF Becomes
    <2>7. QED BY <2>3, <2>4, <2>5, <2>6 DEF DiesFreely
  <1>2. QED BY <1>1, WorldInvariant, PTL DEF Spec, DeathTakesNothing

\* Taken, dropped, delivered or placed again, by whomever and in any order: once
\* a manifest is in the world there is always one.
THEOREM ManifestNeverLost == Spec => ManifestKept
  <1>1. WorldInv /\ [Next]_vars => [InWorld => InWorld']_vars
    BY ManifestStays DEF WorldInv
  <1>2. QED BY <1>1, WorldInvariant, PTL DEF Spec, ManifestKept

=============================================================================
