--------------------------- MODULE GameAccountsProofs ---------------------------
(***************************************************************************)
(* For any world, any prices and any number of characters: every coin is   *)
(* accounted for, and no pack holds more than its capacity.                *)
(***************************************************************************)
EXTENDS GameWorldProofs, WellFoundedInduction

(***************************************************************************)
(* Purses on corpses.                                                      *)
(***************************************************************************)

\* Purses c is still to get, or will never.
Owed(c) == Cardinality(Purses(c)) + lost[c]

LEMMA FewFoes ==
  ASSUME NEW S, S \subseteq Foes
  PROVE  IsFiniteSet(S) /\ Cardinality(S) \in Nat
  <1>1. IsFiniteSet(S)
    BY WorldAssumption, FS_Subset
  <1>2. QED BY <1>1, FS_CardinalityType

LEMMA OwedType ==
  ASSUME TypeOK, NEW c \in Characters
  PROVE  Cardinality(Purses(c)) \in Nat /\ lost[c] \in Nat /\ Owed(c) \in Nat
  <1>1. Purses(c) \subseteq Foes
    BY DEF Purses
  <1>2. Cardinality(Purses(c)) \in Nat
    BY <1>1, FewFoes
  <1>3. lost[c] \in Nat
    BY DEF TypeOK
  <1>4. QED BY <1>2, <1>3 DEF Owed

\* The purses of c that are left once the expired corpses are deleted.
KeptPurses(c) == {m \in Foes : Kept[m] # NoCorpse /\ Kept[m].owner = c /\ Kept[m].coin}

\* What rots with a corpse is still in the account.
LEMMA DecayKeepsAccount ==
  ASSUME TypeOK, NEW c \in Characters
  PROVE  /\ Cardinality(KeptPurses(c)) + LostPurses[c] = Owed(c)
         /\ Cardinality(KeptPurses(c)) \in Nat /\ LostPurses[c] \in Nat
  <1> DEFINE D == {m \in Decayed : corpse[m].owner = c /\ corpse[m].coin}
             K == KeptPurses(c)
  <1>1. D \subseteq Foes /\ K \subseteq Foes
    BY DEF Decayed, KeptPurses
  <1>2. IsFiniteSet(D) /\ IsFiniteSet(K) /\ Cardinality(D) \in Nat /\ Cardinality(K) \in Nat
    BY <1>1, FewFoes
  <1>3. \A m \in Foes : Kept[m] = IF m \in Decayed THEN NoCorpse ELSE corpse[m]
    BY DEF Kept
  <1>4. Purses(c) = K \cup D /\ K \cap D = {}
    <2>1. \A m \in K : m \in Purses(c) /\ m \notin D
      BY <1>3 DEF KeptPurses, Purses
    <2>2. \A m \in D : m \in Purses(c)
      BY DEF Decayed, Purses
    <2>3. \A m \in Purses(c) : m \in K \/ m \in D
      BY <1>3 DEF KeptPurses, Purses
    <2>4. QED BY <2>1, <2>2, <2>3
  <1>5. LostPurses[c] = lost[c] + Cardinality(D) /\ lost[c] \in Nat
    BY DEF LostPurses, TypeOK
  <1> HIDE DEF D, K
  <1>6. Cardinality(K \cap D) = 0
    BY <1>4, FS_EmptySet
  <1>7. Cardinality(Purses(c)) = Cardinality(K) + Cardinality(D)
    <2>1. Cardinality(K \cup D) = Cardinality(K) + Cardinality(D) - Cardinality(K \cap D)
      BY <1>2, FS_Union
    <2>2. QED BY <1>2, <1>4, <1>6, <2>1
  <1>8. Owed(c) = Cardinality(K) + Cardinality(D) + lost[c]
    BY <1>7 DEF Owed
  <1>9. Cardinality(K) + LostPurses[c] = Owed(c) /\ LostPurses[c] \in Nat
    BY <1>2, <1>5, <1>8
  <1>10. QED BY <1>2, <1>9 DEF K

LEMMA RefreshKeepsAccount ==
  ASSUME TypeOK, corpse' = Kept, lost' = LostPurses, NEW c \in Characters
  PROVE  Owed(c)' = Owed(c)
  <1>1. Purses(c)' = KeptPurses(c)
    BY DEF Purses, KeptPurses
  <1>2. QED BY <1>1, DecayKeepsAccount DEF Owed

LEMMA QuietKeepsAccount ==
  ASSUME corpse' = corpse, lost' = lost
  PROVE  \A c \in Characters : Owed(c)' = Owed(c)
  BY DEF Owed, Purses

\* A kill puts one purse on a corpse that was not there.
LEMMA KillOwes ==
  ASSUME TypeOK, NEW c \in Characters, NEW m \in Foes, Kill(c, m), NEW d \in Characters
  PROVE  Owed(d)' = IF d = c THEN Owed(d) + 1 ELSE Owed(d)
  <1>1. PICK item \in Drops[m] \cup {NoItem} :
          corpse' = [Kept EXCEPT ![m] = [owner |-> c, coin |-> TRUE, item |-> item, expired |-> FALSE]]
    BY DEF Kill
  <1> DEFINE body == [owner |-> c, coin |-> TRUE, item |-> item, expired |-> FALSE]
  <1>2. body \in Corpse /\ body.owner = c /\ body.coin
    BY Monsters DEF Corpse
  <1>3. Kept[m] = NoCorpse /\ lost' = LostPurses
    BY DEF Kill, IndexAccepts
  <1>4. /\ corpse'[m] = body
        /\ \A n \in Foes : n # m => corpse'[n] = Kept[n]
    BY <1>1 DEF Kept
  <1> HIDE DEF body
  <1>5. body # NoCorpse
    BY <1>2, WorldNull
  <1>6. m \notin KeptPurses(d) /\ KeptPurses(d) \subseteq Foes
    BY <1>3 DEF KeptPurses
  <1>7. Purses(d)' = IF d = c THEN KeptPurses(d) \cup {m} ELSE KeptPurses(d)
    BY <1>2, <1>3, <1>4, <1>5 DEF Purses, KeptPurses
  <1>8. Cardinality(KeptPurses(d) \cup {m}) = Cardinality(KeptPurses(d)) + 1
    BY <1>6, FewFoes, FS_AddElement
  <1>9. Owed(d)' = Cardinality(Purses(d)') + LostPurses[d]
    BY <1>3 DEF Owed
  <1>10. Cardinality(KeptPurses(d)) + LostPurses[d] = Owed(d)
          /\ Cardinality(KeptPurses(d)) \in Nat /\ LostPurses[d] \in Nat
    BY DecayKeepsAccount
  <1>11. QED BY <1>7, <1>8, <1>9, <1>10

\* Looting takes the purse off the corpse, once.
LEMMA LootSettles ==
  ASSUME TypeOK, NEW c \in Characters, NEW m \in Foes, Loot(c, m), NEW d \in Characters
  PROVE  Owed(d)' = IF d = c /\ corpse[m].coin THEN Owed(d) - 1 ELSE Owed(d)
  <1>1. /\ Kept[m] # NoCorpse /\ corpse[m].owner = c /\ lost' = LostPurses
        /\ corpse' \in {[Kept EXCEPT ![m] = NoCorpse], [Kept EXCEPT ![m] = [corpse[m] EXCEPT !.coin = FALSE]]}
    BY DEF Loot
  <1>2. Kept[m] = corpse[m] /\ corpse[m] \in Corpse
    BY <1>1 DEF Kept, TypeOK
  <1> DEFINE bare == [corpse[m] EXCEPT !.coin = FALSE]
  <1>3. bare.coin = FALSE /\ corpse[m].coin \in BOOLEAN
    BY <1>2 DEF Corpse
  <1> HIDE DEF bare
  <1>4. /\ corpse'[m] = NoCorpse \/ corpse'[m] = bare
        /\ \A n \in Foes : n # m => corpse'[n] = Kept[n]
    BY <1>1 DEF Kept, bare
  <1>5. m \notin Purses(d)' /\ Purses(d)' = KeptPurses(d) \ {m}
    <2>1. m \notin Purses(d)'
      BY <1>3, <1>4 DEF Purses
    <2>2. \A n \in Foes : n # m => (n \in Purses(d)' <=> n \in KeptPurses(d))
      BY <1>4 DEF Purses, KeptPurses
    <2>3. KeptPurses(d) \subseteq Foes /\ Purses(d)' \subseteq Foes
      BY DEF KeptPurses, Purses
    <2>4. QED BY <2>1, <2>2, <2>3
  <1>6. m \in KeptPurses(d) <=> d = c /\ corpse[m].coin
    BY <1>1, <1>2 DEF KeptPurses
  <1>7. /\ m \in KeptPurses(d) => Cardinality(KeptPurses(d) \ {m}) = Cardinality(KeptPurses(d)) - 1
        /\ m \notin KeptPurses(d) => KeptPurses(d) \ {m} = KeptPurses(d)
    <2>1. IsFiniteSet(KeptPurses(d))
      <3>1. KeptPurses(d) \subseteq Foes
        BY DEF KeptPurses
      <3>2. QED BY <3>1, FewFoes
    <2>2. QED BY <2>1, FS_RemoveElement
  <1>8. Owed(d)' = Cardinality(Purses(d)') + LostPurses[d]
    BY <1>1 DEF Owed
  <1>9. Cardinality(KeptPurses(d)) + LostPurses[d] = Owed(d)
          /\ Cardinality(KeptPurses(d)) \in Nat /\ LostPurses[d] \in Nat
    BY DecayKeepsAccount
  <1>10. Cardinality(Purses(d)') =
           Cardinality(KeptPurses(d)) - IF d = c /\ corpse[m].coin THEN 1 ELSE 0
    BY <1>5, <1>6, <1>7, <1>9
  <1>11. QED BY <1>8, <1>9, <1>10

\* An expired corpse keeps its purse until it is deleted.
LEMMA ExpiryKeepsAccount ==
  ASSUME TypeOK, NEW m \in Foes, Decay(m), NEW d \in Characters
  PROVE  Owed(d)' = Owed(d)
  <1> DEFINE old == [corpse[m] EXCEPT !.expired = TRUE]
  <1>1. corpse' = [corpse EXCEPT ![m] = old] /\ lost' = lost /\ corpse[m] # NoCorpse
    BY DEF Decay, TypeOK
  <1>2. corpse[m] \in Corpse
    BY <1>1 DEF TypeOK
  <1>3. old \in Corpse /\ old # NoCorpse /\ old.owner = corpse[m].owner /\ old.coin = corpse[m].coin
    BY <1>2, WorldNull DEF Corpse
  <1>4. corpse'[m] = old /\ \A n \in Foes : n # m => corpse'[n] = corpse[n]
    BY <1>1 DEF TypeOK
  <1> HIDE DEF old
  <1>5. Purses(d)' = Purses(d)
    <2>1. \A n \in Foes : n \in Purses(d)' <=> n \in Purses(d)
      BY <1>1, <1>3, <1>4 DEF Purses
    <2>2. QED BY <2>1 DEF Purses
  <1>6. QED BY <1>1, <1>5 DEF Owed

(***************************************************************************)
(* The ledger.                                                             *)
(***************************************************************************)

\* What a step may enter in the account of c: nothing, or one of five events.
SameCharacter(c) == hero'[c].gold = hero[c].gold /\ hero'[c].experience = hero[c].experience
SameBooks(c)     == books'[c] = books[c]
SameOwed(c)      == Owed(c)' = Owed(c)

Nothing(c) == SameCharacter(c) /\ SameBooks(c) /\ SameOwed(c)

Killed(c) ==
  /\ hero'[c].gold = hero[c].gold /\ hero'[c].experience = hero[c].experience + 1
  /\ SameBooks(c) /\ Owed(c)' = Owed(c) + 1

Looted(c) ==
  /\ hero'[c].gold = hero[c].gold + Purse /\ hero'[c].experience = hero[c].experience
  /\ SameBooks(c) /\ Owed(c)' = Owed(c) - 1

PaidFee(c) ==
  /\ hero'[c].gold = hero[c].gold - Fee /\ hero'[c].experience = hero[c].experience
  /\ books'[c].fees = books[c].fees + 1 /\ books'[c].deliveries = books[c].deliveries
  /\ books'[c].prizes = books[c].prizes /\ SameOwed(c)

Delivered(c) ==
  /\ hero'[c].gold = hero[c].gold + Reward /\ hero'[c].experience = hero[c].experience
  /\ books'[c].fees = books[c].fees /\ books'[c].deliveries = books[c].deliveries + 1
  /\ books'[c].prizes = books[c].prizes /\ SameOwed(c)

Won(c) ==
  /\ hero'[c].gold = hero[c].gold + Prize /\ hero'[c].experience = hero[c].experience
  /\ books'[c].fees = books[c].fees /\ books'[c].deliveries = books[c].deliveries
  /\ books'[c].prizes = books[c].prizes + 1 /\ SameOwed(c)

Entered(c) == Nothing(c) \/ Killed(c) \/ Looted(c) \/ PaidFee(c) \/ Delivered(c) \/ Won(c)

Balanced(c) ==
  hero[c].gold + Fee * books[c].fees + Purse * Owed(c)
    = Purse * hero[c].experience + Reward * books[c].deliveries + Prize * books[c].prizes

LEMMA OneMore ==
  ASSUME NEW x \in Nat, NEW n \in Nat
  PROVE  /\ x * (n + 1) = x * n + x
         /\ x * (n - 1) = x * n - x
         /\ x * n \in Int
  OBVIOUS

\* Whatever is added on one side is added on the other, or moved within its own.
LEMMA BothSides ==
  ASSUME NEW g \in Int, NEW f \in Int, NEW o \in Int, NEW x \in Int, NEW d \in Int, NEW p \in Int,
         g + f + o = x + d + p, NEW e \in Int
  PROVE  /\ g + f + (o + e) = (x + e) + d + p
         /\ (g + e) + f + (o - e) = x + d + p
         /\ (g - e) + (f + e) + o = x + d + p
         /\ (g + e) + f + o = x + (d + e) + p
         /\ (g + e) + f + o = x + d + (p + e)
  OBVIOUS

\* Every event is entered on both sides.
LEMMA EntriesBalance ==
  ASSUME TypeOK, NEW c \in Characters, Balanced(c), Entered(c)
  PROVE  Balanced(c)'
  <1> DEFINE g == hero[c].gold
             x == hero[c].experience
             o == Owed(c)
             f == books[c].fees
             d == books[c].deliveries
             p == books[c].prizes
  <1>1. g \in Nat /\ x \in Nat /\ o \in Nat /\ f \in Nat /\ d \in Nat /\ p \in Nat
    <2>1. hero[c] \in Hero /\ books[c] \in [deliveries : Nat, fees : Nat, prizes : Nat]
      BY DEF TypeOK
    <2>2. QED BY <2>1, OwedType, HeroParts
  <1>2. Purse \in Nat /\ Fee \in Nat /\ Reward \in Nat /\ Prize \in Nat
    BY Numbers
  <1>3. /\ Purse * (x + 1) = Purse * x + Purse /\ Purse * (o + 1) = Purse * o + Purse
        /\ Purse * (o - 1) = Purse * o - Purse /\ Fee * (f + 1) = Fee * f + Fee
        /\ Reward * (d + 1) = Reward * d + Reward /\ Prize * (p + 1) = Prize * p + Prize
    BY <1>1, <1>2, OneMore
  <1>4. /\ Purse * x \in Int /\ Purse * o \in Int /\ Fee * f \in Int
        /\ Reward * d \in Int /\ Prize * p \in Int
    BY <1>1, <1>2, OneMore
  <1>5. g + Fee * f + Purse * o = Purse * x + Reward * d + Prize * p
    BY DEF Balanced
  <1> DEFINE Fees == Fee * f
             Owing == Purse * o
             Kills == Purse * x
             Rewards == Reward * d
             Prizes == Prize * p
  <1>6. /\ g + Fees + (Owing + Purse) = (Kills + Purse) + Rewards + Prizes
        /\ (g + Purse) + Fees + (Owing - Purse) = Kills + Rewards + Prizes
        /\ (g - Fee) + (Fees + Fee) + Owing = Kills + Rewards + Prizes
        /\ (g + Reward) + Fees + Owing = Kills + (Rewards + Reward) + Prizes
        /\ (g + Prize) + Fees + Owing = Kills + Rewards + (Prizes + Prize)
    <2> SUFFICES ASSUME NEW e \in {Purse, Fee, Reward, Prize}
                 PROVE  /\ g + Fees + (Owing + e) = (Kills + e) + Rewards + Prizes
                        /\ (g + e) + Fees + (Owing - e) = Kills + Rewards + Prizes
                        /\ (g - e) + (Fees + e) + Owing = Kills + Rewards + Prizes
                        /\ (g + e) + Fees + Owing = Kills + (Rewards + e) + Prizes
                        /\ (g + e) + Fees + Owing = Kills + Rewards + (Prizes + e)
      BY Zenon
    <2>1. e \in Int /\ g \in Int
      BY <1>1, <1>2
    <2> HIDE DEF g, x, o, f, d, p
    <2>2. QED BY <1>4, <1>5, <2>1, BothSides
  <1>7. SUFFICES hero'[c].gold + Fee * books'[c].fees + Purse * Owed(c)'
                   = Purse * hero'[c].experience + Reward * books'[c].deliveries + Prize * books'[c].prizes
    BY DEF Balanced
  <1>8. CASE Nothing(c)
    BY <1>5, <1>8 DEF Nothing, SameCharacter, SameBooks, SameOwed
  <1>9. CASE Killed(c)
    BY <1>3, <1>6, <1>9, Zenon DEF Killed, SameBooks
  <1>10. CASE Looted(c)
    BY <1>3, <1>6, <1>10, Zenon DEF Looted, SameBooks
  <1>11. CASE PaidFee(c)
    BY <1>3, <1>6, <1>11, Zenon DEF PaidFee, SameOwed
  <1>12. CASE Delivered(c)
    BY <1>3, <1>6, <1>12, Zenon DEF Delivered, SameOwed
  <1>13. CASE Won(c)
    BY <1>3, <1>6, <1>13, Zenon DEF Won, SameOwed
  <1>14. QED BY <1>8, <1>9, <1>10, <1>11, <1>12, <1>13 DEF Entered

\* A row written with its coin and kills as they were.
LEMMA CoinStays ==
  ASSUME TypeOK, NEW c \in Characters, NEW h, hero' = [hero EXCEPT ![c] = h],
         h.gold = hero[c].gold, h.experience = hero[c].experience
  PROVE  \A d \in Characters : SameCharacter(d)
  BY DEF TypeOK, SameCharacter

\* Blows, sleep, potions and the bell move no coin.
LEMMA CoinUpdates ==
  ASSUME NEW h \in Hero, NEW x, NEW y
  PROVE  /\ [h EXCEPT !.health = x].gold = h.gold
         /\ [h EXCEPT !.health = x].experience = h.experience
         /\ [h EXCEPT !.stamina = x].gold = h.gold
         /\ [h EXCEPT !.stamina = x].experience = h.experience
         /\ [h EXCEPT !.bell = x].gold = h.gold
         /\ [h EXCEPT !.bell = x].experience = h.experience
         /\ [h EXCEPT !.health = x, !.stamina = y].gold = h.gold
         /\ [h EXCEPT !.health = x, !.stamina = y].experience = h.experience
         /\ Risen(h).gold = h.gold /\ Risen(h).experience = h.experience
  BY DEF Hero, Risen

(***************************************************************************)
(* The entries of each action.                                             *)
(***************************************************************************)

\* Nothing is entered by a step that moves neither coin nor corpses.
LEMMA NothingEntered ==
  ASSUME books' = books, \A d \in Characters : SameCharacter(d), \A d \in Characters : SameOwed(d)
  PROVE  \A d \in Characters : Entered(d)
  BY DEF Entered, Nothing, SameBooks

LEMMA SameHeroes ==
  ASSUME hero' = hero
  PROVE  \A d \in Characters : SameCharacter(d)
  BY DEF SameCharacter

LEMMA HookedEnter ==
  ASSUME TypeOK, NEW c \in Characters,
         \/ Look(c) \/ Say(c) \/ Talk(c) \/ Select(c)
         \/ \E r \in Rooms : Move(c, r)
         \/ \E i \in Items : UseScripted(c, i)
  PROVE  \A d \in Characters : Entered(d)
  <1>1. \A d \in Characters : SameOwed(d)
    BY RefreshKeepsAccount, QuietKeepsAccount
       DEF Look, Say, Talk, Select, Move, UseScripted, Refresh, SameOwed
  <1>2. books' = books
    BY DEF Look, Say, Talk, Select, Move, UseScripted
  <1>3. hero[c] \in Hero
    BY DEF TypeOK
  <1>4. \E g \in Hero :
          /\ g.gold = hero[c].gold /\ g.experience = hero[c].experience
          /\ \E h \in AfterHook(g) : hero' = [hero EXCEPT ![c] = h]
    <2>1. ASSUME NEW r \in Rooms, Move(c, r)
          PROVE  \E g \in Hero :
                   /\ g.gold = hero[c].gold /\ g.experience = hero[c].experience
                   /\ \E h \in AfterHook(g) : hero' = [hero EXCEPT ![c] = h]
      <3> DEFINE x == Most(0, hero[c].stamina - 1)
                 g == [hero[c] EXCEPT !.room = r, !.stamina = x]
      <3>1. x \in 0..MaxStamina
        BY <1>3, HeroParts, Numbers DEF Most
      <3>2. \E h \in AfterHook(g) : hero' = [hero EXCEPT ![c] = h]
        BY <2>1, HookHero DEF Move
      <3> HIDE DEF x
      <3>3. g \in Hero /\ g.gold = hero[c].gold /\ g.experience = hero[c].experience
        BY <1>3, <3>1 DEF Hero
      <3> HIDE DEF g
      <3>4. QED BY <3>2, <3>3
    <2>2. CASE Look(c) \/ Say(c) \/ Talk(c) \/ Select(c) \/ \E i \in Items : UseScripted(c, i)
      BY <1>3, <2>2, HookHero DEF Look, Say, Talk, Select, UseScripted
    <2>3. QED BY <2>1, <2>2
  <1>5. PICK g \in Hero :
          /\ g.gold = hero[c].gold /\ g.experience = hero[c].experience
          /\ \E h \in AfterHook(g) : hero' = [hero EXCEPT ![c] = h]
    BY <1>4
  <1>6. PICK h \in AfterHook(g) : hero' = [hero EXCEPT ![c] = h]
    BY <1>5
  <1>7. h.gold = hero[c].gold /\ h.experience = hero[c].experience
    BY <1>5, HookKeeps
  <1>8. \A d \in Characters : SameCharacter(d)
    BY <1>6, <1>7, CoinStays
  <1>9. QED BY <1>1, <1>2, <1>8, NothingEntered

LEMMA BodilyEnter ==
  ASSUME TypeOK, NEW c \in Characters,
         Rest(c) \/ Resurrect(c) \/ RingBell(c) \/ \E i \in Items : Use(c, i)
  PROVE  \A d \in Characters : Entered(d)
  <1>1. corpse' = corpse /\ lost' = lost /\ books' = books
    BY DEF Rest, Resurrect, RingBell, Use
  <1>2. \A d \in Characters : SameOwed(d)
    BY <1>1, QuietKeepsAccount DEF SameOwed
  <1>3. hero[c] \in Hero /\ hero \in [Characters -> Hero]
    BY DEF TypeOK
  <1>4. \E h : /\ hero' = [hero EXCEPT ![c] = h]
               /\ h.gold = hero[c].gold /\ h.experience = hero[c].experience
    <2>1. CASE Rest(c)
      <3> DEFINE h == [hero[c] EXCEPT !.health = MaxHealth, !.stamina = MaxStamina]
      <3>1. hero' = [hero EXCEPT ![c] = h]
        BY <1>3, <2>1 DEF Rest
      <3>2. h.gold = hero[c].gold /\ h.experience = hero[c].experience
        BY <1>3, CoinUpdates
      <3> HIDE DEF h
      <3>3. QED BY <3>1, <3>2
    <2>2. CASE Resurrect(c)
      BY <1>3, <2>2, CoinUpdates DEF Resurrect
    <2>3. CASE RingBell(c)
      <3> DEFINE h == [hero[c] EXCEPT !.bell = "rung"]
      <3>1. hero' = [hero EXCEPT ![c] = h]
        BY <1>3, <2>3 DEF RingBell
      <3>2. h.gold = hero[c].gold /\ h.experience = hero[c].experience
        BY <1>3, CoinUpdates
      <3> HIDE DEF h
      <3>3. QED BY <3>1, <3>2
    <2>4. ASSUME NEW i \in Items, Use(c, i)
          PROVE  \E h : /\ hero' = [hero EXCEPT ![c] = h]
                        /\ h.gold = hero[c].gold /\ h.experience = hero[c].experience
      <3>1. hero' = [hero EXCEPT ![c] = Used(hero[c], i)]
        BY <2>4 DEF Use
      <3>2. Used(hero[c], i).gold = hero[c].gold /\ Used(hero[c], i).experience = hero[c].experience
        BY <1>3, CoinUpdates DEF Used
      <3>3. QED BY <3>1, <3>2
    <2>5. QED BY <2>1, <2>2, <2>3, <2>4
  <1>5. \A d \in Characters : SameCharacter(d)
    BY <1>4, CoinStays
  <1>6. QED BY <1>1, <1>2, <1>5, NothingEntered

LEMMA ExchangeEnters ==
  ASSUME TypeOK, NEW c \in Characters, NEW m \in Foes, Exchange(c, m)
  PROVE  \A d \in Characters : Entered(d)
  <1> DEFINE x == Tired(c).health - Retaliation(c, m)
             hurt == [Tired(c) EXCEPT !.health = x]
  <1>1. MayStrike(c, m) /\ books' = books
    BY DEF Exchange
  <1>2. /\ Tired(c) \in Hero /\ Tired(c).gold = hero[c].gold
        /\ Tired(c).experience = hero[c].experience
    BY <1>1, TiredHero
  <1>3. \/ hero' = [hero EXCEPT ![c] = hurt] /\ corpse' = corpse /\ lost' = lost
        \/ /\ \E h \in AfterHook(Fallen(hurt)) : hero' = [hero EXCEPT ![c] = h]
           /\ corpse' = Kept /\ lost' = LostPurses
    <2>1. \/ hero' = [hero EXCEPT ![c] = hurt] /\ corpse' = corpse /\ lost' = lost
          \/ (\E v : Hook(c, Fallen(hurt), v)) /\ corpse' = Kept /\ lost' = LostPurses
      BY DEF Exchange
    <2>2. QED BY <2>1, HookHero
  <1> HIDE DEF x
  <1>4. hurt.gold = hero[c].gold /\ hurt.experience = hero[c].experience
    BY <1>2, CoinUpdates
  <1>5. /\ Fallen(hurt) \in Hero /\ Fallen(hurt).gold = hero[c].gold
        /\ Fallen(hurt).experience = hero[c].experience
    BY <1>2, FallenTired
  <1> HIDE DEF hurt
  <1>6. \A h \in AfterHook(Fallen(hurt)) : h.gold = hero[c].gold /\ h.experience = hero[c].experience
    BY <1>5, HookKeeps
  <1>7. \A d \in Characters : SameCharacter(d)
    BY <1>3, <1>4, <1>6, CoinStays
  <1>8. \A d \in Characters : SameOwed(d)
    BY <1>3, RefreshKeepsAccount, QuietKeepsAccount DEF SameOwed
  <1>9. QED BY <1>1, <1>7, <1>8, NothingEntered

LEMMA KillEnters ==
  ASSUME TypeOK, NEW c \in Characters, NEW m \in Foes, Kill(c, m)
  PROVE  \A d \in Characters : Entered(d)
  <1> DEFINE x == Tired(c).experience + 1
             h == [Tired(c) EXCEPT !.experience = x]
  <1>1. MayStrike(c, m) /\ books' = books /\ hero' = [hero EXCEPT ![c] = h]
    BY DEF Kill
  <1>2. /\ Tired(c) \in Hero /\ Tired(c).gold = hero[c].gold
        /\ Tired(c).experience = hero[c].experience
    BY <1>1, TiredHero
  <1>3. x = hero[c].experience + 1
    BY <1>2
  <1> HIDE DEF x
  <1>4. h.gold = hero[c].gold /\ h.experience = x
    BY <1>2 DEF Hero
  <1> HIDE DEF h
  <1>5. hero'[c] = h /\ \A d \in Characters : d # c => hero'[d] = hero[d]
    BY <1>1 DEF TypeOK
  <1>6. ASSUME NEW d \in Characters PROVE Entered(d)
    <2>1. CASE d = c
      BY <1>1, <1>3, <1>4, <1>5, <2>1, KillOwes DEF Entered, Killed, SameBooks
    <2>2. CASE d # c
      BY <1>1, <1>5, <2>2, KillOwes DEF Entered, Nothing, SameCharacter, SameBooks, SameOwed
    <2>3. QED BY <2>1, <2>2
  <1>7. QED BY <1>6

LEMMA LootEnters ==
  ASSUME TypeOK, NEW c \in Characters, NEW m \in Foes, Loot(c, m)
  PROVE  \A d \in Characters : Entered(d)
  <1> DEFINE n == IF corpse[m].coin THEN Purse ELSE 0
  <1>1. books' = books /\ hero' = [hero EXCEPT ![c].gold = @ + n]
    BY DEF Loot
  <1>2. hero[c] \in Hero /\ hero[c].gold \in Nat
    BY HeroParts DEF TypeOK
  <1>3. n = (IF corpse[m].coin THEN Purse ELSE 0)
    OBVIOUS
  <1> HIDE DEF n
  <1>4. /\ hero'[c].gold = hero[c].gold + n /\ hero'[c].experience = hero[c].experience
        /\ \A d \in Characters : d # c => hero'[d] = hero[d]
    BY <1>1, <1>2 DEF TypeOK, Hero
  <1>5. ASSUME NEW d \in Characters PROVE Entered(d)
    <2>1. CASE d = c /\ corpse[m].coin
      BY <1>1, <1>3, <1>4, <2>1, LootSettles DEF Entered, Looted, SameBooks
    <2>2. CASE d = c /\ ~corpse[m].coin
      <3>1. hero'[c].gold = hero[c].gold
        BY <1>2, <1>3, <1>4, <2>2
      <3>2. QED BY <1>1, <1>4, <2>2, <3>1, LootSettles DEF Entered, Nothing, SameCharacter, SameBooks, SameOwed
    <2>3. CASE d # c
      BY <1>1, <1>4, <2>3, LootSettles DEF Entered, Nothing, SameCharacter, SameBooks, SameOwed
    <2>4. QED BY <2>1, <2>2, <2>3
  <1>6. QED BY <1>5

\* Fee, reward and prize are noted in the books as they are paid.
LEMMA PaymentEnters ==
  ASSUME TypeOK, NEW c \in Characters, ResurrectPay(c) \/ Give(c) \/ Answer(c)
  PROVE  \A d \in Characters : Entered(d)
  <1>1. \A d \in Characters : SameOwed(d)
    BY QuietKeepsAccount DEF ResurrectPay, Give, Answer, SameOwed
  <1>2. /\ hero[c] \in Hero /\ hero \in [Characters -> Hero]
        /\ books \in [Characters -> [deliveries : Nat, fees : Nat, prizes : Nat]]
        /\ books[c] \in [deliveries : Nat, fees : Nat, prizes : Nat]
    BY DEF TypeOK
  <1>3. CASE ResurrectPay(c)
    <2> DEFINE h == [Risen(hero[c]) EXCEPT !.gold = @ - Fee]
    <2>1. hero' = [hero EXCEPT ![c] = h] /\ books' = [books EXCEPT ![c].fees = @ + 1]
      BY <1>3 DEF ResurrectPay
    <2>2. h.gold = hero[c].gold - Fee /\ h.experience = hero[c].experience
      BY <1>2 DEF Risen, Hero
    <2> HIDE DEF h
    <2>3. PaidFee(c)
      BY <1>1, <1>2, <2>1, <2>2 DEF PaidFee
    <2>4. \A d \in Characters : d # c => Nothing(d)
      BY <1>1, <1>2, <2>1 DEF Nothing, SameCharacter, SameBooks
    <2>5. QED BY <2>3, <2>4 DEF Entered
  <1>4. CASE Give(c)
    <2> DEFINE x == Least(MaxStamina, hero[c].stamina + 20)
               h == [hero[c] EXCEPT !.gold = @ + Reward, !.stamina = x]
    <2>1. hero' = [hero EXCEPT ![c] = h] /\ books' = [books EXCEPT ![c].deliveries = @ + 1]
      BY <1>2, <1>4 DEF Give, Hero
    <2> HIDE DEF x
    <2>2. h.gold = hero[c].gold + Reward /\ h.experience = hero[c].experience
      BY <1>2 DEF Hero
    <2> HIDE DEF h
    <2>3. Delivered(c)
      BY <1>1, <1>2, <2>1, <2>2 DEF Delivered
    <2>4. \A d \in Characters : d # c => Nothing(d)
      BY <1>1, <1>2, <2>1 DEF Nothing, SameCharacter, SameBooks
    <2>5. QED BY <2>3, <2>4 DEF Entered
  <1>5. CASE Answer(c)
    <2> DEFINE h == [hero[c] EXCEPT !.gold = @ + Prize]
    <2>1. /\ hero' = [hero EXCEPT ![c] = h] /\ books' = [books EXCEPT ![c].prizes = 1]
          /\ books[c].prizes = 0
      BY <1>2, <1>5 DEF Answer
    <2>2. h.gold = hero[c].gold + Prize /\ h.experience = hero[c].experience
      BY <1>2 DEF Hero
    <2> HIDE DEF h
    <2>3. Won(c)
      BY <1>1, <1>2, <2>1, <2>2 DEF Won
    <2>4. \A d \in Characters : d # c => Nothing(d)
      BY <1>1, <1>2, <2>1 DEF Nothing, SameCharacter, SameBooks
    <2>5. QED BY <2>3, <2>4 DEF Entered
  <1>6. QED BY <1>3, <1>4, <1>5

LEMMA ElsewhereEnter ==
  ASSUME TypeOK,
         \/ \E c \in Characters : Examine(c) \/ Stats(c) \/ Return(c) \/ TakeAll(c)
         \/ \E c \in Characters, i \in Items : Take(c, i) \/ Drop(c, i) \/ Equip(c, i) \/ Unequip(c, i)
         \/ \E m \in Foes : FallDue(m) \/ Decay(m)
         \/ Restart
         \/ UNCHANGED vars
  PROVE  \A d \in Characters : Entered(d)
  <1>1. hero' = hero /\ books' = books
    BY DEF Examine, Stats, Return, TakeAll, Take, Drop, Equip, Unequip, FallDue, Decay, Restart, vars
  <1>2. (corpse' = corpse /\ lost' = lost) \/ \E m \in Foes : Decay(m)
    BY DEF Examine, Stats, Return, TakeAll, Take, Drop, Equip, Unequip, FallDue, Restart, vars
  <1>3. \A d \in Characters : SameOwed(d)
    BY <1>2, QuietKeepsAccount, ExpiryKeepsAccount DEF SameOwed
  <1>4. QED BY <1>1, <1>3, SameHeroes, NothingEntered

LEMMA EveryStepEntered ==
  ASSUME TypeOK, [Next]_vars
  PROVE  \A d \in Characters : Entered(d)
  <1>1. ASSUME NEW c \in Characters, Act(c)
        PROVE  \A d \in Characters : Entered(d)
    BY <1>1, HookedEnter, BodilyEnter, ExchangeEnters, KillEnters, LootEnters, PaymentEnters, ElsewhereEnter
       DEF Act
  <1>2. QED BY <1>1, HookedEnter, BodilyEnter, ElsewhereEnter DEF Next

\* At every price, with any number of characters and monsters, corpses that
\* decay, are looted twice or wait under a respawned monster: no coin is made or
\* lost but as the books say.
THEOREM CoinsAccounted == Spec => []CoinAccounts
  <1>1. CoinAccounts <=> \A c \in Characters : Balanced(c)
    BY DEF CoinAccounts, Balanced, Owed
  <1>2. Init => CoinAccounts
    <2>1. SUFFICES ASSUME Init, NEW c \in Characters PROVE Balanced(c)
      BY <1>1
    <2>2. /\ hero[c].gold = 0 /\ hero[c].experience = 0 /\ lost[c] = 0
          /\ books[c] = [deliveries |-> 0, fees |-> 0, prizes |-> 0]
      BY <2>1 DEF Init
    <2>3. Purses(c) = {}
      BY <2>1 DEF Init, Purses
    <2>4. Owed(c) = 0
      BY <2>2, <2>3, FS_EmptySet DEF Owed
    <2>5. Fee * 0 = 0 /\ Purse * 0 = 0 /\ Reward * 0 = 0 /\ Prize * 0 = 0
      BY Numbers
    <2>6. QED BY <2>2, <2>4, <2>5 DEF Balanced
  <1>3. WorldInv /\ CoinAccounts /\ [Next]_vars => CoinAccounts'
    <2>1. SUFFICES ASSUME WorldInv, CoinAccounts, [Next]_vars, NEW c \in Characters
                   PROVE  Balanced(c)'
      BY DEF CoinAccounts, Balanced, Owed
    <2>2. TypeOK /\ Balanced(c)
      BY <1>1, <2>1 DEF WorldInv
    <2>3. Entered(c)
      BY <2>1, <2>2, EveryStepEntered
    <2>4. QED BY <2>2, <2>3, EntriesBalance
  <1>4. QED BY <1>2, <1>3, WorldInvariant, PTL DEF Spec

(***************************************************************************)
(* What a pack holds.                                                      *)
(***************************************************************************)

LEMMA UnitOf ==
  ASSUME NEW stock
  PROVE  \A u : u \in Units(stock) <=> \E i \in Items : \E n \in 1..stock[i] : u = <<i, n>>
  <1>1. \A u : u \in Units(stock) <=> \E i \in Items : u \in {i} \X (1..stock[i])
    BY DEF Units
  <1>2. QED BY <1>1

\* Of a nonempty finite set of items, one comes last.
LEMMA LastItem ==
  ASSUME NEW H, H \subseteq Items, H # {}
  PROVE  \E i \in H : \A j \in H : NameRank[j] <= NameRank[i]
  <1> DEFINE After(i) == {j \in H : NameRank[j] > NameRank[i]}
             Sizes    == {Cardinality(After(i)) : i \in H}
  <1>1. \A i \in H : IsFiniteSet(After(i)) /\ Cardinality(After(i)) \in Nat
    <2> SUFFICES ASSUME NEW i \in H PROVE IsFiniteSet(After(i)) /\ Cardinality(After(i)) \in Nat
      OBVIOUS
    <2>1. After(i) \subseteq Items /\ IsFiniteSet(Items)
      BY WorldAssumption
    <2> HIDE DEF After
    <2>2. QED BY <2>1, FS_Subset, FS_CardinalityType
  <1>2. \A i \in Items : NameRank[i] \in Nat
    BY WorldAssumption
  <1>3. Sizes \subseteq Nat /\ Sizes # {}
    BY <1>1
  <1>4. PICK k \in Sizes : \A l \in Sizes : ~(<<l, k>> \in OpToRel(<, Nat))
    <2> HIDE DEF Sizes
    <2>1. QED BY <1>3, WFMin, NatLessThanWellFounded, Zenon
  <1>5. \A l \in Sizes : ~(l < k)
    BY <1>3, <1>4 DEF OpToRel
  <1>6. PICK i \in H : k = Cardinality(After(i))
    OBVIOUS
  <1>7. \A j \in H : ~(NameRank[j] > NameRank[i])
    <2> SUFFICES ASSUME NEW j \in H, NameRank[j] > NameRank[i] PROVE FALSE
      OBVIOUS
    <2>1. After(j) \subseteq After(i) /\ j \in After(i) /\ j \notin After(j)
      BY <1>2
    <2>2. ~(Cardinality(After(j)) < Cardinality(After(i)))
      BY <1>5, <1>6
    <2> HIDE DEF After
    <2>3. QED BY <1>1, <2>1, <2>2, FS_Subset
  <1>8. QED BY <1>2, <1>7

LEMMA OneMoreUnit ==
  ASSUME NEW s \in Stock, NEW i \in Items, IsFiniteSet(Units(s))
  PROVE  LET t == [s EXCEPT ![i] = @ + 1]
         IN  IsFiniteSet(Units(t)) /\ Total(t) = Total(s) + 1
  <1> DEFINE t == [s EXCEPT ![i] = @ + 1]
             u == <<i, s[i] + 1>>
  <1>1. \A j \in Items : s[j] \in Nat /\ t[j] = IF j = i THEN s[j] + 1 ELSE s[j]
    BY DEF Stock
  <1> HIDE DEF t
  <1>2. \A v : v \in Units(t) <=> (v \in Units(s) \/ v = u)
    <2>1. ASSUME NEW v, v \in Units(t) PROVE v \in Units(s) \/ v = u
      <3>1. PICK j \in Items : \E n \in 1..t[j] : v = <<j, n>>
        BY <2>1, UnitOf
      <3>2. PICK n \in 1..t[j] : v = <<j, n>>
        BY <3>1
      <3>3. n \in 1..s[j] \/ (j = i /\ n = s[i] + 1)
        BY <1>1, <3>2
      <3>4. QED BY <3>2, <3>3, UnitOf
    <2>2. ASSUME NEW v, v \in Units(s) PROVE v \in Units(t)
      <3>1. PICK j \in Items : \E n \in 1..s[j] : v = <<j, n>>
        BY <2>2, UnitOf
      <3>2. PICK n \in 1..s[j] : v = <<j, n>>
        BY <3>1
      <3>3. n \in 1..t[j]
        BY <1>1, <3>2
      <3>4. QED BY <3>2, <3>3, UnitOf
    <2>3. u \in Units(t)
      <3>1. s[i] + 1 \in 1..t[i]
        BY <1>1
      <3>2. QED BY <3>1, UnitOf
    <2> HIDE DEF u
    <2>4. QED BY <2>1, <2>2, <2>3
  <1>3. u \notin Units(s)
    <2>1. SUFFICES ASSUME u \in Units(s) PROVE FALSE
      OBVIOUS
    <2>2. PICK j \in Items : \E n \in 1..s[j] : u = <<j, n>>
      BY <2>1, UnitOf
    <2>3. PICK n \in 1..s[j] : u = <<j, n>>
      BY <2>2
    <2>4. j = i /\ n = s[i] + 1
      BY <2>3
    <2>5. QED BY <1>1, <2>4
  <1> HIDE DEF u
  <1>4. Units(t) = Units(s) \cup {u}
    BY <1>2
  <1>5. IsFiniteSet(Units(t)) /\ Cardinality(Units(t)) = Cardinality(Units(s)) + 1
    BY <1>3, <1>4, FS_AddElement
  <1>6. QED BY <1>5 DEF Total, t

LEMMA FewerUnits ==
  ASSUME NEW s \in Stock, NEW t \in Stock, \A i \in Items : t[i] <= s[i], IsFiniteSet(Units(s))
  PROVE  IsFiniteSet(Units(t)) /\ Total(t) <= Total(s)
  <1>1. ASSUME NEW v, v \in Units(t) PROVE v \in Units(s)
    <2>1. PICK j \in Items : \E n \in 1..t[j] : v = <<j, n>>
      BY <1>1, UnitOf
    <2>2. PICK n \in 1..t[j] : v = <<j, n>>
      BY <2>1
    <2>3. n \in 1..s[j]
      BY <2>2 DEF Stock
    <2>4. QED BY <2>2, <2>3, UnitOf
  <1>2. Units(t) \in SUBSET Units(s)
    BY <1>1
  <1>3. QED BY <1>2, FS_Subset DEF Total

LEMMA SumUnits ==
  ASSUME NEW s \in Stock, NEW t \in Stock, IsFiniteSet(Units(s)), IsFiniteSet(Units(t))
  PROVE  LET q == [i \in Items |-> s[i] + t[i]]
         IN  IsFiniteSet(Units(q)) /\ Total(q) <= Total(s) + Total(t)
  <1> DEFINE q == [i \in Items |-> s[i] + t[i]]
             New == Units(q) \ Units(s)
             f   == [u \in New |-> <<u[1], u[2] - s[u[1]]>>]
  <1>1. \A i \in Items : s[i] \in Nat /\ t[i] \in Nat /\ q[i] = s[i] + t[i]
    BY DEF Stock
  <1> HIDE DEF q
  <1>2. ASSUME NEW u \in New
        PROVE  \E i \in Items : \E n \in 1..t[i] : u = <<i, s[i] + n>> /\ f[u] = <<i, n>>
    <2>1. PICK i \in Items : \E k \in 1..q[i] : u = <<i, k>>
      BY UnitOf
    <2>2. PICK k \in 1..q[i] : u = <<i, k>>
      BY <2>1
    <2>3. k \notin 1..s[i]
      BY <2>2, UnitOf
    <2>4. k - s[i] \in 1..t[i] /\ k = s[i] + (k - s[i])
      BY <1>1, <2>3
    <2>5. f[u] = <<i, k - s[i]>>
      BY <2>2
    <2>6. QED BY <2>2, <2>4, <2>5
  <1>3. f \in [New -> Units(t)]
    <2>1. \A u \in New : f[u] \in Units(t)
      BY <1>2, UnitOf
    <2>2. QED BY <2>1
  <1>4. ASSUME NEW u \in New, NEW v \in New, f[u] = f[v] PROVE u = v
    <2>1. PICK i \in Items : \E n \in 1..t[i] : u = <<i, s[i] + n>> /\ f[u] = <<i, n>>
      BY <1>2
    <2>2. PICK n \in 1..t[i] : u = <<i, s[i] + n>> /\ f[u] = <<i, n>>
      BY <2>1
    <2>3. PICK j \in Items : \E m \in 1..t[j] : v = <<j, s[j] + m>> /\ f[v] = <<j, m>>
      BY <1>2
    <2>4. PICK m \in 1..t[j] : v = <<j, s[j] + m>> /\ f[v] = <<j, m>>
      BY <2>3
    <2> HIDE DEF f, New
    <2>5. i = j /\ n = m
      BY <1>4, <2>2, <2>4
    <2>6. QED BY <2>2, <2>4, <2>5
  <1>5. f \in Injection(New, Units(t))
    <2>1. DOMAIN f = New
      OBVIOUS
    <2> HIDE DEF f, New
    <2>2. QED BY <1>3, <1>4, <2>1 DEF Injection, IsInjective
  <1> HIDE DEF f
  <1>6. IsFiniteSet(New) /\ Cardinality(New) <= Cardinality(Units(t))
    BY <1>5, FS_Injection
  <1>7. ASSUME NEW u, u \in Units(s) PROVE u \in Units(q)
    <2>1. PICK i \in Items : \E n \in 1..s[i] : u = <<i, n>>
      BY <1>7, UnitOf
    <2>2. PICK n \in 1..s[i] : u = <<i, n>>
      BY <2>1
    <2>3. n \in 1..q[i]
      BY <1>1, <2>2
    <2>4. QED BY <2>2, <2>3, UnitOf
  <1>8. Units(q) = Units(s) \cup New /\ Units(s) \cap New = {}
    BY <1>7
  <1> HIDE DEF New
  <1>9. /\ IsFiniteSet(Units(q))
        /\ Cardinality(Units(q))
             = Cardinality(Units(s)) + Cardinality(New) - Cardinality(Units(s) \cap New)
    BY <1>6, <1>8, FS_Union
  <1>10. Cardinality(Units(s) \cap New) = 0
    BY <1>8, FS_EmptySet
  <1>11. /\ Cardinality(Units(s)) \in Nat /\ Cardinality(Units(t)) \in Nat /\ Cardinality(New) \in Nat
    BY <1>6, FS_CardinalityType
  <1>12. Cardinality(Units(q)) <= Cardinality(Units(s)) + Cardinality(Units(t))
    BY <1>6, <1>9, <1>10, <1>11
  <1>13. QED BY <1>9, <1>12 DEF Total, q


\* A pack as every command leaves it.
Fits(s) == IsFiniteSet(Units(s)) /\ Total(s) <= Capacity

\* The stacks before each count, so that the last of them still fits and with it all.
LEMMA ArmfulFits ==
  ASSUME NEW c \in Characters, NEW r, NEW armful \in [Items -> 0..Capacity],
         Armful(c, r, armful), Fits(pack[c])
  PROVE  IsFiniteSet(Units(armful)) /\ Total(armful) <= Capacity - Total(pack[c])
  <1> DEFINE Before(i) == {u \in Units(armful) : NameRank[u[1]] < NameRank[i]}
             Taken     == {i \in Items : armful[i] > 0}
  <1>1. \A i \in Items : armful[i] \in 0..Capacity /\ NameRank[i] \in Nat
    BY WorldAssumption
  <1>2. IsFiniteSet(Items) /\ Capacity \in Nat
    BY WorldAssumption
  <1>3. Total(pack[c]) \in Nat /\ Total(pack[c]) <= Capacity
    BY FS_CardinalityType DEF Fits, Total
  <1>4. IsFiniteSet(Units(armful))
    <2>1. IsFiniteSet(1..Capacity)
      BY <1>2, FS_Interval
    <2>2. IsFiniteSet(Items \X (1..Capacity))
      BY <1>2, <2>1, FS_Product
    <2>3. ASSUME NEW u \in Units(armful) PROVE u \in Items \X (1..Capacity)
      <3>1. PICK i \in Items : \E n \in 1..armful[i] : u = <<i, n>>
        BY UnitOf
      <3>2. PICK n \in 1..armful[i] : u = <<i, n>>
        BY <3>1
      <3>3. n \in 1..Capacity
        BY <1>1, <1>2, <3>2
      <3>4. QED BY <3>2, <3>3
    <2>4. Units(armful) \in SUBSET (Items \X (1..Capacity))
      BY <2>3
    <2>5. QED BY <2>2, <2>4, FS_Subset
  <1>5. CASE Taken = {}
    <2>1. ASSUME NEW u \in Units(armful) PROVE FALSE
      <3>1. PICK i \in Items : \E n \in 1..armful[i] : u = <<i, n>>
        BY UnitOf
      <3>2. ~(armful[i] > 0)
        BY <1>5
      <3>3. QED BY <1>1, <3>1, <3>2
    <2>2. Units(armful) = {}
      BY <2>1
    <2>3. Total(armful) = 0
      BY <2>2, FS_EmptySet DEF Total
    <2>4. QED BY <1>2, <1>3, <1>4, <2>3
  <1>6. CASE Taken # {}
    <2>1. PICK i \in Taken : \A j \in Taken : NameRank[j] <= NameRank[i]
      BY <1>6, LastItem
    <2>2. i \in Items /\ armful[i] > 0 /\ armful[i] \in Nat
      BY <1>1
    <2> DEFINE stack == {i} \X (1..armful[i])
    <2>3. Units(armful) = Before(i) \cup stack /\ Before(i) \cap stack = {}
      <3>1. ASSUME NEW u \in Units(armful) PROVE u \in Before(i) \/ u \in stack
        <4>1. PICK j \in Items : \E n \in 1..armful[j] : u = <<j, n>>
          BY UnitOf
        <4>2. PICK n \in 1..armful[j] : u = <<j, n>>
          BY <4>1
        <4>3. j \in Taken
          BY <1>1, <4>2
        <4>4. NameRank[j] < NameRank[i] \/ j = i
          BY <1>1, <2>1, <2>2, <4>3, WorldAssumption
        <4>5. QED BY <4>2, <4>4
      <3>2. ASSUME NEW u \in stack PROVE u \in Units(armful) /\ u \notin Before(i)
        <4>1. u[1] = i /\ u[2] \in 1..armful[i] /\ u = <<u[1], u[2]>>
          OBVIOUS
        <4>2. u \in Units(armful)
          BY <2>2, <4>1, UnitOf
        <4>3. QED BY <1>1, <2>2, <4>1, <4>2
      <3>3. QED BY <3>1, <3>2
    <2>4. IsFiniteSet(stack) /\ Cardinality(stack) = armful[i]
      <3>1. IsFiniteSet({i}) /\ Cardinality({i}) = 1
        BY FS_Singleton
      <3>2. IsFiniteSet(1..armful[i]) /\ Cardinality(1..armful[i]) = armful[i]
        BY <2>2, FS_Interval
      <3>3. IsFiniteSet(stack) /\ Cardinality(stack) = 1 * armful[i]
        BY <3>1, <3>2, FS_Product
      <3>4. QED BY <2>2, <3>3
    <2>5. IsFiniteSet(Before(i)) /\ Cardinality(Before(i)) \in Nat
      <3>1. Before(i) \in SUBSET Units(armful)
        OBVIOUS
      <3> HIDE DEF Before
      <3>2. QED BY <1>4, <3>1, FS_Subset, FS_CardinalityType
    <2> DEFINE space == Capacity - Total(pack[c]) - Cardinality(Before(i))
    <2>6. armful[i] = IF space <= 0 \/ ground[r][i] = 0 THEN 0
                      ELSE IF ItemType[i] = "quest" THEN (IF pack[c][i] > 0 THEN 0 ELSE 1)
                      ELSE Least(ground[r][i], space)
      BY <2>2 DEF Armful
    <2>7. space \in Int
      BY <1>2, <1>3, <2>5
    <2> HIDE DEF space, stack
    <2>8. armful[i] <= space
      BY <2>2, <2>6, <2>7 DEF Least
    <2> HIDE DEF Before
    <2>9. Cardinality(Units(armful))
            = Cardinality(Before(i)) + Cardinality(stack) - Cardinality(Before(i) \cap stack)
      BY <2>3, <2>4, <2>5, FS_Union
    <2>10. Cardinality(Before(i) \cap stack) = 0
      BY <2>3, FS_EmptySet
    <2>11. Total(armful) = Cardinality(Before(i)) + armful[i]
      BY <2>2, <2>4, <2>5, <2>9, <2>10 DEF Total
    <2>12. QED BY <1>2, <1>3, <1>4, <2>2, <2>5, <2>8, <2>11 DEF space
  <1>7. QED BY <1>5, <1>6

\* What a command may make of the packs: one of them changes, and still fits.
Refilled(c) ==
  \E q \in Stock : pack' = [pack EXCEPT ![c] = q] /\ (Fits(pack[c]) => Fits(q))

LEMMA GainFits ==
  ASSUME TypeOK, NEW c \in Characters, NEW i \in Items, Total(pack[c]) < Capacity,
         pack' = [pack EXCEPT ![c][i] = @ + 1]
  PROVE  Refilled(c)
  <1> DEFINE q == [pack[c] EXCEPT ![i] = @ + 1]
  <1>1. pack[c] \in Stock
    BY DEF TypeOK
  <1>2. q \in Stock /\ pack' = [pack EXCEPT ![c] = q]
    BY <1>1 DEF Stock
  <1>3. Fits(pack[c]) => IsFiniteSet(Units(q)) /\ Total(q) = Total(pack[c]) + 1
    BY <1>1, OneMoreUnit DEF Fits
  <1>4. Fits(pack[c]) => Total(pack[c]) \in Nat
    BY FS_CardinalityType DEF Fits, Total
  <1> HIDE DEF q
  <1>5. Fits(pack[c]) => Fits(q)
    BY <1>3, <1>4, Numbers DEF Fits
  <1>6. QED BY <1>2, <1>5 DEF Refilled

LEMMA LossFits ==
  ASSUME TypeOK, NEW c \in Characters, NEW q \in Stock, \A i \in Items : q[i] <= pack[c][i],
         pack' = [pack EXCEPT ![c] = q]
  PROVE  Refilled(c)
  <1>1. pack[c] \in Stock
    BY DEF TypeOK
  <1>2. ASSUME Fits(pack[c]) PROVE Fits(q)
    <2>1. IsFiniteSet(Units(q)) /\ Total(q) <= Total(pack[c])
      BY <1>1, <1>2, FewerUnits DEF Fits
    <2>2. Total(q) \in Nat /\ Total(pack[c]) \in Nat
      BY <1>2, <2>1, FS_CardinalityType DEF Fits, Total
    <2>3. QED BY <1>2, <2>1, <2>2, Numbers DEF Fits
  <1>3. QED BY <1>2 DEF Refilled

LEMMA TakeAllFits ==
  ASSUME TypeOK, NEW c \in Characters, TakeAll(c)
  PROVE  Refilled(c)
  <1>1. PICK armful \in [Items -> 0..Capacity] :
          /\ Armful(c, hero[c].room, armful)
          /\ pack' = [pack EXCEPT ![c] = [i \in Items |-> @[i] + armful[i]]]
    BY DEF TakeAll
  <1> DEFINE q == [i \in Items |-> pack[c][i] + armful[i]]
  <1>2. pack[c] \in Stock /\ armful \in Stock
    BY Numbers DEF TypeOK, Stock
  <1>3. q \in Stock
    BY <1>2 DEF Stock
  <1>4. pack' = [pack EXCEPT ![c] = q]
    BY <1>1
  <1>5. ASSUME Fits(pack[c]) PROVE Fits(q)
    <2>1. IsFiniteSet(Units(armful)) /\ Total(armful) <= Capacity - Total(pack[c])
      BY <1>1, <1>5, ArmfulFits
    <2>2. IsFiniteSet(Units(q)) /\ Total(q) <= Total(pack[c]) + Total(armful)
      BY <1>2, <1>5, <2>1, SumUnits DEF Fits
    <2> HIDE DEF q
    <2>3. Total(q) \in Nat /\ Total(pack[c]) \in Nat /\ Total(armful) \in Nat
      BY <1>5, <2>1, <2>2, FS_CardinalityType DEF Fits, Total
    <2>4. QED BY <2>1, <2>2, <2>3, Numbers DEF Fits
  <1> HIDE DEF q
  <1>6. QED BY <1>3, <1>4, <1>5 DEF Refilled

LEMMA LootFits ==
  ASSUME TypeOK, NEW c \in Characters, NEW m \in Foes, Loot(c, m)
  PROVE  pack' = pack \/ Refilled(c)
  <1> DEFINE takes == corpse[m].item # NoItem /\ Total(pack[c]) < Capacity
  <1>1. pack' = IF takes THEN [pack EXCEPT ![c][corpse[m].item] = @ + 1] ELSE pack
    BY DEF Loot
  <1>2. CASE ~takes
    BY <1>1, <1>2
  <1>3. CASE takes
    <2>1. corpse[m] \in Corpse
      BY DEF Loot, Kept, TypeOK
    <2>2. corpse[m].item \in Items
      BY <1>3, <2>1, Things DEF Corpse
    <2>3. QED BY <1>1, <1>3, <2>2, GainFits
  <1>4. QED BY <1>2, <1>3

LEMMA EmptyingFits ==
  ASSUME TypeOK, NEW c \in Characters, Give(c) \/ \E i \in Items : Drop(c, i) \/ Use(c, i)
  PROVE  Refilled(c)
  <1>1. pack[c] \in Stock /\ \A i \in Items : pack[c][i] \in Nat
    BY DEF TypeOK, Stock
  <1>2. CASE Give(c)
    <2> DEFINE q == [pack[c] EXCEPT ![Manifest] = 0]
    <2>1. q \in Stock /\ \A i \in Items : q[i] <= pack[c][i]
      BY <1>1, Things DEF Stock
    <2>2. pack' = [pack EXCEPT ![c] = q]
      BY <1>2 DEF Give
    <2> HIDE DEF q
    <2>3. QED BY <2>1, <2>2, LossFits
  <1>3. ASSUME NEW i \in Items, Drop(c, i) \/ Use(c, i) PROVE Refilled(c)
    <2> DEFINE q == [pack[c] EXCEPT ![i] = @ - 1]
    <2>1. pack[c][i] > 0 /\ pack' = [pack EXCEPT ![c][i] = @ - 1]
      BY <1>3 DEF Drop, Use, Removed
    <2>2. q \in Stock /\ \A j \in Items : q[j] <= pack[c][j]
      BY <1>1, <2>1 DEF Stock
    <2>3. pack' = [pack EXCEPT ![c] = q]
      BY <2>1
    <2> HIDE DEF q
    <2>4. QED BY <2>2, <2>3, LossFits
  <1>4. QED BY <1>2, <1>3

LEMMA RefillStep ==
  ASSUME TypeOK, [Next]_vars
  PROVE  pack' = pack \/ \E c \in Characters : Refilled(c)
  <1>1. ASSUME NEW c \in Characters,
               \/ Look(c) \/ Say(c) \/ Examine(c) \/ Stats(c) \/ Talk(c) \/ Rest(c) \/ Answer(c)
               \/ Resurrect(c) \/ ResurrectPay(c) \/ RingBell(c) \/ Select(c) \/ Return(c)
               \/ \E r \in Rooms : Move(c, r)
               \/ \E m \in Foes : Kill(c, m) \/ Exchange(c, m)
               \/ \E i \in Items : UseScripted(c, i) \/ Equip(c, i) \/ Unequip(c, i)
        PROVE  pack' = pack
    BY <1>1 DEF Look, Say, Examine, Stats, Talk, Rest, Answer, Resurrect, ResurrectPay, RingBell,
                Select, Return, Move, Kill, Exchange, UseScripted, Equip, Unequip
  <1>2. (\E m \in Foes : FallDue(m) \/ Decay(m)) \/ Restart \/ UNCHANGED vars => pack' = pack
    BY DEF FallDue, Decay, Restart, vars
  <1>3. ASSUME NEW c \in Characters, NEW i \in Items, Take(c, i)
        PROVE  Refilled(c)
    BY <1>3, GainFits DEF Take, Stored
  <1>4. ASSUME NEW c \in Characters, Act(c)
        PROVE  pack' = pack \/ Refilled(c)
    BY <1>1, <1>3, <1>4, LootFits, TakeAllFits, EmptyingFits DEF Act
  <1>5. CASE UNCHANGED vars
    BY <1>2, <1>5
  <1>6. CASE Next
    <2>1. CASE \E c \in Characters : Act(c)
      BY <1>4, <2>1
    <2>2. CASE \E c \in Characters : RingBell(c) \/ Select(c) \/ Return(c)
      BY <1>1, <2>2
    <2>3. QED BY <1>2, <1>6, <2>1, <2>2 DEF Next
  <1>7. QED BY <1>5, <1>6

\* Whatever the capacity, the stacks on the ground and the order they are taken
\* in: taking, looting and taking all never overfill a pack.
THEOREM PacksBounded == Spec => []PackBounded
  <1> DEFINE AllFit == \A c \in Characters : Fits(pack[c])
  <1>1. Init => AllFit
    <2>1. Units(Empty) = {}
      <3>1. ASSUME NEW u \in Units(Empty) PROVE FALSE
        <4>1. PICK i \in Items : \E n \in 1..Empty[i] : u = <<i, n>>
          BY UnitOf
        <4>2. QED BY <4>1 DEF Empty
      <3>2. QED BY <3>1
    <2>2. Fits(Empty)
      BY <2>1, FS_EmptySet, Numbers DEF Fits, Total
    <2>3. QED BY <2>2 DEF Init
  <1>2. WorldInv /\ AllFit /\ [Next]_vars => AllFit'
    <2> SUFFICES ASSUME WorldInv, AllFit, [Next]_vars, NEW d \in Characters
                 PROVE  Fits(pack[d])'
      OBVIOUS
    <2>1. TypeOK
      BY DEF WorldInv
    <2>2. Fits(pack[d]) /\ pack \in [Characters -> Stock]
      BY <2>1 DEF TypeOK
    <2>3. CASE pack' = pack
      BY <2>2, <2>3 DEF Fits, Units, Total
    <2>4. ASSUME NEW c \in Characters, Refilled(c) PROVE Fits(pack'[d])
      <3>1. PICK q \in Stock : pack' = [pack EXCEPT ![c] = q] /\ (Fits(pack[c]) => Fits(q))
        BY <2>4 DEF Refilled
      <3>2. CASE d = c
        BY <2>2, <3>1, <3>2
      <3>3. CASE d # c
        BY <2>2, <3>1, <3>3
      <3>4. QED BY <3>2, <3>3
    <2>5. Fits(pack'[d]) => Fits(pack[d])'
      BY DEF Fits, Units, Total
    <2>6. pack' = pack \/ \E c \in Characters : Refilled(c)
      BY <2>1, RefillStep
    <2>7. QED BY <2>3, <2>4, <2>5, <2>6
  <1>3. AllFit => PackBounded
    BY DEF PackBounded, Fits
  <1> HIDE DEF AllFit
  <1>4. QED BY <1>1, <1>2, <1>3, WorldInvariant, PTL DEF Spec

=============================================================================
