CONSTANTS
  c1 = c1
  c2 = c2
  rat = rat
  hall = hall
  town = town
  docks = docks
  manifest = manifest
  potion = potion
  hide = hide
  Characters = {c1, c2}
  Items = {manifest, potion, hide}
  Foes = {rat}
  Rooms = {hall, town, docks}
  Exits <- Paths
  RoomType <- Types
  Hall = hall
  Square = town
  Docks = docks
  Shrine = town
  Lair <- Dens
  ItemType <- Kinds
  Bonus <- Bonuses
  NameRank <- Ranks
  Manifest = manifest
  Placements <- Placed
  Capacity = 1
  MaxHealth = 2
  MaxStamina = 2
  Strength = 1
  AttackCost = 1
  FoeHealth <- Health
  FoeAttack <- Bite
  FoeDefense <- Hide
  Drops <- Dropped
  Purse = 1
  Reward = 3
  Fee = 2
  Prize = 1
  HookHeals = {1}
  Stories <- Tales
  NoItem = NoItem
  NoCorpse = NoCorpse
SPECIFICATION FairSpec
INVARIANTS WorldInv CoinAccounts PackBounded
PROPERTIES NoSpiritHeld DeathTakesNothing ManifestKept
CHECK_DEADLOCK FALSE
