CONSTANTS
  ann = ann
  bob = bob
  tale = tale
  lore = lore
  hall = hall
  greeting = greeting
  prize = prize
  typo = typo
  n1 = n1
  n2 = n2
  hero = hero
  Users = {ann, bob}
  Scripts = {tale}
  Sources = {greeting, prize, typo}
  Targets = {hall}
  Connections = {n1, n2}
  PlayerOf <- OnePlayer
  Template = greeting
  Broken = {typo}
  Paying = {prize}
  Bundled <- OneBundle
  MaxRevision = 3
  NoUser = NoUser
  NoScript = NoScript
  NoSource = NoSource
  Closed = Closed
SPECIFICATION Spec
INVARIANTS ScriptInv ApprovedAsReviewed PaidOnce
PROPERTIES NothingOverwritten
SYMMETRY Symmetric
CHECK_DEADLOCK FALSE
