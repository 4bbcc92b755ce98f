CONSTANTS
  s1 = s1
  s2 = s2
  s3 = s3
  u1 = u1
  c1 = c1
  Sessions = {s1, s2, s3}
  Users = {u1}
  Characters = {c1}
  OwnerOf <- OneOwner
  Rooms = {1, 2}
  Home = 1
  Lease = 2
  MaxVersion = 1
  NoUser = NoUser
  NoChar = NoChar
  NoRoom = NoRoom
SPECIFICATION Spec
INVARIANTS LeaseInv OnePlayerPerCharacter IndexNeverRefuses
PROPERTIES OnlyThePlayerMoves
SYMMETRY Symmetric
