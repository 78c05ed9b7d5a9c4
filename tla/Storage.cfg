SPECIFICATION StorageSpec
CONSTANTS
  zero = zero
  x = x
  image = image
  edge = edge
  Names = {"d", "d/f", "d/l", "g", "b", "o", "o/f", "o/l", "f", "big", "s", "u"}
  Root = "/"
  Parent <- TreeParent
  Joined <- TreeJoined
  Zero = zero
  LinkDepth = 2
  Volumes <- Disks
  BuiltIn = "b"
  Large = "big"
  Compiled = "s"
  Users = "u"
  Image = image
  Edge = edge
  NewAccounts = {"guest", "other"}
  AccountMax = 4
INVARIANTS VolumeSound Durability MigrationComplete PackageInstalled AccountsKept
PROPERTY GrowAtomic
