SPECIFICATION FairSpec
CONSTANTS
  container = container
  mymachines = mymachines
  systemd = systemd
  libseccomp = libseccomp
  Package <- Packages
  Declared <- FirstSet
  Later <- SecondSet
  Pins <- PinsOf
  Needs <- NeedsOf
  Firmware <- Releases
  Ships <- Shipped
  None = None
  MaxArchive = 2
  MaxUpdates = 1
  MaxFaults = 2
INVARIANTS TypeOK BaseIsFirmwares CheckCarries
PROPERTIES NeverDowngrades CacheKept Settles
CHECK_DEADLOCK FALSE
