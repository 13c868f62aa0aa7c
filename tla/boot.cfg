\* One mishap of any kind: a damaged package, a write that fails, a device that
\* never appears, an interface unplugged, a daemon that does not start, a
\* download that fails, a power cut.
SPECIFICATION FairSpec
CONSTANTS
  MaxFaults = 1
  MaxComment = 60
  BufReadComment = 24
  CopyBuffer = 8
  Packages <- MCPackages
  Order <- MCOrder
  Cards <- MCCards
  NewVersions <- MCNewVersions
  Cuts <- MCCuts
  None = None
  Interfaces <- MCInterfaces
  Wireless = {"wlan0"}
  Modular = {"wlan0"}
  Pids = {1, 2, 3, 4, 5}
  NoPid = 0
  Tarball = TRUE
  MaxUpgrades = 1
INVARIANTS TypeOK NoPartialPackage HelperMeansComplete OneWatcher
PROPERTIES FailedDownloadKeepsExtension WatchersFollowInterfaces
CHECK_DEADLOCK FALSE
