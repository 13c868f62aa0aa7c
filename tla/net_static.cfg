\* One interface with settings of its own or a USB gadget, ifplugd alone.
SPECIFICATION FairSpec
CONSTANTS
  Pids = {p1, p2, p3, p4}
  Runners = {"ifplugd"}
  Modes = {"static", "gadget"}
  StaticAddr = s0
  Leases = {a1}
  NoAddr = NoAddr
  NoPid = NoPid
  DownDelay = TRUE
  MaxFlaps = 5
  MaxLosses = 0
  MaxEdits = 0
INVARIANTS TypeOK StoppedClean
PROPERTY FollowsLink
