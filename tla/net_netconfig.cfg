\* ifplugd and netconfig both running the scripts, settings edited in between.
SPECIFICATION Spec
CONSTANTS
  Pids = {p1, p2, p3, p4, p5, p6}
  Runners = {"ifplugd", "netconfig"}
  Modes = {"static", "dhcp"}
  StaticAddr = s0
  Leases = {a1, a2}
  NoAddr = NoAddr
  NoPid = NoPid
  DownDelay = FALSE
  MaxFlaps = 2
  MaxLosses = 1
  MaxEdits = 1
SYMMETRY PidSymmetry
INVARIANT AdvertisesAddress
