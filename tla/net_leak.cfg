\* The same interface with its link pulled once: what the stop leaves behind.
SPECIFICATION Spec
CONSTANTS
  Pids = {p1, p2, p3, p4}
  Runners = {"ifplugd"}
  Modes = {"dhcp"}
  StaticAddr = s0
  Leases = {a1}
  NoAddr = NoAddr
  NoPid = NoPid
  DownDelay = TRUE
  MaxFlaps = 2
  MaxLosses = 1
  MaxEdits = 0
INVARIANT StoppedClean
