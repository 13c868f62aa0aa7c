\* ifplugd alone, the interface left to udhcpc, every interleaving.
SPECIFICATION FairSpec
CONSTANTS
  Pids = {p1, p2, p3, p4, p5}
  Runners = {"ifplugd"}
  Modes = {"dhcp"}
  StaticAddr = s0
  Leases = {a1}
  NoAddr = NoAddr
  NoPid = NoPid
  DownDelay = FALSE
  MaxFlaps = 4
  MaxLosses = 0
  MaxEdits = 0
INVARIANTS AtMostOneDhcpClient PidFilesAreTrue
PROPERTY ScriptsFinish
