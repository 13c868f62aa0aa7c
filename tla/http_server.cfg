\* Two clients and as many descriptors, of which a pin may take one for good.
SPECIFICATION Spec
CONSTANTS
  Conns = {1, 2}
  Scripts <- MCScripts
  MaxFds = 2
INVARIANTS TypeOK NoReplyWithoutRequest
PROPERTIES ReplyBeforeClose CutUsesTheFlag EveryConnectionEnds
  EveryClientAccepted StopsOnSigterm
