\* The programs of the repository and a network of two packets.
SPECIFICATION FairSpec
CONSTANTS
  None = None
  PointerLimit = 1000
  Programs <- MCPrograms
  Services <- MCServices
  Queries <- MCQueries
  MaxPackets = 2
  MaxErrors = 1
INVARIANTS TypeOK ReplyIsComplete WireIsFaithful FreedOnlyWhenDone
PROPERTIES KeepsDirectory AnnouncesAll StopReturns
CHECK_DEADLOCK FALSE
