\* The XML-RPC server: the same two clients over TCP.
SPECIFICATION Spec
CONSTANTS
  c1 = c1
  c2 = c2
  Clients = {c1, c2}
  Pins = {25, 26, 27}
  Valid <- MCValid
  Fds = {4, 5}
  NoPin = 0
  Program <- MCProgram
  Server = "xml-rpc"
  MaxCalls <- MCMaxCalls
  MaxCopies <- MCMaxCopies
  MaxFaults = 1
INVARIANT ClientKnows
