----------------------------- MODULE GpioServer -----------------------------
(***************************************************************************)
(* The GPIO servers of the gpio-server extension that keep pins open for   *)
(* their clients: ONC-RPC, called over UDP, and XML-RPC, called over TCP.  *)
(* A client names a pin in every call and the server remembers the file    *)
(* descriptor of each open pin in fdtable.  svc_run runs one handler at a  *)
(* time to its end; Abyss, the XML-RPC library's server, is taken to do so *)
(* too, though it could serve two connections at once.  Clients send a     *)
(* call again while no answer comes, so a handler may run several times    *)
(* for one call, and a copy may still be waiting when the client has its   *)
(* answer and goes on.                                                     *)
(*                                                                         *)
(* Datagrams may be lost and are duplicated by retransmission, but those   *)
(* of one client are not overtaken by each other: the sender and the       *)
(* receiver are on one network, and retransmissions are seconds apart.     *)
(***************************************************************************)
EXTENDS Integers, Sequences

CONSTANTS
  Clients,
  Pins,          \* pin numbers below MAX_GPIO_PINS
  Valid,         \* those that GPIO_Platform_Pin_Valid accepts
  Fds,           \* file descriptors of the server process
  NoPin,         \* a closed file descriptor
  Program,       \* the calls that each client makes, in any order
  Server,        \* "onc-rpc" or "xml-rpc"
  MaxCalls,      \* bound on the calls of each client
  MaxCopies,     \* bound on copies of one call
  MaxFaults      \* bound on failures of the GPIO library

ASSUME PinAssumption ==
  /\ Valid \subseteq Pins
  /\ NoPin \notin Pins

ASSUME FdAssumption == Fds \subseteq Nat \ {0}

ASSUME BoundAssumption ==
  /\ Server \in {"onc-rpc", "xml-rpc"}
  /\ MaxCalls \in [Clients -> Nat] /\ MaxCopies \in [Clients -> Nat] /\ MaxFaults \in Nat

VARIABLES
  fdtable,    \* the server's table: 0, a descriptor, or what a failure left
  files,      \* the pin behind each descriptor of the server process
  direction,  \* of each pin: 0 input, 1 output
  level,      \* the level that an output is driven to
  calls,      \* number of calls of each client so far
  pending,    \* the call each client waits for
  copies,     \* copies sent of it
  sent,       \* calls on their way to the server, or waiting in its socket
  answers,    \* answers to the pending call on their way back
  known,      \* what each client has been told of each pin
  faults

server == <<fdtable, files, direction, level, faults>>
client == <<calls, pending, copies, known>>
vars == <<server, client, sent, answers>>
-----------------------------------------------------------------------------
\* Clients reach the ONC-RPC server by datagrams, the XML-RPC server by TCP.
Datagrams == Server = "onc-rpc"

\* Error numbers, returned negated.
EPERM == 1
EIO == 5
EBADF == 9
EACCES == 13
EINVAL == 22

Ops == {"open", "close", "read", "write", "none"}

\* The arguments of a call; direction and state are 0 where a call has none.
Request == [op : Ops, pin : Pins \cup {NoPin}, direction : 0..1, state : 0..1]

ASSUME ProgramAssumption ==
  Program \in [Clients -> SUBSET {r \in Request : r.op # "none" /\ r.pin \in Pins}]

\* Every call of a client has a transaction number of its own.
Transaction == [request : Request, xid : Nat]

NoCall ==
  [request |-> [op |-> "none", pin |-> NoPin, direction |-> 0, state |-> 0],
   xid |-> 0]

\* What a client may have been told of a pin: nothing since something went
\* wrong, that it is closed, or that it is open in some direction and state.
Unknown == [st |-> "unknown", direction |-> 0, state |-> 0]
Closed == [st |-> "closed", direction |-> 0, state |-> 0]
Open(d, s) == [st |-> "open", direction |-> d, state |-> IF d = 1 THEN s ELSE 0]

Init ==
  /\ fdtable = [p \in Pins |-> 0]
  /\ files = [f \in Fds |-> NoPin]
  /\ direction = [p \in Pins |-> 0] /\ level = [p \in Pins |-> 0]
  /\ faults = 0
  /\ calls = [c \in Clients |-> 0]
  /\ pending = [c \in Clients |-> NoCall]
  /\ copies = [c \in Clients |-> 0]
  /\ sent = [c \in Clients |-> <<>>]
  /\ answers = [c \in Clients |-> {}]
  /\ known = [c \in Clients |-> [p \in Pins |-> Closed]]
-----------------------------------------------------------------------------
(***************************************************************************)
(* libsimpleio and the kernel (external): each call says what error it     *)
(* returns and what it changes.                                            *)
(***************************************************************************)
\* GPIO_configure can fail while the kernel or mdev has not made the pin.
GpioConfigure(p, d, s, error) ==
  \/ /\ error = 0
     /\ direction' = [direction EXCEPT ![p] = d]
     /\ level' = IF d = 1 THEN [level EXCEPT ![p] = s] ELSE level
     /\ UNCHANGED faults
  \/ /\ error = EIO /\ faults < MaxFaults /\ faults' = faults + 1
     /\ UNCHANGED <<direction, level>>

\* GPIO_open stores -1 when there is no device or no free descriptor.
GpioFree == {f \in Fds : files[f] = NoPin}

\* close(2) fails for what is not an open descriptor.
IsOpen(f) == f \in Fds /\ files[f] # NoPin
-----------------------------------------------------------------------------
(***************************************************************************)
(* The handlers.  Each sets result to what it answers.                     *)
(***************************************************************************)
\* Mutant: a pin that is open is not configured again.
OpenChecksFirst(p, d, s, result) ==
  IF p \notin Valid
  THEN result = -EINVAL /\ UNCHANGED server
  ELSE IF fdtable[p] # 0
       THEN result = 0 /\ UNCHANGED server
       ELSE /\ result = 0
            /\ GpioConfigure(p, d, s, 0)
            /\ \E f \in GpioFree :
                 /\ fdtable' = [fdtable EXCEPT ![p] = f]
                 /\ files' = [files EXCEPT ![f] = p]

\* Mutant: the error number of a failed GPIO_open ends up in the table.
OpenStoresError(p, d, s, result) ==
  /\ p \in Valid /\ fdtable[p] = 0
  /\ GpioConfigure(p, d, s, 0)
  /\ result = -EACCES
  /\ fdtable' = [fdtable EXCEPT ![p] = result]
  /\ UNCHANGED files

\* What both servers do to open a pin; left is what a failure of GPIO_open
\* leaves in the table.
OpenPin(p, d, s, left, result) ==
  \/ /\ p \notin Valid
     /\ result = -EINVAL /\ UNCHANGED server
  \/ /\ p \in Valid
     /\ GpioConfigure(p, d, s, EIO)
     /\ result = -EIO /\ UNCHANGED <<fdtable, files>>
  \/ /\ p \in Valid /\ fdtable[p] # 0
     /\ GpioConfigure(p, d, s, 0)
     /\ result = 0 /\ UNCHANGED <<fdtable, files>>
  \/ /\ p \in Valid /\ fdtable[p] = 0
     /\ GpioConfigure(p, d, s, 0)
     /\ result = 0
     /\ \E f \in GpioFree :
          /\ fdtable' = [fdtable EXCEPT ![p] = f]
          /\ files' = [files EXCEPT ![f] = p]
  \/ /\ p \in Valid /\ fdtable[p] = 0
     /\ faults < MaxFaults \/ GpioFree = {}
     /\ faults' = IF GpioFree = {} THEN faults ELSE faults + 1
     /\ direction' = [direction EXCEPT ![p] = d]
     /\ level' = IF d = 1 THEN [level EXCEPT ![p] = s] ELSE level
     /\ result = -EACCES
     /\ fdtable' = [fdtable EXCEPT ![p] = left]
     /\ UNCHANGED files

\* Mutant: the table keeps the descriptor.
CloseKeepsEntry(p, result) ==
  /\ UNCHANGED <<direction, level, faults, fdtable>>
  /\ IF IsOpen(fdtable[p])
     THEN result = 0 /\ files' = [files EXCEPT ![fdtable[p]] = NoPin]
     ELSE result = -EBADF /\ UNCHANGED files

ClosePin(p, result) ==
  /\ UNCHANGED <<direction, level, faults>>
  /\ \/ /\ IsOpen(fdtable[p])
        /\ result = 0
        /\ files' = [files EXCEPT ![fdtable[p]] = NoPin]
        /\ fdtable' = [fdtable EXCEPT ![p] = 0]
     \/ /\ ~IsOpen(fdtable[p])
        /\ result = -EBADF
        /\ UNCHANGED <<fdtable, files>>

\* An input has the level that the world gives it.
ReadPin(p, result) ==
  /\ UNCHANGED server
  /\ \/ p \notin Valid /\ result = -EINVAL
     \/ p \in Valid /\ ~IsOpen(fdtable[p]) /\ result = -EBADF
     \/ /\ p \in Valid /\ IsOpen(fdtable[p])
        /\ result \in IF direction[p] = 1 THEN {level[p]} ELSE 0..1

\* The kernel does not let an input be written to.
WritePin(p, s, result) ==
  /\ UNCHANGED <<fdtable, files, direction, faults>>
  /\ \/ p \notin Valid /\ result = -EINVAL /\ UNCHANGED level
     \/ p \in Valid /\ ~IsOpen(fdtable[p]) /\ result = -EBADF /\ UNCHANGED level
     \/ /\ p \in Valid /\ IsOpen(fdtable[p]) /\ direction[p] = 0
        /\ result = -EPERM /\ UNCHANGED level
     \/ /\ p \in Valid /\ IsOpen(fdtable[p]) /\ direction[p] = 1
        /\ result = 0 /\ level' = [level EXCEPT ![p] = s]

\* The ONC-RPC server forgets what a failed GPIO_open left, and does not ask
\* the platform whether it has the pin to be closed.
gpio_open_1_svc(p, d, s, result) == OpenPin(p, d, s, 0, result)
gpio_close_1_svc(p, result) == ClosePin(p, result)

\* The XML-RPC server keeps the -1 of a failed GPIO_open.
gpio_open(p, d, s, result) == OpenPin(p, d, s, -1, result)
gpio_close(p, result) ==
  IF p \in Valid THEN ClosePin(p, result) ELSE result = -EINVAL /\ UNCHANGED server

\* The four procedures of each server.
OncRpcHandler(r, result) ==
  \/ r.op = "open" /\ gpio_open_1_svc(r.pin, r.direction, r.state, result)
  \/ r.op = "close" /\ gpio_close_1_svc(r.pin, result)
  \/ r.op = "read" /\ ReadPin(r.pin, result)
  \/ r.op = "write" /\ WritePin(r.pin, r.state, result)

XmlRpcHandler(r, result) ==
  \/ r.op = "open" /\ gpio_open(r.pin, r.direction, r.state, result)
  \/ r.op = "close" /\ gpio_close(r.pin, result)
  \/ r.op = "read" /\ ReadPin(r.pin, result)
  \/ r.op = "write" /\ WritePin(r.pin, r.state, result)

Handler(r, result) ==
  IF Server = "onc-rpc" THEN OncRpcHandler(r, result) ELSE XmlRpcHandler(r, result)
-----------------------------------------------------------------------------
(***************************************************************************)
(* Clients, the network and the server's loop.                             *)
(***************************************************************************)
Idle(c) == pending[c] = NoCall

\* A client's program makes one of its calls.
Call(c) ==
  /\ Idle(c)
  /\ calls[c] < MaxCalls[c]
  /\ \E r \in Program[c] :
       LET t == [request |-> r, xid |-> calls[c] + 1]
       IN  /\ pending' = [pending EXCEPT ![c] = t]
           /\ sent' = [sent EXCEPT ![c] = Append(@, t)]
  /\ calls' = [calls EXCEPT ![c] = @ + 1]
  /\ copies' = [copies EXCEPT ![c] = 1]
  /\ UNCHANGED <<server, answers, known>>

\* No answer yet: the client's RPC library sends the call again.
Retransmit(c) ==
  /\ Datagrams /\ ~Idle(c)
  /\ copies[c] < MaxCopies[c]
  /\ copies' = [copies EXCEPT ![c] = @ + 1]
  /\ sent' = [sent EXCEPT ![c] = Append(@, pending[c])]
  /\ UNCHANGED <<server, calls, pending, known, answers>>

\* svc_run or Abyss takes the next call and runs its handler.
Serve(c) ==
  /\ sent[c] # <<>>
  /\ LET r == Head(sent[c]).request
     IN  \E result \in {-EINVAL, -EACCES, -EBADF, -EIO, -EPERM, 0, 1} :
           /\ Handler(r, result)
           /\ answers' = IF Head(sent[c]) = pending[c]
                         THEN [answers EXCEPT ![c] = @ \cup {result}]
                         ELSE answers
  /\ sent' = [sent EXCEPT ![c] = Tail(@)]
  /\ UNCHANGED client

LoseCall(c) ==
  /\ Datagrams /\ sent[c] # <<>>
  /\ sent' = [sent EXCEPT ![c] = Tail(@)]
  /\ UNCHANGED <<server, client, answers>>

\* What an answer to the call r tells of its pin, when k was known of it.
Told(r, result, k) ==
  CASE r.op = "open" /\ result = 0 -> Open(r.direction, r.state)
    [] r.op = "open" /\ result \notin {0, -EINVAL} -> Unknown
    [] r.op = "close" /\ result \in {0, -EBADF} -> Closed
    [] r.op = "write" /\ result = 0 -> Open(1, r.state)
    [] OTHER -> k

\* The client takes an answer to its call; answers that come later are dropped,
\* and one that is lost is one the client does not take.
Return(c) ==
  /\ ~Idle(c)
  /\ \E result \in answers[c] :
       LET r == pending[c].request
       IN  known' = [known EXCEPT ![c][r.pin] = Told(r, result, @)]
  /\ pending' = [pending EXCEPT ![c] = NoCall]
  /\ copies' = [copies EXCEPT ![c] = 0]
  /\ answers' = [answers EXCEPT ![c] = {}]
  /\ UNCHANGED <<server, calls, sent>>

\* The client gives up; its call may yet be served.
GiveUp(c) ==
  /\ Datagrams /\ ~Idle(c)
  /\ LET r == pending[c].request
     IN  known' = [known EXCEPT ![c][r.pin] = IF r.op = "read" THEN @ ELSE Unknown]
  /\ pending' = [pending EXCEPT ![c] = NoCall]
  /\ copies' = [copies EXCEPT ![c] = 0]
  /\ answers' = [answers EXCEPT ![c] = {}]
  /\ UNCHANGED <<server, calls, sent>>

\* All programs have ended; anywhere else somebody must be able to go on.
Done ==
  /\ \A c \in Clients : Idle(c) /\ calls[c] = MaxCalls[c] /\ sent[c] = <<>>
  /\ UNCHANGED vars

Next ==
  \/ Done
  \/ \E c \in Clients :
       \/ Call(c) \/ Retransmit(c) \/ Serve(c) \/ LoseCall(c)
       \/ Return(c) \/ GiveUp(c)

Spec == Init /\ [][Next]_vars
-----------------------------------------------------------------------------
\* Type invariant.
TypeOK ==
  /\ fdtable \in [Pins -> Fds \cup {0, -1}]
  /\ files \in [Fds -> Pins \cup {NoPin}]
  /\ direction \in [Pins -> 0..1] /\ level \in [Pins -> 0..1]
  /\ faults \in Nat
  /\ calls \in [Clients -> Nat] /\ copies \in [Clients -> Nat]
  /\ pending \in [Clients -> Transaction]
  /\ sent \in [Clients -> Seq(Transaction)]
  /\ answers \in [Clients -> SUBSET Int]
  /\ known \in [Clients -> [Pins -> [st : {"unknown", "closed", "open"},
                                    direction : 0..1, state : 0..1]]]

\* "See if pin is already open" (gpio_server_xmlrpc.c:80): an entry of fdtable
\* that is not 0 is an open descriptor of just that pin, and no descriptor is
\* open that no entry names, through any order of calls and failures.
TableIsTrue ==
  /\ \A p \in Pins : fdtable[p] # 0 => IsOpen(fdtable[p]) /\ files[fdtable[p]] = p
  /\ \A f \in Fds : files[f] # NoPin => fdtable[files[f]] = f

\* Only c changes pin p; others may read it.
Sole(c, p) ==
  /\ \E r \in Program[c] : r.pin = p
  /\ \A o \in Clients \ {c} : \A r \in Program[o] : r.pin = p => r.op = "read"

\* What a pin's only user has been told of it stays true until its next call
\* on the pin: a pin said to be open is open, in the direction asked for and
\* driven to the state last acknowledged, and one said to be closed is closed,
\* whatever copies of earlier calls are still served (the handlers).
ClientKnows ==
  \A c \in Clients, p \in Valid :
    Sole(c, p) /\ (pending[c].request.pin = p => pending[c].request.op = "read") =>
      LET k == known[c][p]
      IN  /\ k.st = "closed" => fdtable[p] = 0
          /\ k.st = "open" =>
               /\ IsOpen(fdtable[p]) /\ direction[p] = k.direction
               /\ k.direction = 1 => level[p] = k.state
=============================================================================
