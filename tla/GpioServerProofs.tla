-------------------------- MODULE GpioServerProofs --------------------------
(***************************************************************************)
(* For any clients, pins, descriptors and number of calls: the variables   *)
(* of GpioServer keep their types, the ONC-RPC server's table names just   *)
(* the descriptors that are open, and what the only user of a pin has been *)
(* told of it is true.                                                     *)
(***************************************************************************)
EXTENDS GpioServer, SequenceTheorems, TLAPS

\* The server's part of the type invariant.
ServerType ==
  /\ fdtable \in [Pins -> Fds \cup {0, -1}]
  /\ files \in [Fds -> Pins \cup {NoPin}]
  /\ direction \in [Pins -> 0..1] /\ level \in [Pins -> 0..1]
  /\ faults \in Nat

\* The clients' and the network's part of it.
ClientType ==
  /\ calls \in [Clients -> Nat] /\ copies \in [Clients -> Nat]
  /\ pending \in [Clients -> Transaction]
  /\ sent \in [Clients -> Seq(Transaction)]
  /\ answers \in [Clients -> SUBSET Int]
  /\ known \in [Clients -> [Pins -> [st : {"unknown", "closed", "open"},
                                    direction : 0..1, state : 0..1]]]

\* TypeOK is the two of them.
LEMMA TypeParts == TypeOK <=> ServerType /\ ClientType
  BY DEF TypeOK, ServerType, ClientType

\* What GPIO_configure leaves of the types.
LEMMA ConfigureType ==
  ASSUME ServerType, NEW p \in Pins, NEW d \in 0..1, NEW s \in 0..1, NEW error,
         GpioConfigure(p, d, s, error)
  PROVE  direction' \in [Pins -> 0..1] /\ level' \in [Pins -> 0..1] /\ faults' \in Nat
  BY BoundAssumption DEF ServerType, GpioConfigure

\* An open, failed or not, keeps the server's types.
LEMMA OpenType ==
  ASSUME ServerType, NEW p \in Pins, NEW d \in 0..1, NEW s \in 0..1, NEW result,
         NEW left \in {0, -1}, OpenPin(p, d, s, left, result)
  PROVE  ServerType'
<1>1. CASE p \notin Valid /\ UNCHANGED server
  BY <1>1 DEF ServerType, server
<1>2. CASE GpioConfigure(p, d, s, EIO) /\ UNCHANGED <<fdtable, files>>
  BY <1>2, ConfigureType DEF ServerType
<1>3. CASE GpioConfigure(p, d, s, 0) /\ UNCHANGED <<fdtable, files>>
  BY <1>3, ConfigureType DEF ServerType
<1>4. CASE /\ GpioConfigure(p, d, s, 0)
           /\ \E f \in GpioFree :
                /\ fdtable' = [fdtable EXCEPT ![p] = f]
                /\ files' = [files EXCEPT ![f] = p]
  <2>1. PICK f \in GpioFree : /\ fdtable' = [fdtable EXCEPT ![p] = f]
                              /\ files' = [files EXCEPT ![f] = p]
    BY <1>4
  <2>2. f \in Fds
    BY DEF GpioFree
  <2>3. fdtable' \in [Pins -> Fds \cup {0, -1}] /\ files' \in [Fds -> Pins \cup {NoPin}]
    BY <2>1, <2>2 DEF ServerType
  <2>4. QED
    BY <1>4, <2>3, ConfigureType DEF ServerType
<1>5. CASE /\ faults' = IF GpioFree = {} THEN faults ELSE faults + 1
           /\ direction' = [direction EXCEPT ![p] = d]
           /\ level' = IF d = 1 THEN [level EXCEPT ![p] = s] ELSE level
           /\ fdtable' = [fdtable EXCEPT ![p] = left]
           /\ UNCHANGED files
  BY <1>5 DEF ServerType
<1>6. QED
  BY <1>1, <1>2, <1>3, <1>4, <1>5 DEF OpenPin

\* Whatever handler a call runs, the server's types are kept.
LEMMA HandlerType ==
  ASSUME ServerType, NEW r \in Request, r.pin \in Pins, NEW result, Handler(r, result)
  PROVE  ServerType'
<1>0. r.direction \in 0..1 /\ r.state \in 0..1
  BY DEF Request
<1>1. CASE \/ gpio_open_1_svc(r.pin, r.direction, r.state, result)
           \/ gpio_open(r.pin, r.direction, r.state, result)
  <2>1. OpenPin(r.pin, r.direction, r.state, 0, result) \/ OpenPin(r.pin, r.direction, r.state, -1, result)
    BY <1>1 DEF gpio_open_1_svc, gpio_open
  <2>2. QED
    BY <1>0, <2>1, OpenType
<1>2. CASE gpio_close_1_svc(r.pin, result) \/ gpio_close(r.pin, result)
  BY <1>2 DEF gpio_close_1_svc, gpio_close, ClosePin, ServerType, server, IsOpen
<1>3. CASE ReadPin(r.pin, result)
  BY <1>3 DEF ReadPin, ServerType, server
<1>4. CASE WritePin(r.pin, r.state, result)
  BY <1>0, <1>4 DEF WritePin, ServerType
<1>5. QED
  BY <1>1, <1>2, <1>3, <1>4 DEF Handler, OncRpcHandler, XmlRpcHandler

\* Nobody sends a call without an operation or a pin.
Asked(t) == t.request.op # "none" /\ t.request.pin \in Pins

\* What is on its way was sent by a program, and so was what is waited for.
OnlyCalls ==
  \A c \in Clients :
    /\ \A i \in 1..Len(sent[c]) : Asked(sent[c][i])
    /\ ~Idle(c) => Asked(pending[c])

\* The inductive invariant behind the types.
TypeInv == TypeOK /\ OnlyCalls

LEMMA InitTypes == Init => TypeInv
<1> SUFFICES ASSUME Init PROVE TypeInv
  OBVIOUS
<1>1. NoCall \in Transaction
  BY DEF NoCall, Transaction, Request, Ops
<1>2. Closed \in [st : {"unknown", "closed", "open"}, direction : 0..1, state : 0..1]
  BY DEF Closed
<1>3. TypeOK
  <2>1. ServerType
    BY DEF Init, ServerType
  <2>2. sent \in [Clients -> Seq(Transaction)]
    BY DEF Init
  <2>3. known \in [Clients -> [Pins -> [st : {"unknown", "closed", "open"},
                                       direction : 0..1, state : 0..1]]]
    BY <1>2 DEF Init
  <2>4. ClientType
    BY <1>1, <2>2, <2>3 DEF Init, ClientType
  <2>5. QED
    BY <2>1, <2>4, TypeParts
<1>4. OnlyCalls
  <2>1. \A c \in Clients : sent[c] = <<>> /\ Len(sent[c]) = 0 /\ pending[c] = NoCall
    BY DEF Init
  <2>2. ASSUME NEW c \in Clients, NEW i \in 1..Len(sent[c]) PROVE FALSE
    BY <2>1
  <2>3. \A c \in Clients : Idle(c)
    BY <2>1 DEF Idle
  <2>4. QED
    BY <2>2, <2>3 DEF OnlyCalls
<1>5. QED
  BY <1>3, <1>4 DEF TypeInv

\* A call that is sent, once more or for the first time, is one that was asked.
LEMMA SendKeepsCalls ==
  ASSUME TypeOK, OnlyCalls, NEW c \in Clients, NEW t \in Transaction, Asked(t),
         sent' = [sent EXCEPT ![c] = Append(@, t)],
         pending' = pending \/ pending' = [pending EXCEPT ![c] = t]
  PROVE  /\ sent' \in [Clients -> Seq(Transaction)]
         /\ pending' \in [Clients -> Transaction]
         /\ OnlyCalls'
<1> USE DEF TypeOK
<1>1. sent' \in [Clients -> Seq(Transaction)]
  OBVIOUS
<1>2. pending' \in [Clients -> Transaction]
  OBVIOUS
<1>3. ASSUME NEW o \in Clients, NEW i \in 1..Len(sent'[o])
      PROVE  Asked(sent'[o][i])
  <2>1. CASE o # c
    BY <1>3, <2>1 DEF OnlyCalls
  <2>2. CASE o = c
    <3>1. sent'[o] = Append(sent[c], t) /\ sent[c] \in Seq(Transaction)
      BY <2>2
    <3>2. CASE i = Len(sent[c]) + 1
      BY <3>1, <3>2
    <3>3. CASE i \in 1..Len(sent[c])
      BY <3>1, <3>3 DEF OnlyCalls
    <3>4. QED
      BY <3>1, <3>2, <3>3
  <2>3. QED
    BY <2>1, <2>2
<1>4. ASSUME NEW o \in Clients, pending'[o] # NoCall
      PROVE  Asked(pending'[o])
  BY <1>4 DEF OnlyCalls, Idle
<1>5. QED
  BY <1>1, <1>2, <1>3, <1>4 DEF OnlyCalls, Idle

\* Taking the first call away leaves the others.
LEMMA TakeKeepsCalls ==
  ASSUME TypeOK, OnlyCalls, NEW c \in Clients, sent[c] # <<>>,
         sent' = [sent EXCEPT ![c] = Tail(@)], UNCHANGED pending
  PROVE  /\ sent' \in [Clients -> Seq(Transaction)]
         /\ OnlyCalls'
         /\ Head(sent[c]) \in Transaction /\ Asked(Head(sent[c]))
<1>1. sent \in [Clients -> Seq(Transaction)] /\ sent[c] \in Seq(Transaction)
  BY DEF TypeOK
<1>2. Head(sent[c]) = sent[c][1] /\ 1 \in 1..Len(sent[c])
  BY <1>1
<1>3. Tail(sent[c]) \in Seq(Transaction)
  BY <1>1
<1>4. sent' \in [Clients -> Seq(Transaction)]
  BY <1>1, <1>3
<1>5. ASSUME NEW o \in Clients, NEW i \in 1..Len(sent'[o])
      PROVE  Asked(sent'[o][i])
  <2>1. CASE o # c
    BY <1>1, <1>5, <2>1 DEF OnlyCalls
  <2>2. CASE o = c
    <3>1. sent'[o] = Tail(sent[c])
      BY <1>1, <2>2
    <3>2. sent'[o][i] = sent[c][i + 1] /\ i + 1 \in 1..Len(sent[c])
      BY <1>1, <3>1
    <3>3. QED
      BY <3>2 DEF OnlyCalls
  <2>3. QED
    BY <2>1, <2>2
<1>6. QED
  BY <1>1, <1>2, <1>4, <1>5 DEF OnlyCalls, Idle

\* What an answer tells is a thing that can be told.
LEMMA ToldType ==
  ASSUME NEW r \in Request, NEW result,
         NEW k \in [st : {"unknown", "closed", "open"}, direction : 0..1, state : 0..1]
  PROVE  Told(r, result, k) \in
           [st : {"unknown", "closed", "open"}, direction : 0..1, state : 0..1]
<1>1. r.direction \in 0..1 /\ r.state \in 0..1
  BY DEF Request
<1>2. QED
  BY <1>1 DEF Told, Open, Closed, Unknown

\* Every step keeps types and the calls on their way.
LEMMA StepTypes == TypeInv /\ [Next]_vars => TypeInv'
<1> SUFFICES ASSUME TypeOK, OnlyCalls, [Next]_vars PROVE TypeOK' /\ OnlyCalls'
  BY DEF TypeInv
<1>1. ASSUME NEW c \in Clients, Call(c) PROVE TypeOK' /\ OnlyCalls'
  <2>1. PICK r \in Program[c] :
          LET t == [request |-> r, xid |-> calls[c] + 1]
          IN  pending' = [pending EXCEPT ![c] = t] /\ sent' = [sent EXCEPT ![c] = Append(@, t)]
    BY <1>1 DEF Call
  <2> DEFINE t == [request |-> r, xid |-> calls[c] + 1]
  <2>2. r \in Request /\ r.op # "none" /\ r.pin \in Pins
    BY ProgramAssumption
  <2>3. t \in Transaction /\ Asked(t)
    BY <2>2 DEF Transaction, Asked, TypeOK
  <2>4. /\ sent' \in [Clients -> Seq(Transaction)] /\ pending' \in [Clients -> Transaction]
        /\ OnlyCalls'
    BY <2>1, <2>3, SendKeepsCalls
  <2>5. QED
    BY <1>1, <2>4 DEF Call, TypeOK, server
<1>2. ASSUME NEW c \in Clients, Retransmit(c) PROVE TypeOK' /\ OnlyCalls'
  <2>1. pending[c] \in Transaction /\ Asked(pending[c])
    BY <1>2 DEF Retransmit, OnlyCalls, TypeOK
  <2>2. sent' \in [Clients -> Seq(Transaction)] /\ OnlyCalls'
    BY <1>2, <2>1, SendKeepsCalls DEF Retransmit
  <2>3. QED
    BY <1>2, <2>2 DEF Retransmit, TypeOK, server
<1>3. ASSUME NEW c \in Clients, Serve(c) PROVE TypeOK' /\ OnlyCalls'
  <2>1. /\ sent' \in [Clients -> Seq(Transaction)] /\ OnlyCalls'
        /\ Head(sent[c]) \in Transaction /\ Asked(Head(sent[c]))
    BY <1>3, TakeKeepsCalls DEF Serve, client
  <2> DEFINE r == Head(sent[c]).request
  <2>2. r \in Request /\ r.op # "none" /\ r.pin \in Pins
    BY <2>1 DEF Transaction, Asked
  <2>3. PICK result \in {-EINVAL, -EACCES, -EBADF, -EIO, -EPERM, 0, 1} :
          /\ Handler(r, result)
          /\ \/ answers' = [answers EXCEPT ![c] = @ \cup {result}]
             \/ answers' = answers
    BY <1>3 DEF Serve
  <2>4. ServerType'
    BY <2>2, <2>3, HandlerType, TypeParts
  <2>5. result \in Int
    BY DEF EINVAL, EACCES, EBADF, EIO, EPERM
  <2>6. answers' \in [Clients -> SUBSET Int]
    <3>1. answers[c] \in SUBSET Int /\ answers[c] \cup {result} \in SUBSET Int
      BY <2>5 DEF TypeOK
    <3>2. QED
      BY <2>3, <3>1 DEF TypeOK
  <2>7. ClientType'
    BY <1>3, <2>1, <2>6 DEF Serve, client, ClientType, TypeOK
  <2>8. QED
    BY <2>1, <2>4, <2>7, TypeParts DEF TypeOK, ServerType, ClientType
<1>4. ASSUME NEW c \in Clients, LoseCall(c) PROVE TypeOK' /\ OnlyCalls'
  <2>1. sent' \in [Clients -> Seq(Transaction)] /\ OnlyCalls'
    BY <1>4, TakeKeepsCalls DEF LoseCall, client
  <2>2. QED
    BY <1>4, <2>1 DEF LoseCall, TypeOK, server, client
<1>5. ASSUME NEW c \in Clients, ~Idle(c), UNCHANGED <<server, calls, sent>>,
             copies' = [copies EXCEPT ![c] = 0], answers' = [answers EXCEPT ![c] = {}],
             pending' = [pending EXCEPT ![c] = NoCall],
             NEW k, k \in [st : {"unknown", "closed", "open"}, direction : 0..1, state : 0..1],
             known' = [known EXCEPT ![c][pending[c].request.pin] = k]
      PROVE  TypeOK' /\ OnlyCalls'
  <2>1. NoCall \in Transaction
    BY DEF NoCall, Transaction, Request, Ops
  <2>2. pending[c].request.pin \in Pins
    BY <1>5 DEF OnlyCalls, Asked
  <2>3. known' \in [Clients -> [Pins -> [st : {"unknown", "closed", "open"},
                                       direction : 0..1, state : 0..1]]]
    BY <1>5, <2>2 DEF TypeOK
  <2>4. TypeOK'
    BY <1>5, <2>1, <2>3 DEF TypeOK, server
  <2>5. OnlyCalls'
    BY <1>5 DEF OnlyCalls, Idle, TypeOK
  <2>6. QED
    BY <2>4, <2>5
<1>6. ASSUME NEW c \in Clients, Return(c) PROVE TypeOK' /\ OnlyCalls'
  <2> DEFINE r == pending[c].request
             k == known[c][r.pin]
  <2>1. r \in Request /\ r.pin \in Pins
    BY <1>6 DEF Return, OnlyCalls, Asked, TypeOK, Transaction
  <2>2. PICK result \in answers[c] :
          known' = [known EXCEPT ![c][r.pin] = Told(r, result, k)]
    BY <1>6, <2>1 DEF Return, TypeOK
  <2>3. k \in [st : {"unknown", "closed", "open"}, direction : 0..1, state : 0..1]
    BY <2>1 DEF TypeOK
  <2>4. /\ ~Idle(c) /\ UNCHANGED <<server, calls, sent>>
        /\ copies' = [copies EXCEPT ![c] = 0] /\ answers' = [answers EXCEPT ![c] = {}]
        /\ pending' = [pending EXCEPT ![c] = NoCall]
    BY <1>6 DEF Return
  <2> HIDE DEF k, r
  <2>5. Told(r, result, k) \in
          [st : {"unknown", "closed", "open"}, direction : 0..1, state : 0..1]
    BY <2>1, <2>3, ToldType
  <2>6. QED
    BY <1>5, <2>2, <2>4, <2>5 DEF r
<1>7. ASSUME NEW c \in Clients, GiveUp(c) PROVE TypeOK' /\ OnlyCalls'
  <2> DEFINE r == pending[c].request
             k == IF r.op = "read" THEN known[c][r.pin] ELSE Unknown
  <2>1. r \in Request /\ r.pin \in Pins
    BY <1>7 DEF GiveUp, OnlyCalls, Asked, TypeOK, Transaction
  <2>2. known' = [known EXCEPT ![c][r.pin] = k]
    BY <1>7, <2>1 DEF GiveUp, TypeOK
  <2>3. k \in [st : {"unknown", "closed", "open"}, direction : 0..1, state : 0..1]
    BY <2>1 DEF TypeOK, Unknown
  <2>4. QED
    BY <1>5, <1>7, <2>2, <2>3 DEF GiveUp
<1>8. CASE UNCHANGED vars
  BY <1>8 DEF vars, server, client, TypeOK, OnlyCalls, Idle
<1>9. QED
  BY <1>1, <1>2, <1>3, <1>4, <1>6, <1>7, <1>8 DEF Next, Done

\* Every variable keeps its type, whichever server runs and however many
\* clients call, copy, lose and give up (the whole module).
THEOREM TypeCorrect == Spec => []TypeOK
<1>1. TypeInv => TypeOK
  BY DEF TypeInv
<1>2. QED
  BY InitTypes, StepTypes, <1>1, PTL DEF Spec
-----------------------------------------------------------------------------
\* A pin of the table and a descriptor belong to each other (the table's
\* entries are what GPIO_open returned), so each handler keeps the table true
\* while the failure of GPIO_open is undone, as the ONC-RPC server does.
LEMMA OpenTable ==
  ASSUME ServerType, TableIsTrue, NEW p \in Pins,
         NEW d \in 0..1, NEW s \in 0..1, NEW result, gpio_open_1_svc(p, d, s, result)
  PROVE  TableIsTrue'
<1>1. CASE UNCHANGED <<fdtable, files>>
  BY <1>1 DEF TableIsTrue, IsOpen
<1>2. CASE /\ fdtable[p] = 0
           /\ \E f \in GpioFree :
                /\ fdtable' = [fdtable EXCEPT ![p] = f]
                /\ files' = [files EXCEPT ![f] = p]
  <2>1. PICK f \in GpioFree : /\ fdtable' = [fdtable EXCEPT ![p] = f]
                              /\ files' = [files EXCEPT ![f] = p]
    BY <1>2
  <2>2. f \in Fds /\ files[f] = NoPin
    BY DEF GpioFree
  <2>3. p # NoPin
    BY PinAssumption
  <2>4. ASSUME NEW q \in Pins, fdtable'[q] # 0
        PROVE  fdtable'[q] \in Fds /\ files'[fdtable'[q]] = q
    <3>1. CASE q = p
      BY <2>1, <2>2, <2>3, <3>1 DEF ServerType
    <3>2. CASE q # p
      <4>1. fdtable'[q] = fdtable[q]
        BY <2>1, <3>2 DEF ServerType
      <4>2. fdtable[q] \in Fds /\ files[fdtable[q]] = q /\ q # NoPin
        BY <2>4, <4>1, PinAssumption DEF TableIsTrue, IsOpen
      <4>3. fdtable[q] # f
        BY <2>2, <4>2
      <4>4. files'[fdtable[q]] = q
        BY <2>1, <4>2, <4>3 DEF ServerType
      <4>5. QED
        BY <4>1, <4>2, <4>4
    <3>3. QED
      BY <3>1, <3>2
  <2>5. ASSUME NEW g \in Fds, files'[g] # NoPin
        PROVE  fdtable'[files'[g]] = g
    <3>1. CASE g = f
      BY <2>1, <3>1 DEF ServerType
    <3>2. CASE g # f
      <4>1. files'[g] = files[g] /\ files[g] \in Pins
        BY <2>1, <2>5, <3>2 DEF ServerType
      <4>2. fdtable[files[g]] = g
        BY <2>5, <4>1 DEF TableIsTrue
      <4>3. files[g] # p
        BY <1>2, <4>2, FdAssumption
      <4>4. QED
        BY <2>1, <4>1, <4>2, <4>3 DEF ServerType
    <3>3. QED
      BY <3>1, <3>2
  <2>6. QED
    BY <2>4, <2>5, PinAssumption DEF TableIsTrue, IsOpen
<1>3. CASE /\ fdtable[p] = 0
           /\ fdtable' = [fdtable EXCEPT ![p] = 0]
           /\ UNCHANGED files
  <2>1. fdtable' = fdtable
    BY <1>3 DEF ServerType
  <2>2. QED
    BY <1>1, <1>3, <2>1
<1>4. QED
  BY <1>1, <1>2, <1>3 DEF gpio_open_1_svc, OpenPin, server

LEMMA CloseTable ==
  ASSUME ServerType, TableIsTrue, NEW p \in Pins, NEW result, ClosePin(p, result)
  PROVE  TableIsTrue'
<1>1. CASE UNCHANGED <<fdtable, files>>
  BY <1>1 DEF TableIsTrue, IsOpen
<1>2. CASE /\ IsOpen(fdtable[p])
           /\ files' = [files EXCEPT ![fdtable[p]] = NoPin]
           /\ fdtable' = [fdtable EXCEPT ![p] = 0]
  <2> DEFINE f == fdtable[p]
  <2>1. f \in Fds /\ f # 0 /\ files[f] = p
    BY <1>2, FdAssumption DEF IsOpen, TableIsTrue
  <2>2. ASSUME NEW q \in Pins, fdtable'[q] # 0
        PROVE  fdtable'[q] \in Fds /\ files'[fdtable'[q]] = q
    <3>1. q # p /\ fdtable'[q] = fdtable[q]
      BY <1>2, <2>2 DEF ServerType
    <3>2. fdtable[q] \in Fds /\ files[fdtable[q]] = q /\ q # NoPin
      BY <2>2, <3>1, PinAssumption DEF TableIsTrue, IsOpen
    <3>3. fdtable[q] # f
      BY <2>1, <3>1, <3>2
    <3>4. files'[fdtable[q]] = q
      BY <1>2, <3>2, <3>3 DEF ServerType
    <3>5. QED
      BY <3>1, <3>2, <3>4
  <2>3. ASSUME NEW g \in Fds, files'[g] # NoPin
        PROVE  fdtable'[files'[g]] = g
    <3>1. g # f /\ files'[g] = files[g] /\ files[g] \in Pins
      BY <1>2, <2>3 DEF ServerType
    <3>2. fdtable[files[g]] = g
      BY <2>3, <3>1 DEF TableIsTrue
    <3>3. files[g] # p
      BY <3>1, <3>2
    <3>4. QED
      BY <1>2, <3>1, <3>2, <3>3 DEF ServerType
  <2>4. QED
    BY <2>2, <2>3, PinAssumption DEF TableIsTrue, IsOpen
<1>3. QED
  BY <1>1, <1>2 DEF ClosePin

\* A step keeps the table true, in a state whose types are right.
LEMMA StepTable ==
  ASSUME Server = "onc-rpc"
  PROVE  TypeInv /\ TableIsTrue /\ [Next]_vars => TableIsTrue'
<1> SUFFICES ASSUME TypeOK, OnlyCalls, TableIsTrue, [Next]_vars PROVE TableIsTrue'
  BY DEF TypeInv
<1>1. CASE UNCHANGED <<fdtable, files>>
  BY <1>1 DEF TableIsTrue, IsOpen
<1>2. ASSUME NEW c \in Clients, Serve(c) PROVE TableIsTrue'
  <2> DEFINE r == Head(sent[c]).request
  <2>1. Head(sent[c]) \in Transaction /\ Asked(Head(sent[c]))
    BY <1>2, TakeKeepsCalls DEF Serve, client
  <2>2. r \in Request /\ r.pin \in Pins /\ r.direction \in 0..1 /\ r.state \in 0..1
    BY <2>1 DEF Transaction, Asked, Request
  <2>3. ServerType
    BY TypeParts
  <2>4. PICK result \in {-EINVAL, -EACCES, -EBADF, -EIO, -EPERM, 0, 1} :
          \/ gpio_open_1_svc(r.pin, r.direction, r.state, result)
          \/ gpio_close_1_svc(r.pin, result)
          \/ ReadPin(r.pin, result)
          \/ WritePin(r.pin, r.state, result)
    BY <1>2 DEF Serve, Handler, OncRpcHandler
  <2>5. CASE gpio_open_1_svc(r.pin, r.direction, r.state, result)
    BY <2>2, <2>3, <2>5, OpenTable
  <2>6. CASE gpio_close_1_svc(r.pin, result)
    BY <2>2, <2>3, <2>6, CloseTable DEF gpio_close_1_svc
  <2>7. CASE ReadPin(r.pin, result) \/ WritePin(r.pin, r.state, result)
    BY <1>1, <2>7 DEF ReadPin, WritePin, server
  <2>8. QED
    BY <2>4, <2>5, <2>6, <2>7
<1>3. QED
  BY <1>1, <1>2
  DEF Next, Done, Call, Retransmit, LoseCall, Return, GiveUp, vars, server, client

\* The ONC-RPC server never has an entry that is not an open descriptor of its
\* pin, nor an open descriptor that no entry names, for any number of clients,
\* pins, descriptors, lost and repeated calls and failures
\* (gpio_server_oncrpc.c:79-160).
THEOREM TableAlwaysTrue ==
  ASSUME Server = "onc-rpc"
  PROVE  Spec => []TableIsTrue
<1>1. Init => TableIsTrue
  BY DEF Init, TableIsTrue
<1>2. TypeInv /\ TableIsTrue /\ [Next]_vars => TypeInv' /\ TableIsTrue'
  BY StepTypes, StepTable
<1>3. QED
  BY InitTypes, <1>1, <1>2, PTL DEF Spec
-----------------------------------------------------------------------------
\* What ClientKnows says of a pin of which k is known.
PinIs(p, k) ==
  /\ k.st = "closed" => fdtable[p] = 0
  /\ k.st = "open" => /\ IsOpen(fdtable[p]) /\ direction[p] = k.direction
                      /\ k.direction = 1 => level[p] = k.state

\* Serving r, however often, leaves true what k says of its pin.
Harmless(r, k) ==
  \/ r.op = "read" \/ k.st = "unknown"
  \/ k.st = "closed" /\ r.op \in {"close", "write"}
  \/ /\ k.st = "open" /\ r.op \in {"open", "write"}
     /\ r.op = "open" => r.direction = k.direction
     /\ k.direction = 1 => r.state = k.state

\* The call that c waits for changes p.
Changing(c, p) == pending[c].request.pin = p /\ pending[c].request.op # "read"

\* Calls on their way are the program's; those from the first copy of the
\* pending one on are copies of it, and all of them are once it was answered.
QueueOf(c) ==
  /\ \A i \in 1..Len(sent[c]) :
       sent[c][i].request \in Program[c] /\ sent[c][i].xid <= calls[c]
  /\ ~Idle(c) => pending[c].request \in Program[c] /\ pending[c].xid <= calls[c]
  /\ Idle(c) => answers[c] = {}
  /\ \A i, j \in 1..Len(sent[c]) :
       i < j /\ sent[c][i] = pending[c] => sent[c][j] = pending[c]
  /\ answers[c] # {} => \A i \in 1..Len(sent[c]) : sent[c][i] = pending[c]

QueueInv == \A c \in Clients : QueueOf(c)

\* Before a change of p is answered, what c knows of p is true and no other
\* call on its way can disturb it; afterwards whichever answer c will take
\* tells the truth, and the copies still on their way do not disturb that.
Knowing(c, p) ==
  LET k == known[c][p]
      r == pending[c].request
  IN  IF Changing(c, p) /\ answers[c] # {}
      THEN \A a \in answers[c] : PinIs(p, Told(r, a, k)) /\ Harmless(r, Told(r, a, k))
      ELSE /\ PinIs(p, k)
           /\ \A i \in 1..Len(sent[c]) :
                sent[c][i].request.pin = p =>
                  \/ Changing(c, p) /\ sent[c][i] = pending[c]
                  \/ Harmless(sent[c][i].request, k)

\* The inductive invariant behind ClientKnows, on top of TypeInv and TableIsTrue.
KnowInv ==
  /\ QueueInv
  /\ \A c \in Clients, p \in Valid : Sole(c, p) => Knowing(c, p)

Knowledge == [st : {"unknown", "closed", "open"}, direction : 0..1, state : 0..1]

\* The i-th element of a queue after one more was put in, or the first taken out.
LEMMA Appended ==
  ASSUME NEW S, NEW q \in Seq(S), NEW t \in S
  PROVE  /\ Len(Append(q, t)) = Len(q) + 1 /\ Len(q) \in Nat
         /\ \A i \in 1..Len(Append(q, t)) :
              Append(q, t)[i] = IF i \in 1..Len(q) THEN q[i] ELSE t
OBVIOUS

LEMMA Taken ==
  ASSUME NEW S, NEW q \in Seq(S), q # <<>>
  PROVE  /\ Len(Tail(q)) = Len(q) - 1 /\ Len(q) \in Nat \ {0}
         /\ Head(q) = q[1]
         /\ \A i \in 1..Len(Tail(q)) : Tail(q)[i] = q[i + 1] /\ i + 1 \in 1..Len(q)
OBVIOUS
-----------------------------------------------------------------------------
\* A call that leaves p alone, because it reads or is for another pin.
LEMMA OtherPinKept ==
  ASSUME ServerType, TableIsTrue, Server = "onc-rpc", NEW p \in Valid, NEW k,
         NEW r \in Request, r.pin \in Pins, r.pin = p => r.op = "read",
         NEW result, Handler(r, result), PinIs(p, k)
  PROVE  PinIs(p, k)'
<1> DEFINE q == r.pin
<1>1. p \in Pins
  BY PinAssumption
<1>2. CASE UNCHANGED server
  BY <1>2 DEF PinIs, IsOpen, server
<1>3. ASSUME q # p,
             \A f \in Fds : files[f] = p => files'[f] = p,
             fdtable'[p] = fdtable[p], direction'[p] = direction[p],
             level'[p] = level[p]
      PROVE  PinIs(p, k)'
  <2>1. IsOpen(fdtable[p]) => files[fdtable[p]] = p
    BY <1>1, FdAssumption DEF TableIsTrue, IsOpen
  <2>2. IsOpen(fdtable[p]) => IsOpen(fdtable[p])'
    BY <1>1, <1>3, <2>1, PinAssumption DEF IsOpen
  <2>3. QED
    BY <1>3, <2>2 DEF PinIs
<1>4. CASE q # p /\ r.op = "open" /\ gpio_open_1_svc(q, r.direction, r.state, result)
  <2>1. \A f \in Fds : files[f] = p => files'[f] = p
    BY <1>1, <1>4, PinAssumption DEF gpio_open_1_svc, OpenPin, GpioFree, ServerType, server
  <2>2. /\ fdtable'[p] = fdtable[p] /\ direction'[p] = direction[p]
        /\ level'[p] = level[p]
    BY <1>1, <1>4 DEF gpio_open_1_svc, OpenPin, GpioConfigure, ServerType, server
  <2>3. QED
    BY <1>3, <1>4, <2>1, <2>2
<1>5. CASE q # p /\ r.op = "close" /\ ClosePin(q, result)
  <2>1. \A f \in Fds : files[f] = p => files'[f] = p
    <3>1. IsOpen(fdtable[q]) => files[fdtable[q]] = q
      BY <1>1, FdAssumption DEF TableIsTrue, IsOpen
    <3>2. QED
      BY <1>5, <3>1 DEF ClosePin, ServerType
  <2>2. /\ fdtable'[p] = fdtable[p] /\ direction'[p] = direction[p]
        /\ level'[p] = level[p]
    BY <1>1, <1>5 DEF ClosePin, ServerType
  <2>3. QED
    BY <1>3, <1>5, <2>1, <2>2
<1>6. CASE q # p /\ r.op = "write" /\ WritePin(q, r.state, result)
  <2>1. /\ files' = files /\ fdtable' = fdtable /\ direction' = direction
        /\ level'[p] = level[p]
    BY <1>1, <1>6 DEF WritePin, ServerType
  <2>2. QED
    BY <1>3, <1>6, <2>1
<1>7. CASE r.op = "read" /\ ReadPin(q, result)
  BY <1>2, <1>7 DEF ReadPin
<1>8. QED
  BY <1>4, <1>5, <1>6, <1>7 DEF Handler, OncRpcHandler, gpio_close_1_svc

\* What each handler leaves of a pin that is on the board.
LEMMA PinAfter ==
  ASSUME ServerType, TableIsTrue, Server = "onc-rpc", NEW p \in Valid,
         NEW r \in Request, r.pin = p, NEW result, Handler(r, result)
  PROVE  /\ r.op = "open" =>
              /\ result = 0 => PinIs(p, Open(r.direction, r.state))'
              /\ result # -EINVAL
              /\ IsOpen(fdtable[p]) =>
                   /\ fdtable' = fdtable /\ files' = files
                   /\ \/ UNCHANGED <<direction, level>>
                      \/ direction'[p] = r.direction /\ (r.direction = 1 => level'[p] = r.state)
         /\ r.op = "close" => /\ fdtable'[p] = 0
                              /\ result \in {0, -EBADF}
         /\ r.op = "write" =>
              /\ UNCHANGED <<fdtable, files, direction>>
              /\ result = 0 => PinIs(p, Open(1, r.state))'
              /\ IsOpen(fdtable[p]) /\ direction[p] = 1 => result = 0 /\ level'[p] = r.state
              /\ ~(IsOpen(fdtable[p]) /\ direction[p] = 1) => result # 0 /\ UNCHANGED level
         /\ r.op = "read" => UNCHANGED server
<1>1. p \in Pins /\ p # NoPin /\ r.direction \in 0..1 /\ r.state \in 0..1
  BY PinAssumption DEF Request
<1>2. /\ fdtable[p] # 0 <=> IsOpen(fdtable[p])
  BY <1>1, FdAssumption DEF TableIsTrue, IsOpen
<1>3. CASE r.op = "open" /\ gpio_open_1_svc(p, r.direction, r.state, result)
  <2>1. CASE GpioConfigure(p, r.direction, r.state, EIO) /\ result = -EIO
              /\ UNCHANGED <<fdtable, files>>
    BY <1>3, <2>1 DEF GpioConfigure, EIO, EINVAL
  <2>2. CASE /\ fdtable[p] # 0 /\ GpioConfigure(p, r.direction, r.state, 0)
             /\ result = 0 /\ UNCHANGED <<fdtable, files>>
    <3>1. direction'[p] = r.direction /\ (r.direction = 1 => level'[p] = r.state)
      BY <1>1, <2>2 DEF GpioConfigure, ServerType, EIO
    <3>2. IsOpen(fdtable[p])'
      BY <1>2, <2>2 DEF IsOpen
    <3>3. PinIs(p, Open(r.direction, r.state))'
      BY <1>1, <3>1, <3>2 DEF PinIs, Open
    <3>4. QED
      BY <1>3, <2>2, <3>1, <3>3 DEF EINVAL
  <2>3. CASE /\ fdtable[p] = 0 /\ GpioConfigure(p, r.direction, r.state, 0) /\ result = 0
             /\ \E f \in GpioFree : /\ fdtable' = [fdtable EXCEPT ![p] = f]
                                    /\ files' = [files EXCEPT ![f] = p]
    <3>1. direction'[p] = r.direction /\ (r.direction = 1 => level'[p] = r.state)
      BY <1>1, <2>3 DEF GpioConfigure, ServerType, EIO
    <3>2. IsOpen(fdtable[p])'
      BY <1>1, <2>3 DEF IsOpen, GpioFree, ServerType
    <3>3. PinIs(p, Open(r.direction, r.state))'
      BY <1>1, <3>1, <3>2 DEF PinIs, Open
    <3>4. QED
      BY <1>2, <1>3, <2>3, <3>3 DEF EINVAL
  <2>4. CASE fdtable[p] = 0 /\ result = -EACCES
    BY <1>2, <1>3, <2>4 DEF EACCES, EINVAL
  <2>5. QED
    BY <1>3, <2>1, <2>2, <2>3, <2>4 DEF gpio_open_1_svc, OpenPin
<1>4. CASE r.op = "close" /\ ClosePin(p, result)
  BY <1>1, <1>2, <1>4 DEF ClosePin, ServerType
<1>5. CASE r.op = "write" /\ WritePin(p, r.state, result)
  <2>1. /\ UNCHANGED <<fdtable, files, direction>>
        /\ IsOpen(fdtable[p]) /\ direction[p] = 1 => result = 0 /\ level'[p] = r.state
        /\ ~(IsOpen(fdtable[p]) /\ direction[p] = 1) => result # 0 /\ UNCHANGED level
    BY <1>1, <1>5 DEF WritePin, ServerType, EPERM, EBADF
  <2>2. ASSUME result = 0 PROVE PinIs(p, Open(1, r.state))'
    BY <2>1, <2>2 DEF PinIs, Open, IsOpen
  <2>3. QED
    BY <1>5, <2>1, <2>2
<1>6. CASE r.op = "read" /\ ReadPin(p, result)
  BY <1>6 DEF ReadPin
<1>7. QED
  BY <1>3, <1>4, <1>5, <1>6 DEF Handler, OncRpcHandler, gpio_close_1_svc

\* A harmless call leaves the knowledge true.
LEMMA HarmlessKept ==
  ASSUME ServerType, TableIsTrue, Server = "onc-rpc", NEW p \in Valid,
         NEW k \in Knowledge, NEW r \in Request, r.pin = p, NEW result,
         Handler(r, result), Harmless(r, k), PinIs(p, k)
  PROVE  PinIs(p, k)'
<1>1. CASE k.st = "unknown"
  BY <1>1 DEF PinIs
<1>2. CASE r.op = "read"
  BY <1>2, PinAfter DEF PinIs, IsOpen, server
<1>3. CASE k.st = "closed" /\ r.op \in {"close", "write"}
  BY <1>3, PinAfter DEF PinIs
<1>4. CASE k.st = "open" /\ r.op = "open" /\ r.op # "read"
  <2>1. /\ IsOpen(fdtable[p]) /\ direction[p] = k.direction /\ r.direction = k.direction
        /\ k.direction = 1 => level[p] = k.state /\ r.state = k.state
    BY <1>4 DEF PinIs, Harmless
  <2>2. IsOpen(fdtable[p])'
    BY <1>4, <2>1, PinAfter DEF IsOpen
  <2>3. direction'[p] = k.direction /\ (k.direction = 1 => level'[p] = k.state)
    BY <1>4, <2>1, PinAfter
  <2>4. QED
    BY <1>4, <2>2, <2>3 DEF PinIs
<1>5. CASE k.st = "open" /\ r.op = "write" /\ r.op # "read"
  <2>1. /\ IsOpen(fdtable[p]) /\ direction[p] = k.direction
        /\ k.direction = 1 => level[p] = k.state /\ r.state = k.state
    BY <1>5 DEF PinIs, Harmless
  <2>2. UNCHANGED <<fdtable, files, direction>>
    BY <1>5, PinAfter
  <2>3. k.direction = 1 => level'[p] = k.state
    BY <1>5, <2>1, PinAfter
  <2>4. QED
    BY <1>5, <2>1, <2>2, <2>3 DEF PinIs, IsOpen
<1>6. QED
  BY <1>1, <1>2, <1>3, <1>4, <1>5 DEF Harmless

\* An answer tells the truth, if what was known was true or does not matter.
LEMMA AnswerIsTrue ==
  ASSUME ServerType, TableIsTrue, Server = "onc-rpc", NEW p \in Valid,
         NEW k \in Knowledge, NEW r \in Request, r.pin = p, r.op \notin {"none", "read"},
         NEW result, Handler(r, result),
         \/ PinIs(p, k)
         \/ r.op = "write" => PinIs(p, Open(1, r.state))
  PROVE  PinIs(p, Told(r, result, k))' /\ Harmless(r, Told(r, result, k))
<1> DEFINE t == Told(r, result, k)
<1>1. r.op \in {"open", "close", "write"} /\ r.direction \in 0..1 /\ r.state \in 0..1
  BY DEF Request, Ops
<1>2. CASE r.op = "open" /\ result = 0
  <2>1. t = Open(r.direction, r.state)
    BY <1>2 DEF Told
  <2>2. PinIs(p, Open(r.direction, r.state))'
    BY <1>2, PinAfter
  <2>3. QED
    BY <1>1, <1>2, <2>1, <2>2 DEF Harmless, Open, PinIs
<1>3. CASE r.op = "open" /\ result # 0
  <2>1. t = Unknown
    BY <1>3, PinAfter DEF Told
  <2>2. QED
    BY <2>1 DEF Harmless, Unknown, PinIs
<1>4. CASE r.op = "close"
  <2>1. t = Closed /\ fdtable'[p] = 0
    BY <1>4, PinAfter DEF Told
  <2>2. QED
    BY <1>4, <2>1 DEF Harmless, Closed, PinIs
<1>5. CASE r.op = "write" /\ result = 0
  <2>1. t = Open(1, r.state)
    BY <1>5 DEF Told
  <2>2. IsOpen(fdtable[p]) /\ direction[p] = 1 /\ level'[p] = r.state
        /\ UNCHANGED <<fdtable, files, direction>>
    BY <1>5, PinAfter
  <2>3. QED
    BY <1>1, <1>5, <2>1, <2>2 DEF Harmless, Open, PinIs, IsOpen
<1>6. CASE r.op = "write" /\ result # 0
  <2>1. t = k
    BY <1>6 DEF Told
  <2>2. ~(IsOpen(fdtable[p]) /\ direction[p] = 1) /\ UNCHANGED <<fdtable, files, direction, level>>
    BY <1>6, PinAfter
  <2>3. PinIs(p, k)
    BY <1>1, <1>6, <2>2 DEF PinIs, Open
  <2>4. PinIs(p, k)'
    BY <2>2, <2>3 DEF PinIs, IsOpen
  <2>5. Harmless(r, k)
    BY <1>6, <2>2, <2>3 DEF Harmless, PinIs, Knowledge
  <2>6. QED
    BY <2>1, <2>4, <2>5
<1>7. QED
  BY <1>1, <1>2, <1>3, <1>4, <1>5, <1>6
-----------------------------------------------------------------------------
LEMMA InitKnows == Init => KnowInv
<1> SUFFICES ASSUME Init PROVE KnowInv
  OBVIOUS
<1>1. \A c \in Clients : /\ sent[c] = <<>> /\ Len(sent[c]) = 0
                         /\ pending[c] = NoCall /\ answers[c] = {}
  BY DEF Init
<1>2. QueueInv
  <2> SUFFICES ASSUME NEW c \in Clients PROVE QueueOf(c)
    BY DEF QueueInv
  <2>1. 1..Len(sent[c]) = {}
    BY <1>1
  <2>2. QED
    BY <1>1, <2>1 DEF QueueOf, Idle
<1>3. ASSUME NEW c \in Clients, NEW p \in Valid PROVE Knowing(c, p)
  <2>1. 1..Len(sent[c]) = {}
    BY <1>1
  <2>2. PinIs(p, known[c][p])
    BY PinAssumption DEF Init, Closed, PinIs
  <2>3. QED
    BY <1>1, <2>1, <2>2 DEF Knowing
<1>4. QED
  BY <1>2, <1>3 DEF KnowInv

\* What another client does, or a handler, leaves a client's queue as it is.
LEMMA OthersQueue ==
  ASSUME NEW o \in Clients, QueueOf(o),
         sent'[o] = sent[o], pending'[o] = pending[o], calls'[o] = calls[o],
         answers'[o] = answers[o]
  PROVE  QueueOf(o)'
BY DEF QueueOf, Idle

\* A client's queue after a call, for the first time or again.
LEMMA CallQueue ==
  ASSUME TypeOK, NEW c \in Clients, QueueOf(c), Call(c)
  PROVE  QueueOf(c)'
<1> USE DEF TypeOK
<1>1. PICK r \in Program[c] :
        LET t == [request |-> r, xid |-> calls[c] + 1]
        IN  pending' = [pending EXCEPT ![c] = t] /\ sent' = [sent EXCEPT ![c] = Append(@, t)]
  BY DEF Call
<1> DEFINE t == [request |-> r, xid |-> calls[c] + 1]
           q == sent[c]
<1>2. r \in Request /\ r.op # "none"
  BY ProgramAssumption
<1>3. t \in Transaction /\ q \in Seq(Transaction) /\ t # NoCall
  <2>1. calls[c] \in Nat /\ q \in Seq(Transaction)
    OBVIOUS
  <2>2. t \in Transaction
    BY <1>2, <2>1 DEF Transaction
  <2>3. t.request # NoCall.request
    BY <1>2 DEF NoCall
  <2>4. QED
    BY <2>1, <2>2, <2>3
<1>4. /\ sent'[c] = Append(q, t) /\ pending'[c] = t /\ calls'[c] = calls[c] + 1
      /\ answers'[c] = {}
  BY <1>1 DEF Call, QueueOf
<1> HIDE DEF t, q
<1>5. /\ Len(sent'[c]) = Len(q) + 1 /\ Len(q) \in Nat
      /\ \A i \in 1..Len(sent'[c]) : sent'[c][i] = IF i \in 1..Len(q) THEN q[i] ELSE t
  BY <1>3, <1>4, Appended
<1>6. \A i \in 1..Len(q) : q[i].request \in Program[c] /\ q[i].xid <= calls[c]
                           /\ q[i].xid \in Nat
  <2>1. \A i \in 1..Len(q) : q[i].request \in Program[c] /\ q[i].xid <= calls[c]
    BY DEF QueueOf, q
  <2>2. \A i \in 1..Len(q) : q[i] \in Transaction
    BY <1>3
  <2>3. QED
    BY <2>1, <2>2 DEF Transaction
<1>7. t.request \in Program[c] /\ t.xid = calls[c] + 1
  BY DEF t
<1>8. calls[c] \in Nat /\ \A i \in 1..Len(q) : q[i] # t
  <2>1. calls[c] \in Nat
    OBVIOUS
  <2>2. ASSUME NEW i \in 1..Len(q) PROVE q[i] # t
    BY <1>6, <1>7, <2>1
  <2>3. QED
    BY <2>1, <2>2
<1>9. \A i \in 1..Len(sent'[c]) :
        /\ sent'[c][i].request \in Program[c] /\ sent'[c][i].xid <= calls'[c]
  BY <1>4, <1>5, <1>6, <1>7, <1>8
<1>10. \A i, j \in 1..Len(sent'[c]) :
         i < j /\ sent'[c][i] = pending'[c] => sent'[c][j] = pending'[c]
  BY <1>4, <1>5, <1>8
<1>11. QED
  BY <1>3, <1>4, <1>7, <1>9, <1>10 DEF QueueOf, Idle

LEMMA RetransmitQueue ==
  ASSUME TypeOK, NEW c \in Clients, QueueOf(c), Retransmit(c)
  PROVE  QueueOf(c)'
<1> USE DEF TypeOK
<1> DEFINE q == sent[c]
           t == pending[c]
<1>1. t \in Transaction /\ q \in Seq(Transaction) /\ t.request \in Program[c]
  BY DEF QueueOf, Retransmit
<1>2. /\ sent'[c] = Append(q, t) /\ pending'[c] = t /\ calls'[c] = calls[c]
      /\ answers'[c] = answers[c]
  BY DEF Retransmit
<1> HIDE DEF t, q
<1>3. /\ Len(sent'[c]) = Len(q) + 1 /\ Len(q) \in Nat
      /\ \A i \in 1..Len(sent'[c]) : sent'[c][i] = IF i \in 1..Len(q) THEN q[i] ELSE t
  BY <1>1, <1>2, Appended
<1>4. /\ ~Idle(c) /\ t.xid <= calls[c]
      /\ \A i \in 1..Len(q) : q[i].request \in Program[c] /\ q[i].xid <= calls[c]
      /\ \A i, j \in 1..Len(q) : i < j /\ q[i] = t => q[j] = t
      /\ answers[c] # {} => \A i \in 1..Len(q) : q[i] = t
  BY DEF QueueOf, Retransmit, q, t
<1>5. /\ \A i \in 1..Len(sent'[c]) :
           sent'[c][i].request \in Program[c] /\ sent'[c][i].xid <= calls[c]
      /\ \A i, j \in 1..Len(sent'[c]) : i < j /\ sent'[c][i] = t => sent'[c][j] = t
      /\ answers[c] # {} => \A i \in 1..Len(sent'[c]) : sent'[c][i] = t
  <2>1. \A i \in 1..Len(sent'[c]) :
          sent'[c][i].request \in Program[c] /\ sent'[c][i].xid <= calls[c]
    BY <1>1, <1>3, <1>4
  <2>2. ASSUME NEW i \in 1..Len(sent'[c]), NEW j \in 1..Len(sent'[c]),
               i < j, sent'[c][i] = t
        PROVE  sent'[c][j] = t
    <3>1. i \in 1..Len(q)
      BY <1>3, <2>2
    <3>2. CASE j \in 1..Len(q)
      <4>1. sent'[c][i] = q[i] /\ sent'[c][j] = q[j]
        BY <1>3, <3>1, <3>2
      <4>2. q[i] = t /\ i < j
        BY <2>2, <4>1
      <4>3. q[j] = t
        BY <1>4, <3>1, <3>2, <4>2
      <4>4. QED
        BY <4>1, <4>3
    <3>3. CASE j \notin 1..Len(q)
      BY <1>3, <3>3
    <3>4. QED
      BY <3>2, <3>3
  <2>3. answers[c] # {} => \A i \in 1..Len(sent'[c]) : sent'[c][i] = t
    BY <1>3, <1>4
  <2>4. QED
    BY <2>1, <2>2, <2>3
<1>6. ~Idle(c)'
  BY <1>2, <1>4 DEF Idle, t
<1>7. QED
  BY <1>1, <1>2, <1>4, <1>5, <1>6 DEF QueueOf

\* ... and after the first of it was served or lost.
LEMMA TakeQueue ==
  ASSUME TypeOK, OnlyCalls, NEW c \in Clients, QueueOf(c), sent[c] # <<>>,
         sent' = [sent EXCEPT ![c] = Tail(@)], UNCHANGED <<pending, calls>>,
         \/ answers'[c] = answers[c]
         \/ Head(sent[c]) = pending[c]
  PROVE  QueueOf(c)'
<1> DEFINE q == sent[c]
<1>1. q \in Seq(Transaction) /\ sent'[c] = Tail(q)
  BY DEF TypeOK
<1> HIDE DEF q
<1>2. /\ Len(sent'[c]) = Len(q) - 1 /\ Len(q) \in Nat \ {0} /\ Head(q) = q[1]
      /\ \A i \in 1..Len(sent'[c]) : sent'[c][i] = q[i + 1] /\ i + 1 \in 1..Len(q)
  BY <1>1, Taken DEF q
<1>3. Idle(c) => Head(q) # pending[c]
  BY <1>2 DEF OnlyCalls, Asked, Idle, NoCall, q
<1>4. /\ \A i \in 1..Len(sent'[c]) :
           sent'[c][i].request \in Program[c] /\ sent'[c][i].xid <= calls[c]
      /\ \A i, j \in 1..Len(sent'[c]) :
           i < j /\ sent'[c][i] = pending[c] => sent'[c][j] = pending[c]
  <2>1. \A i \in 1..Len(q) : q[i].request \in Program[c] /\ q[i].xid <= calls[c]
    BY DEF QueueOf, q
  <2>2. \A i, j \in 1..Len(q) : i < j /\ q[i] = pending[c] => q[j] = pending[c]
    BY DEF QueueOf, q
  <2>3. ASSUME NEW i \in 1..Len(sent'[c]), NEW j \in 1..Len(sent'[c]),
               i < j, sent'[c][i] = pending[c]
        PROVE  sent'[c][j] = pending[c]
    <3>1. i + 1 < j + 1
      BY <2>3
    <3>2. QED
      BY <1>2, <2>2, <2>3, <3>1
  <2>4. QED
    BY <1>2, <2>1, <2>3
<1>5. Idle(c) => answers'[c] = {}
  BY <1>3 DEF QueueOf, q
<1>6. answers'[c] # {} => \A i \in 1..Len(sent'[c]) : sent'[c][i] = pending[c]
  <2>1. CASE answers'[c] = answers[c]
    BY <1>2, <2>1 DEF QueueOf, q
  <2>2. CASE Head(q) = pending[c]
    BY <1>2, <2>2 DEF QueueOf, q
  <2>3. QED
    BY <2>1, <2>2 DEF q
<1>7. QED
  BY <1>4, <1>5, <1>6 DEF QueueOf, Idle

\* ... and when the client no longer waits.
LEMMA EndQueue ==
  ASSUME TypeOK, OnlyCalls, NEW c \in Clients, QueueOf(c),
         pending' = [pending EXCEPT ![c] = NoCall],
         answers' = [answers EXCEPT ![c] = {}], UNCHANGED <<calls, sent>>
  PROVE  QueueOf(c)'
<1>1. pending'[c] = NoCall /\ answers'[c] = {}
  BY DEF TypeOK
<1>2. \A i \in 1..Len(sent[c]) : sent[c][i] # NoCall
  BY DEF OnlyCalls, Asked, NoCall
<1>3. QED
  BY <1>1, <1>2 DEF QueueOf, Idle
LEMMA StepQueue == TypeInv /\ QueueInv /\ [Next]_vars => QueueInv'
<1> SUFFICES ASSUME TypeOK, OnlyCalls, QueueInv, [Next]_vars PROVE QueueInv'
  BY DEF TypeInv
<1>1. CASE UNCHANGED <<sent, pending, calls, answers>>
  BY <1>1 DEF QueueInv, QueueOf, Idle
<1>2. ASSUME NEW c \in Clients,
             Call(c) \/ Retransmit(c) \/ Serve(c) \/ LoseCall(c) \/ Return(c) \/ GiveUp(c)
      PROVE  QueueInv'
  <2>1. QueueOf(c)'
    <3>1. QueueOf(c)
      BY DEF QueueInv
    <3>2. CASE Call(c)
      BY <3>1, <3>2, CallQueue
    <3>3. CASE Retransmit(c)
      BY <3>1, <3>3, RetransmitQueue
    <3>4. CASE Serve(c)
      <4>1. answers' = answers \/ Head(sent[c]) = pending[c]
        BY <3>4 DEF Serve
      <4>2. QED
        BY <3>1, <3>4, <4>1, TakeQueue DEF Serve, client
    <3>5. CASE LoseCall(c)
      BY <3>1, <3>5, TakeQueue DEF LoseCall, client
    <3>6. CASE Return(c) \/ GiveUp(c)
      BY <3>1, <3>6, EndQueue DEF Return, GiveUp
    <3>7. QED
      BY <1>2, <3>2, <3>3, <3>4, <3>5, <3>6
  <2>2. ASSUME NEW o \in Clients, o # c PROVE QueueOf(o)'
    <3>1. sent'[o] = sent[o] /\ pending'[o] = pending[o] /\ calls'[o] = calls[o]
          /\ answers'[o] = answers[o]
      BY <1>2, <2>2 DEF TypeOK, Call, Retransmit, Serve, LoseCall, Return, GiveUp, client
    <3>2. QED
      BY <3>1, OthersQueue DEF QueueInv
  <2>3. QED
    BY <2>1, <2>2 DEF QueueInv
<1>3. QED
  BY <1>1, <1>2 DEF Next, Done, vars, server, client
-----------------------------------------------------------------------------
\* What c knows of p when others act: only a handler could disturb it.
LEMMA OthersKnowing ==
  ASSUME NEW c \in Clients, NEW p \in Valid, Knowing(c, p),
         sent'[c] = sent[c], pending'[c] = pending[c], answers'[c] = answers[c],
         known'[c][p] = known[c][p],
         \A k : PinIs(p, k) => PinIs(p, k)'
  PROVE  Knowing(c, p)'
<1> DEFINE k == known[c][p]
           r == pending[c].request
<1>1. Changing(c, p)' <=> Changing(c, p)
  BY DEF Changing
<1>2. CASE Changing(c, p) /\ answers[c] # {}
  <2>1. \A a \in answers[c] : PinIs(p, Told(r, a, k)) /\ Harmless(r, Told(r, a, k))
    BY <1>2 DEF Knowing
  <2>2. \A a \in answers[c] : PinIs(p, Told(r, a, k))'
    BY <2>1
  <2>3. QED
    BY <1>1, <1>2, <2>1, <2>2 DEF Knowing, PinIs, IsOpen
<1>3. CASE ~(Changing(c, p) /\ answers[c] # {})
  BY <1>1, <1>3 DEF Knowing, PinIs, IsOpen
<1>4. QED
  BY <1>2, <1>3
\* What c knows of p when it does something itself, without the server.
LEMMA CallKnowing ==
  ASSUME TypeOK, OnlyCalls, QueueInv, NEW c \in Clients, NEW p \in Valid,
         Knowing(c, p), Call(c)
  PROVE  Knowing(c, p)'
<1>1. PICK r \in Program[c] :
        LET t == [request |-> r, xid |-> calls[c] + 1]
        IN  pending' = [pending EXCEPT ![c] = t] /\ sent' = [sent EXCEPT ![c] = Append(@, t)]
  BY DEF Call
<1> DEFINE t == [request |-> r, xid |-> calls[c] + 1]
           q == sent[c]
<1>2. r \in Request /\ calls[c] \in Nat
  BY ProgramAssumption DEF TypeOK
<1>3. t \in Transaction /\ q \in Seq(Transaction)
  <2>1. t \in Transaction
    BY <1>2 DEF Transaction
  <2>2. q \in Seq(Transaction)
    BY DEF TypeOK
  <2>3. QED
    BY <2>1, <2>2
<1>4. /\ sent'[c] = Append(q, t) /\ pending'[c] = t /\ answers'[c] = {} /\ Idle(c)
  BY <1>1 DEF Call, QueueInv, QueueOf, TypeOK
<1>5. known' = known /\ UNCHANGED server /\ \A k : PinIs(p, k) => PinIs(p, k)'
  BY DEF Call, PinIs, IsOpen, server
<1> HIDE DEF t, q
<1>6. /\ Len(sent'[c]) = Len(q) + 1 /\ Len(q) \in Nat
      /\ \A i \in 1..Len(sent'[c]) : sent'[c][i] = IF i \in 1..Len(q) THEN q[i] ELSE t
  BY <1>3, <1>4, Appended
<1>7. ~Changing(c, p)
  BY <1>4, PinAssumption DEF Changing, Idle, NoCall
<1>8. PinIs(p, known[c][p]) /\ \A i \in 1..Len(q) :
        q[i].request.pin = p => Harmless(q[i].request, known[c][p])
  BY <1>7 DEF Knowing, q
<1>9. t.request.pin = p => Changing(c, p)' \/ Harmless(t.request, known[c][p])
  BY <1>4 DEF Changing, Harmless
<1>10. \A i \in 1..Len(sent'[c]) : sent'[c][i].request.pin = p =>
         \/ Changing(c, p)' /\ sent'[c][i] = pending'[c]
         \/ Harmless(sent'[c][i].request, known[c][p])
  BY <1>4, <1>6, <1>8, <1>9
<1>11. QED
  BY <1>4, <1>5, <1>8, <1>10 DEF Knowing, Harmless

LEMMA RetransmitKnowing ==
  ASSUME TypeOK, NEW c \in Clients, NEW p \in Valid, Knowing(c, p), Retransmit(c)
  PROVE  Knowing(c, p)'
<1> DEFINE t == pending[c]
           q == sent[c]
<1>1. t \in Transaction /\ q \in Seq(Transaction) /\ sent'[c] = Append(q, t)
  BY DEF Retransmit, TypeOK
<1>2. UNCHANGED <<known, pending, answers>> /\ \A k : PinIs(p, k) => PinIs(p, k)'
  BY DEF Retransmit, PinIs, IsOpen, server
<1>3. (Changing(c, p)' <=> Changing(c, p)) /\ (~Changing(c, p) /\ t.request.pin = p => t.request.op = "read")
  BY <1>2 DEF Changing
<1>4. CASE Changing(c, p) /\ answers[c] # {}
  BY <1>2, <1>3, <1>4 DEF Knowing, PinIs, IsOpen, Harmless, Told
<1>5. CASE ~(Changing(c, p) /\ answers[c] # {})
  <2>1. PinIs(p, known[c][p]) /\ \A i \in 1..Len(q) : q[i].request.pin = p =>
          (Changing(c, p) /\ q[i] = t) \/ Harmless(q[i].request, known[c][p])
    BY <1>5 DEF Knowing
  <2> HIDE DEF t, q
  <2>2. /\ Len(sent'[c]) = Len(q) + 1 /\ Len(q) \in Nat
        /\ \A i \in 1..Len(sent'[c]) : sent'[c][i] = IF i \in 1..Len(q) THEN q[i] ELSE t
    BY <1>1, Appended
  <2>3. \A i \in 1..Len(sent'[c]) : sent'[c][i].request.pin = p =>
          (Changing(c, p) /\ sent'[c][i] = t) \/ Harmless(sent'[c][i].request, known[c][p])
    BY <1>3, <2>1, <2>2 DEF Harmless
  <2>4. QED
    BY <1>2, <1>3, <1>5, <2>1, <2>3 DEF Knowing, Harmless, t
<1>6. QED
  BY <1>4, <1>5

LEMMA LoseKnowing ==
  ASSUME TypeOK, NEW c \in Clients, NEW p \in Valid, Knowing(c, p), sent[c] # <<>>,
         sent' = [sent EXCEPT ![c] = Tail(@)], UNCHANGED <<known, pending, answers>>,
         \/ Changing(c, p) /\ answers[c] # {}
         \/ PinIs(p, known[c][p])',
         \A k : PinIs(p, k) => PinIs(p, k)'
  PROVE  Knowing(c, p)'
<1> DEFINE q == sent[c]
<1>1. q \in Seq(Transaction) /\ sent'[c] = Tail(q)
  BY DEF TypeOK
<1> HIDE DEF q
<1>2. /\ Len(sent'[c]) = Len(q) - 1 /\ Len(q) \in Nat \ {0}
      /\ \A i \in 1..Len(sent'[c]) : sent'[c][i] = q[i + 1] /\ i + 1 \in 1..Len(q)
  BY <1>1, Taken DEF q
<1>3. Changing(c, p)' <=> Changing(c, p)
  BY DEF Changing
<1>4. CASE Changing(c, p) /\ answers[c] # {}
  BY <1>3, <1>4 DEF Knowing, PinIs, IsOpen, Harmless, Told
<1>5. CASE ~(Changing(c, p) /\ answers[c] # {})
  BY <1>2, <1>3, <1>5 DEF Knowing, Harmless, q
<1>6. QED
  BY <1>4, <1>5

LEMMA ReturnKnowing ==
  ASSUME TypeOK, OnlyCalls, QueueInv, NEW c \in Clients, NEW p \in Valid,
         Knowing(c, p), Return(c) \/ GiveUp(c)
  PROVE  Knowing(c, p)'
<1> DEFINE r == pending[c].request
           k == known[c][p]
<1>1. /\ pending'[c] = NoCall /\ answers'[c] = {} /\ sent' = sent
      /\ \A m : PinIs(p, m) => PinIs(p, m)'
  BY DEF Return, GiveUp, TypeOK, PinIs, IsOpen, server
<1>2. ~Changing(c, p)' /\ p \in Pins
  BY <1>1, PinAssumption DEF Changing, NoCall
<1>3. r.pin \in Pins /\ r.op # "none"
  BY DEF Return, GiveUp, OnlyCalls, Asked
<1>4. CASE Changing(c, p) /\ answers[c] # {} /\ Return(c)
  <2>1. PICK a \in answers[c] : known'[c][p] = Told(r, a, k)
    BY <1>2, <1>3, <1>4 DEF Return, Changing, TypeOK
  <2>2. PinIs(p, known'[c][p]) /\ Harmless(r, known'[c][p])
    BY <1>4, <2>1 DEF Knowing
  <2>3. \A i \in 1..Len(sent[c]) : sent[c][i] = pending[c]
    BY <1>4 DEF QueueInv, QueueOf
  <2>4. PinIs(p, known[c][p])'
    BY <1>1, <2>2 DEF PinIs, IsOpen
  <2>5. QED
    BY <1>1, <1>2, <2>2, <2>3, <2>4 DEF Knowing
<1>5. CASE Changing(c, p) /\ GiveUp(c)
  <2>1. known'[c][p] = Unknown
    BY <1>2, <1>5 DEF GiveUp, Changing, TypeOK
  <2>2. QED
    BY <1>2, <2>1 DEF Knowing, PinIs, Harmless, Unknown
<1>6. CASE ~Changing(c, p)
  <2>1. known'[c][p] = k
    <3>1. CASE r.pin # p
      BY <1>2, <1>3, <3>1 DEF Return, GiveUp, TypeOK
    <3>2. CASE r.op = "read"
      BY <1>2, <1>3, <3>2 DEF Return, GiveUp, TypeOK, Told
    <3>3. QED
      BY <1>6, <3>1, <3>2 DEF Changing
  <2>2. PinIs(p, k) /\ \A i \in 1..Len(sent[c]) :
          sent[c][i].request.pin = p => Harmless(sent[c][i].request, k)
    BY <1>6 DEF Knowing
  <2>3. PinIs(p, known[c][p])'
    BY <1>1, <2>1, <2>2 DEF PinIs, IsOpen
  <2>4. QED
    BY <1>1, <1>2, <2>1, <2>2, <2>3 DEF Knowing
<1>7. CASE Changing(c, p) /\ answers[c] = {} /\ Return(c)
  BY <1>7 DEF Return
<1>8. QED
  BY <1>4, <1>5, <1>6, <1>7

\* What c knows of p when a call of its own is served.
LEMMA ServeKnowing ==
  ASSUME TypeOK, OnlyCalls, TableIsTrue, QueueInv, Server = "onc-rpc",
         NEW c \in Clients, NEW p \in Valid, Knowing(c, p), Serve(c)
  PROVE  Knowing(c, p)'
<1> DEFINE h == Head(sent[c])
<1> PICK k : k = known[c][p]
  OBVIOUS
<1> PICK w : w = pending[c].request
  OBVIOUS
<1>1. h \in Transaction /\ Asked(h) /\ h = sent[c][1] /\ 1 \in 1..Len(sent[c])
  <2>1. h \in Transaction /\ Asked(h)
    BY TakeKeepsCalls DEF Serve, client
  <2>2. sent[c] \in Seq(Transaction) /\ sent[c] # <<>>
    BY DEF TypeOK, Serve
  <2>3. QED
    BY <2>1, <2>2
<1>2. h.request \in Request /\ h.request.pin \in Pins /\ h.request.op # "none"
  BY <1>1 DEF Transaction, Asked
<1>3. PICK result \in {-EINVAL, -EACCES, -EBADF, -EIO, -EPERM, 0, 1} :
        /\ Handler(h.request, result)
        /\ answers' = IF h = pending[c] THEN [answers EXCEPT ![c] = @ \cup {result}]
                      ELSE answers
  BY DEF Serve
<1>4. ServerType /\ k \in Knowledge
  BY TypeParts, PinAssumption DEF TypeOK, Knowledge
<1>5. /\ pending' = pending /\ known' = known /\ (Changing(c, p)' <=> Changing(c, p))
      /\ known'[c][p] = k /\ pending'[c].request = w
  BY DEF Serve, client, Changing
<1>6. ASSUME Changing(c, p), h = pending[c],
             \A a \in answers[c] : PinIs(p, Told(w, a, k))' /\ Harmless(w, Told(w, a, k)),
             PinIs(p, Told(w, result, k))' /\ Harmless(w, Told(w, result, k))
      PROVE  Knowing(c, p)'
  <2>1. answers'[c] = answers[c] \cup {result}
    BY <1>3, <1>6 DEF TypeOK
  <2>2. \A a \in answers'[c] : PinIs(p, Told(w, a, k))' /\ Harmless(w, Told(w, a, k))
    BY <1>6, <2>1
  <2>3. QED
    BY <1>5, <1>6, <2>1, <2>2 DEF Knowing, PinIs, IsOpen
<1>7. CASE Changing(c, p) /\ answers[c] # {}
  <2>1. h = pending[c]
    BY <1>1, <1>7 DEF QueueInv, QueueOf
  <2>2. w.pin = p /\ w.op \notin {"none", "read"} /\ w \in Request /\ Handler(w, result)
    BY <1>2, <1>3, <1>7, <2>1 DEF Changing
  <2>3. \A a \in answers[c] : PinIs(p, Told(w, a, k)) /\ Harmless(w, Told(w, a, k))
    BY <1>7 DEF Knowing
  <2>4. ASSUME NEW a \in answers[c] PROVE PinIs(p, Told(w, a, k))'
    <3>1. Told(w, a, k) \in Knowledge
      BY <1>4, <2>2, ToldType DEF Knowledge
    <3>2. QED
      BY <1>4, <2>2, <2>3, <3>1, HarmlessKept
  <2>5. PinIs(p, k) \/ (w.op = "write" => PinIs(p, Open(1, w.state)))
    <3>1. PICK a \in answers[c] : TRUE
      BY <1>7
    <3>2. CASE w.op = "write"
      <4>1. Told(w, a, k) = IF a = 0 THEN Open(1, w.state) ELSE k
        BY <3>2 DEF Told
      <4>2. QED
        BY <2>3, <4>1
    <3>3. QED
      BY <3>2
  <2>6. PinIs(p, Told(w, result, k))' /\ Harmless(w, Told(w, result, k))
    BY <1>4, <2>2, <2>5, AnswerIsTrue
  <2>7. QED
    BY <1>6, <1>7, <2>1, <2>3, <2>4, <2>6
<1>8. CASE Changing(c, p) /\ answers[c] = {} /\ h = pending[c]
  <2>1. w.pin = p /\ w.op \notin {"none", "read"} /\ w \in Request /\ Handler(w, result)
    BY <1>2, <1>3, <1>8 DEF Changing
  <2>2. PinIs(p, k)
    BY <1>8 DEF Knowing
  <2>3. PinIs(p, Told(w, result, k))' /\ Harmless(w, Told(w, result, k))
    BY <1>4, <2>1, <2>2, AnswerIsTrue
  <2>4. QED
    BY <1>6, <1>8, <2>3
<1>9. CASE ~(Changing(c, p) /\ (answers[c] # {} \/ h = pending[c]))
  <2>1. PinIs(p, k) /\ \A i \in 1..Len(sent[c]) : sent[c][i].request.pin = p =>
          (Changing(c, p) /\ sent[c][i] = pending[c]) \/ Harmless(sent[c][i].request, k)
    BY <1>9 DEF Knowing
  <2>2. h.request.pin = p => Harmless(h.request, k)
    BY <1>1, <1>9, <2>1
  <2>3. PinIs(p, k)'
    <3>1. CASE h.request.pin = p
      BY <1>2, <1>3, <1>4, <2>1, <2>2, <3>1, HarmlessKept
    <3>2. CASE h.request.pin # p
      BY <1>2, <1>3, <1>4, <2>1, <3>2, OtherPinKept
    <3>3. QED
      BY <3>1, <3>2
  <2>4. ~(Changing(c, p)' /\ answers'[c] # {})
    BY <1>3, <1>5, <1>9
  <2>5. /\ Len(sent'[c]) = Len(sent[c]) - 1 /\ Len(sent[c]) \in Nat \ {0}
        /\ \A i \in 1..Len(sent'[c]) :
             sent'[c][i] = sent[c][i + 1] /\ i + 1 \in 1..Len(sent[c])
    <3>1. sent[c] \in Seq(Transaction) /\ sent[c] # <<>> /\ sent'[c] = Tail(sent[c])
      BY DEF Serve, TypeOK
    <3>2. QED
      BY <3>1, Taken
  <2>6. QED
    BY <1>5, <2>1, <2>3, <2>4, <2>5 DEF Knowing, Harmless, PinIs, IsOpen
<1>10. QED
  BY <1>7, <1>8, <1>9

LEMMA StepKnows ==
  ASSUME Server = "onc-rpc"
  PROVE  TypeInv /\ TableIsTrue /\ KnowInv /\ [Next]_vars => KnowInv'
<1> SUFFICES ASSUME TypeOK, OnlyCalls, TableIsTrue, KnowInv, [Next]_vars,
                    NEW c \in Clients, NEW p \in Valid, Sole(c, p)
             PROVE  Knowing(c, p)'
  BY StepQueue DEF TypeInv, KnowInv, Sole
<1>1. QueueInv /\ Knowing(c, p) /\ p \in Pins
  BY PinAssumption DEF KnowInv
<1>2. ASSUME UNCHANGED <<fdtable, files, direction, level>>, NEW k, PinIs(p, k)
      PROVE  PinIs(p, k)'
  BY <1>2 DEF PinIs, IsOpen
<1>3. CASE UNCHANGED <<server, client, sent, answers>>
  BY <1>1, <1>2, <1>3, OthersKnowing DEF server, client
<1>4. CASE Call(c) \/ Retransmit(c) \/ Return(c) \/ GiveUp(c)
  BY <1>1, <1>4, CallKnowing, RetransmitKnowing, ReturnKnowing
<1>5. CASE LoseCall(c)
  <2>1. \A k : PinIs(p, k) => PinIs(p, k)'
    BY <1>2, <1>5 DEF LoseCall, server
  <2>2. (Changing(c, p) /\ answers[c] # {}) \/ PinIs(p, known[c][p])'
    BY <1>1, <1>5, <2>1 DEF Knowing, LoseCall, client, PinIs, IsOpen
  <2>3. QED
    BY <1>1, <1>5, <2>1, <2>2, LoseKnowing DEF LoseCall, client
<1>6. CASE Serve(c)
  BY <1>1, <1>6, ServeKnowing
<1>7. ASSUME NEW o \in Clients, o # c,
             Call(o) \/ Retransmit(o) \/ LoseCall(o) \/ Return(o) \/ GiveUp(o)
      PROVE  Knowing(c, p)'
  <2>1. UNCHANGED server /\ sent'[c] = sent[c] /\ pending'[c] = pending[c]
        /\ answers'[c] = answers[c]
    BY <1>7 DEF Call, Retransmit, LoseCall, Return, GiveUp, client, TypeOK
  <2>2. known'[c][p] = known[c][p]
    BY <1>7 DEF Call, Retransmit, LoseCall, Return, GiveUp, client, TypeOK
  <2>3. QED
    BY <1>1, <1>2, <2>1, <2>2, OthersKnowing DEF server
<1>8. ASSUME NEW o \in Clients, o # c, Serve(o)
      PROVE  Knowing(c, p)'
  <2> DEFINE h == Head(sent[o])
  <2>1. h \in Transaction /\ Asked(h)
    BY <1>8, TakeKeepsCalls DEF Serve, client
  <2>2. h.request \in Program[o]
    <3>1. sent[o] \in Seq(Transaction) /\ sent[o] # <<>>
      BY <1>8 DEF TypeOK, Serve
    <3>2. h = sent[o][1] /\ 1 \in 1..Len(sent[o])
      BY <3>1
    <3>3. QED
      BY <1>1, <3>2 DEF QueueInv, QueueOf
  <2>3. h.request \in Request /\ h.request.pin \in Pins
        /\ (h.request.pin = p => h.request.op = "read")
    BY <1>8, <2>1, <2>2 DEF Sole, Transaction, Asked
  <2>4. PICK result : Handler(h.request, result)
    BY <1>8 DEF Serve
  <2>5. \A k : PinIs(p, k) => PinIs(p, k)'
    BY <2>3, <2>4, TypeParts, OtherPinKept
  <2>6. sent'[c] = sent[c] /\ pending'[c] = pending[c] /\ answers'[c] = answers[c]
        /\ known'[c][p] = known[c][p]
    BY <1>8 DEF Serve, client, TypeOK
  <2>7. QED
    BY <1>1, <2>5, <2>6, OthersKnowing
<1>9. QED
  BY <1>3, <1>4, <1>5, <1>6, <1>7, <1>8 DEF Next, Done, vars

\* What the only user of a pin has been told of it stays true until its next
\* call that changes the pin, with any number of clients, copies of earlier calls that are
\* served late, lost calls and answers, and failures of the library
\* (gpio_server_oncrpc.c:79-160).
THEOREM ClientAlwaysKnows ==
  ASSUME Server = "onc-rpc"
  PROVE  Spec => []ClientKnows
<1>1. TypeInv /\ TableIsTrue /\ KnowInv => ClientKnows
  <2> SUFFICES ASSUME KnowInv, NEW c \in Clients, NEW p \in Valid, Sole(c, p),
                      pending[c].request.pin = p => pending[c].request.op = "read"
               PROVE  PinIs(p, known[c][p])
    BY DEF ClientKnows, PinIs
  <2>1. Knowing(c, p) /\ ~Changing(c, p)
    BY DEF KnowInv, Changing
  <2>2. QED
    BY <2>1 DEF Knowing
<1>2. Init => TableIsTrue
  BY DEF Init, TableIsTrue
<1>3. TypeInv /\ TableIsTrue /\ KnowInv /\ [Next]_vars
        => TypeInv' /\ TableIsTrue' /\ KnowInv'
  BY StepTypes, StepTable, StepKnows
<1>4. QED
  BY InitTypes, InitKnows, <1>1, <1>2, <1>3, PTL DEF Spec
=============================================================================
