----------------------------- MODULE MdnsServer -----------------------------
(***************************************************************************)
(* The responder of libmdns (mdnsd.c): the program's own thread, which     *)
(* adds records and services and stops the server, and the server thread,  *)
(* which answers queries, announces services and says goodbye.  They share *)
(* the lists under data_lock, a pipe that wakes the server thread, and     *)
(* stop_flag, which nothing guards.                                        *)
(*                                                                         *)
(* Every section under data_lock is one step; between two of them, and     *)
(* within one packet, the other thread may run.                            *)
(***************************************************************************)
EXTENDS MdnsWire

CONSTANTS
  Programs,    \* what a program may call, in order: a set of sequences
  Services,    \* the ids of the services those programs register
  Queries,     \* the packets the network may send
  MaxPackets,  \* bound on the packets received
  MaxErrors,   \* bound on failures of recvfrom()
  None

\* The programs of the tree add addresses with mdnsd_add_rr (testmdnsd.c); only
\* mdnsd_register_svc makes pointers to services.  A program calls nothing after
\* mdnsd_stop, which frees the server.
ASSUME ProgramsAssumption ==
  \A p \in Programs :
    /\ p \in Seq(ToSet(p))
    /\ \A i \in DOMAIN p :
         /\ p[i].op = "rr" => p[i].rr.type # "PTR"
         /\ p[i].op = "register" => /\ p[i].service.id \in Services
                                    /\ p[i].service.type # ServicesName
         /\ p[i].op = "stop" => i = Len(p)

\* Names are lists of labels (create_nlabel), and records are what the rr_create
\* functions make; a service names a host of its own or runs on the one that
\* was set before (the assert of mdnsd_register_svc).
ASSUME RecordsAssumption ==
  \A p \in Programs : \A i \in DOMAIN p :
    /\ p[i].op = "host" => IsList(p[i].host)
    /\ p[i].op = "rr" => WellFormed(p[i].rr)
    /\ p[i].op = "register" =>
         /\ IsList(p[i].service.type)
         /\ IF p[i].service.host = None
            THEN \E j \in DOMAIN p : j < i /\ p[j].op = "host"
            ELSE IsList(p[i].service.host)

VARIABLES
  program, next, step,      \* the program's thread: its calls, the next one,
                            \* and how far that one got
  group, announce, services, hostname, zeroed,  \* under data_lock
  pipe, stopFlag, freed,
  inbox,                    \* packets in the socket's queue
  pc, pkt, buffer,          \* the server thread, the packet it works on and
                            \* what pkt_buffer holds
  question, topic,          \* the question or announcement worked on
  reply, work,              \* the reply, and the record whose related
                            \* records are being looked up
  sent,                     \* the packet sent in the last step, or None
  heard,                    \* the services the network believes in
  packets, errors

programVars == <<program, next, step>>
shared == <<group, announce, services, hostname, zeroed>>
signals == <<pipe, stopFlag, freed>>
thread == <<pc, pkt, buffer, question, topic, reply, work>>
network == <<inbox, packets, errors>>
vars == <<programVars, shared, signals, thread, network, sent, heard>>

Ttl(r) == IF r \in zeroed THEN 0 ELSE DefaultTtl

NoReply == [ans |-> <<>>, add |-> <<>>, numAns |-> 0, numAdd |-> 0]
NoWork == [list |-> "ans", at |-> 0, lookup |-> 1]

Init ==
  /\ program \in Programs /\ next = 1 /\ step = "call"
  /\ group = <<>> /\ announce = <<>> /\ services = <<>>
  /\ hostname = None /\ zeroed = {}
  /\ pipe = 0 /\ stopFlag = 0 /\ freed = FALSE
  /\ inbox = <<>> /\ packets = 0 /\ errors = 0
  /\ pc = "check" /\ pkt = None /\ buffer = None
  /\ question = 0 /\ topic = <<>> /\ reply = NoReply /\ work = NoWork
  /\ sent = None /\ heard = {}

----------------------------------------------------------------------------
(* The program's thread. *)

Calling(op) ==
  /\ next <= Len(program)
  /\ program[next].op = op
  /\ step = "call"

Returned == next' = next + 1 /\ step' = "call"

\* One byte goes through the pipe for every wake-up.
WritePipe == pipe' = pipe + 1
ReadPipe == pipe > 0 /\ pipe' = pipe - 1

\* The library is built with NDEBUG: a second host name is added, too.
SetHostname ==
  /\ Calling("host")
  /\ LET h == program[next].host IN
       /\ hostname' = h
       /\ group' = GroupAdd(group, <<AddressRecord(h, program[next].addr),
                                    NsecRecord(h)>>)
  /\ Returned
  /\ UNCHANGED <<program, announce, services, zeroed, signals, thread,
                 network, sent, heard>>

AddRR ==
  /\ Calling("rr")
  /\ group' = GroupAdd(group, <<program[next].rr>>)
  /\ Returned
  /\ UNCHANGED <<program, announce, services, hostname, zeroed, signals,
                 thread, network, sent, heard>>

\* Mutant: the goodbye will not know of the service.
RegisterSvcWithoutGoodbye ==
  /\ Calling("register")
  /\ LET s == program[next].service
         txt == IF s.txt = None THEN <<>> ELSE <<TxtRecord(s)>>
         target == IF s.host = None THEN hostname ELSE s.host
     IN /\ group' = GroupAdd(group, txt \o <<SrvRecord(s, target), PtrRecord(s),
                                               BrowseRecord(s)>>)
        /\ announce' = AppendNew(announce, <<PtrRecord(s)>>)
        /\ services' = services
  /\ step' = "notify"
  /\ UNCHANGED <<program, next, hostname, zeroed, signals, thread, network,
                 sent, heard>>

\* The records are made before the lock is taken, and put into all three
\* lists under it.
RegisterSvc ==
  /\ Calling("register")
  /\ LET s == program[next].service
         txt == IF s.txt = None THEN <<>> ELSE <<TxtRecord(s)>>
         target == IF s.host = None THEN hostname ELSE s.host
     IN /\ group' = GroupAdd(group, txt \o <<SrvRecord(s, target), PtrRecord(s),
                                               BrowseRecord(s)>>)
        /\ announce' = AppendNew(announce, <<PtrRecord(s)>>)
        /\ services' = AppendNew(services, <<PtrRecord(s)>>)
  /\ step' = "notify"
  /\ UNCHANGED <<program, next, hostname, zeroed, signals, thread, network,
                 sent, heard>>

NotifyServer ==
  /\ step = "notify"
  /\ WritePipe
  /\ Returned
  /\ UNCHANGED <<program, shared, stopFlag, freed, thread, network, sent,
                 heard>>

StopServer ==
  /\ Calling("stop")
  /\ stopFlag' = 1
  /\ step' = "wake"
  /\ UNCHANGED <<program, next, shared, pipe, freed, thread, network, sent,
                 heard>>

\* Mutant: the flag alone must do.
WakeServerByFlag ==
  /\ step = "wake"
  /\ pipe' = pipe
  /\ step' = "wait"
  /\ UNCHANGED <<program, next, shared, stopFlag, freed, thread, network,
                 sent, heard>>

WakeServer ==
  /\ step = "wake"
  /\ WritePipe
  /\ step' = "wait"
  /\ UNCHANGED <<program, next, shared, stopFlag, freed, thread, network,
                 sent, heard>>

\* Mutant: nobody waits.
FreeServerAtOnce ==
  /\ step = "wait"
  /\ freed' = TRUE
  /\ Returned
  /\ UNCHANGED <<program, shared, pipe, stopFlag, thread, network, sent,
                 heard>>

\* The busy wait ends, and everything the server owns is freed.
FreeServer ==
  /\ step = "wait"
  /\ stopFlag = 2
  /\ freed' = TRUE
  /\ Returned
  /\ UNCHANGED <<program, shared, pipe, stopFlag, thread, network, sent,
                 heard>>

----------------------------------------------------------------------------
(* The server thread: the main loop. *)

\* The fields every step of the thread leaves alone.
ThreadOnly == UNCHANGED <<programVars, freed, packets>>

CheckStop ==
  /\ pc = "check"
  /\ pc' = IF stopFlag # 0 THEN "goodbye" ELSE "select"
  /\ sent' = None
  /\ ThreadOnly
  /\ UNCHANGED <<shared, pipe, stopFlag, inbox, errors, pkt, buffer, question,
                 topic, reply, work, heard>>

\* Mutant: a wake-up goes straight back to the loop.
WokenContinues ==
  /\ pc = "select"
  /\ ReadPipe
  /\ pc' = "check"
  /\ ThreadOnly
  /\ UNCHANGED <<shared, stopFlag, inbox, errors, pkt, buffer, question, topic,
                 reply, work, sent, heard>>

\* select() finds the pipe readable: one byte is read, packets wait.
Woken ==
  /\ pc = "select"
  /\ ReadPipe
  /\ pc' = "drain"
  /\ ThreadOnly
  /\ UNCHANGED <<shared, stopFlag, inbox, errors, pkt, buffer, question, topic,
                 reply, work, sent, heard>>

\* A packet is parsed; only a standard query starts a reply.
Parse(p) ==
  /\ pkt' = p
  /\ question' = 1
  /\ IF p # None /\ ~p.response
       THEN reply' = NoReply /\ pc' = "question"
       ELSE reply' = reply /\ pc' = "drain"

Receive ==
  /\ pc = "select"
  /\ pipe = 0
  /\ inbox # <<>>
  /\ inbox' = Tail(inbox)
  /\ buffer' = Head(inbox)
  /\ Parse(Head(inbox))
  /\ ThreadOnly
  /\ UNCHANGED <<shared, pipe, stopFlag, errors, topic, work, sent, heard>>

\* The error is logged, and what the buffer held is parsed once more.
ReceiveError ==
  /\ pc = "select"
  /\ pipe = 0
  /\ inbox # <<>>
  /\ errors < MaxErrors
  /\ errors' = errors + 1
  /\ inbox' = Tail(inbox)
  /\ Parse(buffer)
  /\ ThreadOnly
  /\ UNCHANGED <<shared, pipe, stopFlag, buffer, topic, work, sent, heard>>

----------------------------------------------------------------------------
(* Making a reply. *)

\* Appends the records asked for to one list of the reply.
PopulateAns(rep, name, type) ==
  LET list == AppendFrom(rep.ans, group, Asked(group, name, type))
  IN [rep EXCEPT !.ans = list, !.numAns = @ + Len(list) - Len(rep.ans)]

PopulateAdd(rep, name, type) ==
  LET list == AppendFrom(rep.add, group, Asked(group, name, type))
  IN [rep EXCEPT !.add = list, !.numAdd = @ + Len(list) - Len(rep.add)]

\* What is looked up for a record of a reply: the target of a pointer, the
\* host and the text of a service, the other types of an address's name.
Lookups(r) ==
  CASE r.type = "PTR" -> <<[name |-> r.data, type |-> "ANY"]>>
    [] r.type = "SRV" -> <<[name |-> r.data, type |-> "ANY"],
                           [name |-> r.name, type |-> "TXT"]>>
    [] r.type \in {"A", "AAAA"} -> <<[name |-> r.name, type |-> "NSEC"]>>
    [] OTHER -> <<>>

\* The positions of list after at whose records need a lookup.
Ahead(rep, list, at) ==
  {i \in (at + 1)..Len(rep[list]) : Lookups(rep[list][i]) # <<>>}

\* Mutant: what the additional records refer to is left out.
ContinueWithAnswers(rep, list, at) ==
  IF list = "ans" /\ Ahead(rep, list, at) # {}
  THEN /\ pc' = "related"
       /\ work' = [list |-> list, at |-> Min(Ahead(rep, list, at)),
                   lookup |-> 1]
  ELSE pc' = "send" /\ work' = NoWork

\* First the answers are gone through, then the additional records, those
\* appended meanwhile included; then the reply is sent.
ContinueWith(rep, list, at) ==
  IF Ahead(rep, list, at) # {}
  THEN /\ pc' = "related"
       /\ work' = [list |-> list, at |-> Min(Ahead(rep, list, at)),
                   lookup |-> 1]
  ELSE IF list = "ans" /\ Ahead(rep, "add", 0) # {}
  THEN /\ pc' = "related"
       /\ work' = [list |-> "add", at |-> Min(Ahead(rep, "add", 0)),
                   lookup |-> 1]
  ELSE pc' = "send" /\ work' = NoWork

\* One question of the query; unicast questions are ignored.
Question ==
  /\ pc = "question"
  /\ question <= Len(pkt.questions)
  /\ LET q == pkt.questions[question] IN
       reply' = IF q.unicast THEN reply ELSE PopulateAns(reply, q.name, q.type)
  /\ question' = question + 1
  /\ ThreadOnly
  /\ UNCHANGED <<shared, pipe, stopFlag, inbox, errors, pc, pkt, buffer, topic,
                 work, sent, heard>>

\* An answer the querier knows, for at least half its lifetime, is left out.
IsKnown(r) ==
  LET match == FirstMatch(pkt.known, r)
  IN match # <<>> /\ match[1].ttl >= Ttl(r) \div 2

\* Mutant: the count of answers is not adjusted.
SuppressUncounted ==
  /\ pc = "question"
  /\ question > Len(pkt.questions)
  /\ \E kept \in {Kept(reply.ans, {r \in ToSet(reply.ans) : ~IsKnown(r)})} :
       LET rep == [reply EXCEPT !.ans = kept]
       IN reply' = rep /\ ContinueWith(rep, "ans", 0)
  /\ ThreadOnly
  /\ UNCHANGED <<shared, pipe, stopFlag, inbox, errors, pkt, buffer, question,
                 topic, sent, heard>>

SuppressKnown ==
  /\ pc = "question"
  /\ question > Len(pkt.questions)
  /\ \E kept \in {Kept(reply.ans, {r \in ToSet(reply.ans) : ~IsKnown(r)})} :
       LET rep == [reply EXCEPT !.ans = kept,
                     !.numAns = @ - (Len(reply.ans) - Len(kept))]
       IN reply' = rep /\ ContinueWith(rep, "ans", 0)
  /\ ThreadOnly
  /\ UNCHANGED <<shared, pipe, stopFlag, inbox, errors, pkt, buffer, question,
                 topic, sent, heard>>

\* One lookup of the record worked on.
AddRelated ==
  /\ pc = "related"
  /\ LET lookups == Lookups(reply[work.list][work.at])
         l == lookups[work.lookup]
     IN \E rep \in {PopulateAdd(reply, l.name, l.type)} :
          /\ reply' = rep
          /\ IF work.lookup < Len(lookups)
               THEN work' = [work EXCEPT !.lookup = @ + 1] /\ pc' = pc
               ELSE ContinueWith(rep, work.list, work.at)
  /\ ThreadOnly
  /\ UNCHANGED <<shared, pipe, stopFlag, inbox, errors, pkt, buffer, question,
                 topic, sent, heard>>

\* The services that a packet tells its receivers of, or takes back.
ServicesIn(rep, ttlIsZero) ==
  {r.owner : r \in {q \in ToSet(rep.ans \o rep.add) :
     /\ q.type = "PTR" /\ q.name # ServicesName
     /\ (Ttl(q) = 0) = ttlIsZero}}

Transmit ==
  /\ sent' = reply
  /\ buffer' = [response |-> TRUE]
  /\ heard' = (heard \cup ServicesIn(reply, FALSE)) \ ServicesIn(reply, TRUE)

\* A reply without answers is not sent.
Send ==
  /\ pc = "send"
  /\ IF reply.numAns > 0 THEN Transmit
                         ELSE UNCHANGED <<sent, buffer, heard>>
  /\ pc' = "drain"
  /\ ThreadOnly
  /\ UNCHANGED <<shared, pipe, stopFlag, inbox, errors, pkt, question, topic,
                 reply, work>>

----------------------------------------------------------------------------
(* Announcements and the goodbye. *)

TakeAnnouncement ==
  /\ pc = "drain"
  /\ IF announce = <<>>
       THEN pc' = "check" /\ UNCHANGED <<announce, topic>>
       ELSE /\ pc' = "announce"
            /\ announce' = Tail(announce)
            /\ topic' = Head(announce).name
  /\ sent' = None
  /\ ThreadOnly
  /\ UNCHANGED <<group, services, hostname, zeroed, pipe, stopFlag, inbox,
                 errors, pkt, buffer, question, reply, work, heard>>

AnnounceType ==
  /\ pc = "announce"
  /\ reply' = PopulateAns(NoReply, topic, "PTR")
  /\ pc' = "browse"
  /\ ThreadOnly
  /\ UNCHANGED <<shared, pipe, stopFlag, inbox, errors, pkt, buffer, question,
                 topic, work, sent, heard>>

AnnounceBrowse ==
  /\ pc = "browse"
  /\ \E rep \in {PopulateAns(reply, ServicesName, "PTR")} :
       reply' = rep /\ ContinueWith(rep, "ans", 0)
  /\ ThreadOnly
  /\ UNCHANGED <<shared, pipe, stopFlag, inbox, errors, pkt, buffer, question,
                 topic, sent, heard>>

\* After the loop: the lifetime of every registered service becomes zero.
Goodbye ==
  /\ pc = "goodbye"
  /\ zeroed' = zeroed \cup ToSet(services)
  /\ reply' = [NoReply EXCEPT !.ans = services, !.numAns = Len(services)]
  /\ pc' = "farewell"
  /\ ThreadOnly
  /\ UNCHANGED <<group, announce, services, hostname, pipe, stopFlag, inbox,
                 errors, pkt, buffer, question, topic, work, sent, heard>>

\* The goodbye is sent, the socket closed, and the stop acknowledged.
Farewell ==
  /\ pc = "farewell"
  /\ IF reply.numAns > 0 THEN Transmit
                         ELSE UNCHANGED <<sent, buffer, heard>>
  /\ stopFlag' = 2
  /\ inbox' = <<>>
  /\ pc' = "done"
  /\ ThreadOnly
  /\ UNCHANGED <<shared, pipe, errors, pkt, question, topic, reply, work>>

----------------------------------------------------------------------------
(* The network: a query, or another host's response, arrives. *)
Arrive(q) ==
  /\ packets < MaxPackets
  /\ pc # "done"
  /\ packets' = packets + 1
  /\ inbox' = Append(inbox, q)
  /\ UNCHANGED <<programVars, shared, signals, thread, errors, sent, heard>>

ThreadNext ==
  \/ CheckStop \/ Woken \/ Receive \/ ReceiveError
  \/ Question \/ SuppressKnown \/ AddRelated \/ Send
  \/ TakeAnnouncement \/ AnnounceType \/ AnnounceBrowse
  \/ Goodbye \/ Farewell

ProgramNext ==
  \/ SetHostname \/ AddRR \/ RegisterSvc \/ NotifyServer
  \/ StopServer \/ WakeServer \/ FreeServer

Next == ThreadNext \/ ProgramNext \/ \E q \in Queries : Arrive(q)

Spec == Init /\ [][Next]_vars

\* The server thread runs, and a call that has begun goes on; whether the
\* program makes another call is its own affair.
Fairness ==
  /\ WF_vars(ThreadNext)
  /\ WF_vars(NotifyServer \/ WakeServer \/ FreeServer)

FairSpec == Spec /\ Fairness

----------------------------------------------------------------------------
(* Properties. *)

Locations == {"check", "select", "question", "related", "send", "drain",
              "announce", "browse", "goodbye", "farewell", "done"}

TypeOK ==
  /\ program \in Programs /\ next \in 1..(Len(program) + 1)
  /\ step \in {"call", "notify", "wake", "wait"}
  /\ ToSet(announce) \cup ToSet(services) \subseteq ToSet(group)
  /\ pipe \in Nat /\ stopFlag \in 0..2 /\ freed \in BOOLEAN
  /\ pc \in Locations
  /\ reply.numAns = Len(reply.ans) /\ reply.numAdd = Len(reply.add)
  /\ heard \subseteq Services

\* A record that refers to another one: a pointer to the records of the
\* service, the service to its host's and its text, an address to its NSEC.
Related(r, q) ==
  \/ r.type \in {"PTR", "SRV"} /\ q.name = r.data /\ q.type # "NSEC"
  \/ r.type = "SRV" /\ q.name = r.name /\ q.type = "TXT"
  \/ r.type \in {"A", "AAAA"} /\ q.name = r.name /\ q.type = "NSEC"

\* Whoever hears of a service, by an answer or an announcement, is told in
\* the same packet where it runs, its text and the address of that host, if
\* they are registered with this server: the lookups are made one by one and
\* the program adds records in between (add_related_rr, populate_answers).
ReplyIsComplete ==
  sent # None =>
    LET told == ToSet(sent.ans \o sent.add)
    IN \A r \in told :
         r.name # ServicesName /\ (r.type = "PTR" => Ttl(r) > 0) =>
           \A q \in ToSet(group) : Related(r, q) => q \in told

\* The records that the i-th call of a program adds; a service that names no
\* host runs on the one set last, by one of the calls before.
HostsBefore(p, i) ==
  {None} \cup {p[k].host : k \in {j \in DOMAIN p : j < i /\ p[j].op = "host"}}

Made(p, i) ==
  CASE p[i].op = "host" -> {AddressRecord(p[i].host, p[i].addr), NsecRecord(p[i].host)}
    [] p[i].op = "rr" -> {p[i].rr}
    [] p[i].op = "register" ->
         LET s == p[i].service
         IN {PtrRecord(s), BrowseRecord(s)}
              \cup {SrvRecord(s, h) :
                      h \in IF s.host = None THEN HostsBefore(p, i) ELSE {s.host}}
              \cup (IF s.txt = None THEN {} ELSE {TxtRecord(s)})
    [] OTHER -> {}

\* What a record refers to is added with it or before it: the programs of the
\* tree set the host name and add its addresses before they register services.
InOrder ==
  \A p \in Programs : \A i, j \in DOMAIN p : i < j =>
    \A r \in Made(p, i), q \in Made(p, j) :
      r.name # ServicesName => ~Related(r, q)

\* What was sent can be read again: a receiver that counts on the header and
\* follows the compression pointers finds every record with its name, type,
\* lifetime and data (mdns_encode_pkt against mdns_parse_pkt).
Readable(rrs, r) ==
  [name |-> r.name, type |-> r.type, ttl |-> Ttl(r),
   data |-> IF r.type \in {"SRV", "NSEC"} THEN "skipped" ELSE r.data]

WireIsFaithful ==
  sent # None =>
    LET lifetimes == [r \in ToSet(sent.ans \o sent.add) |-> Ttl(r)]
        buf == EncodePkt(sent, lifetimes)
        expected(rrs) == [i \in DOMAIN rrs |-> Readable(rrs, rrs[i])]
    IN /\ ParsePkt(buf) = expected(sent.ans)
       /\ ParseRecords(buf, At(buf, 0)[2] + At(buf, 1)[2])
            = expected(sent.ans \o sent.add)

\* Once mdnsd_stop frees the server, its thread is gone: it never touches a
\* list, the pipe or the mutex again (mdnsd_stop's wait for stop_flag 2).
FreedOnlyWhenDone == freed => pc = "done"

\* The server keeps the promise of a directory of services: registered is
\* what the goodbye will take back.
Directory == INSTANCE ServiceDirectory WITH
  registered <- {r.owner : r \in ToSet(services)},
  heard <- heard,
  up <- pc # "done"

KeepsDirectory == Directory!Spec

\* A registered service is announced, or the server has left: no wake-up is
\* lost between the lists and the pipe.
AnnouncesAll == Directory!Announced

\* mdnsd_stop returns: its wake-up reaches a thread that may be waiting for
\* packets for ever.
StopReturns == (step = "wake") ~> freed
=============================================================================
