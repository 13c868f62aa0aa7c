----------------------------- MODULE HttpServer -----------------------------
(***************************************************************************)
(* gpio_server_http: one thread that turns the event loop of the embedded   *)
(* Mongoose web server, and its clients.                                    *)
(*                                                                          *)
(* A turn of the loop (ns_mgr_poll) has three passes over the connections,  *)
(* newest first: the first tells each connection that time has passed       *)
(* (NS_POLL), the second reads and writes sockets and accepts at most one   *)
(* client, the third closes what is finished.  The server's own handler     *)
(* keeps one flag, DoneFlag, for all connections: set by an answered        *)
(* request, it is used up by the first connection that is told of the time. *)
(*                                                                          *)
(* Bytes are abstracted to tokens: "head" is the request line and headers   *)
(* up to the blank line, "end" the blank line of a request without a body,  *)
(* "endb" that of one with a body, "body" the body, "junk" a control        *)
(* character.  A chunk, what one recv() returns, is a sequence of tokens.   *)
(***************************************************************************)
EXTENDS Integers, Sequences, SequencesExt, FiniteSets

CONSTANTS
  Conns,      \* the connections clients make, each at most once
  Scripts,    \* what the clients may do: functions from Conns to records of
              \* the chunks to send and whether to ask for keep-alive
  MaxFds      \* descriptors for connections and GPIO pins together

ASSUME ConnsAssumption == IsFiniteSet(Conns)
ASSUME ScriptsAssumption ==
  Scripts \subseteq [Conns -> [chunks : Seq(Seq({"head", "end", "endb", "body",
                                                 "junk"})), keep : BOOLEAN]]
ASSUME FdsAssumption == MaxFds \in Nat \ {0}

\* Whatever a client has sent, a body is what follows the header of a request
\* that has one.
ASSUME BodiesAssumption ==
  \A s \in Scripts, c \in Conns : \A n \in 0 .. Len(s[c].chunks) :
    LET sent == FlattenSeq(SubSeq(s[c].chunks, 1, n))
    IN \A i \in 1 .. Len(sent) - 1 : sent[i] = "endb" => sent[i + 1] = "body"

VARIABLES
  \* clients and network
  script,     \* connection |-> what its client does
  next,       \* connection |-> index of the next chunk to send
  inbox,      \* connection |-> chunks in the server's socket buffer
  fin,        \* connection |-> whether the client has closed its side
  replies,    \* connection |-> replies the client has received
  backlog,    \* connections waiting to be accepted, oldest first
  listening,  \* whether there is a listening socket
  idle,       \* connection |-> whether the idle timeout has run out
  \* server
  phase,      \* connection |-> "none", "syn", "open", "closed"
  k,          \* connection |-> the server's record of it
  order,      \* active_connections, newest first
  pc,         \* the pass of the loop
  todo,       \* connections the pass has still to visit
  wr,         \* whether the connection being visited is in write_set
  stale,      \* whether read_set holds a socket closed in the first pass
  done,       \* DoneFlag
  exitflag,   \* set by SIGTERM
  final,      \* this is the last turn of the loop
  leaks       \* descriptors a failed read or write has left open

clientVars == <<script, next>>
vars == <<script, next, inbox, fin, replies, backlog, idle, phase, k,
          listening, order, pc, todo, wr, stale, done, exitflag, final, leaks>>

(***************************************************************************)
(* A connection's record: ns_connection and connection.                     *)
(***************************************************************************)
NewConn == [hdr |-> "none", recv |-> <<>>, got |-> 0, ep |-> "NONE",
            send |-> <<>>, flags |-> {}]

Enders == {"end", "endb"}

\* Where the header ends in a buffer: 0 not yet, -1 never
RequestLen(buf) ==
  LET stops == {i \in DOMAIN buf : buf[i] \in Enders \cup {"junk"}}
      first == CHOOSE i \in stops : \A j \in stops : i <= j
  IN  IF stops = {} THEN 0 ELSE IF buf[first] = "junk" THEN -1 ELSE first

\* What a header is a request for: one with a body, one without, or none
parse_http_message(header) ==
  IF Len(header) = 2 /\ header[1] = "head" THEN header[2] ELSE "bad"

\* Take a complete header out of the receive buffer
TryParse(r) ==
  LET n == RequestLen(r.recv)
  IN IF r.hdr # "none" \/ n = 0 THEN r
     ELSE IF n > 0
     THEN [r EXCEPT !.hdr = parse_http_message(SubSeq(r.recv, 1, n)),
                    !.recv = SubSeq(r.recv, n + 1, Len(r.recv))]
     ELSE [r EXCEPT !.hdr = "bad"]

\* The client, by its version or its header, asked to keep the connection
should_keep_alive(r, ka) == ka /\ r.hdr \in Enders /\ r.ep = "USER"

\* Mutant: the parsed request survives the reply
CloseLocalKeepsRequest(r, ka) ==
  LET r1 == [r EXCEPT !.recv = <<>>, !.ep = "NONE"]
  IN IF should_keep_alive(r, ka)
     THEN [r1 EXCEPT !.flags = {}]
     ELSE [r1 EXCEPT !.flags = IF r.send = <<>> THEN {"CLOSE"}
                               ELSE {"FINISHED"}]

\* The reply is queued: forget the request and whatever else was received,
\* and wait for another request or finish
CloseLocal(r, ka) ==
  LET r1 == [r EXCEPT !.hdr = "none", !.recv = <<>>, !.got = 0, !.ep = "NONE"]
  IN IF should_keep_alive(r, ka)
     THEN [r1 EXCEPT !.flags = {}]
     ELSE [r1 EXCEPT !.flags = IF r.send = <<>> THEN {"CLOSE"}
                               ELSE {"FINISHED"}]

\* Mutant: the body is not waited for
BufferedHeader(r) == r.got >= 2

\* The header and as many bytes as it announced have arrived
Buffered(r) == r.got >= IF r.hdr = "endb" THEN 3 ELSE 2

\* Everybody is authorised and every URI is the server's own
open_local_endpoint(r) == [r EXCEPT !.ep = "USER"]

\* A chunk arrives and is parsed; the endpoint is opened for the handler
Received(r, chunk) ==
  LET r1 == TryParse([r EXCEPT !.recv = @ \o chunk, !.got = @ + Len(chunk)])
  IN IF r1.hdr \in Enders /\ r1.ep = "NONE" THEN open_local_endpoint(r1) ELSE r1

ns_send(r, what) == [r EXCEPT !.send = Append(@, what)]

\* The header is no request that the server knows
send_http_error(r, ka) == CloseLocal(ns_send(r, "400"), ka)

\* The handler has answered
call_request_handler(r, ka) == CloseLocal(ns_send(r, "200"), ka)

---------------------------------------------------------------------------
\* No connections; SIGPIPE is ignored, so that a write may fail
ns_mgr_init == order = <<>>

Init ==
  /\ script \in Scripts
  /\ next = [c \in Conns |-> 1]
  /\ inbox = [c \in Conns |-> <<>>]
  /\ fin = [c \in Conns |-> FALSE]
  /\ replies = [c \in Conns |-> <<>>]
  /\ backlog = <<>> /\ listening = FALSE
  /\ idle = [c \in Conns |-> FALSE]
  /\ phase = [c \in Conns |-> "none"]
  /\ k = [c \in Conns |-> NewConn]
  /\ ns_mgr_init /\ todo = <<>>
  /\ pc = "start"
  /\ wr = FALSE /\ stale = FALSE /\ done = FALSE
  /\ exitflag = FALSE /\ final = FALSE
  /\ leaks \in 0 .. MaxFds - 1   \* some may have been lost before

(***************************************************************************)
(* Clients, time and SIGTERM                                                *)
(***************************************************************************)
Connect(c) ==
  /\ phase[c] = "none" /\ listening
  /\ phase' = [phase EXCEPT ![c] = "syn"]
  /\ backlog' = Append(backlog, c)
  /\ UNCHANGED <<clientVars, inbox, fin, replies, idle, k, order, pc, todo,
                 wr, stale, done, exitflag, final, leaks, listening>>

Send(c) ==
  /\ phase[c] \in {"syn", "open"} /\ ~fin[c]
  /\ next[c] <= Len(script[c].chunks)
  /\ inbox' = [inbox EXCEPT ![c] = Append(@, script[c].chunks[next[c]])]
  /\ next' = [next EXCEPT ![c] = @ + 1]
  /\ UNCHANGED <<script, fin, replies, backlog, idle, phase, k, order,
                 pc, todo, wr, stale, done, exitflag, final, leaks, listening>>

\* The client closes its sending side, or both
Shut(c) ==
  /\ phase[c] \in {"syn", "open"} /\ ~fin[c]
  /\ fin' = [fin EXCEPT ![c] = TRUE]
  /\ UNCHANGED <<clientVars, inbox, replies, backlog, idle, phase, k, order,
                 pc, todo, wr, stale, done, exitflag, final, leaks, listening>>

\* 300 seconds without input or output on an accepted connection
IdleTimeout(c) ==
  /\ phase[c] = "open" /\ ~idle[c]
  /\ inbox[c] = <<>> /\ ~fin[c] /\ k[c].send = <<>>
  /\ idle' = [idle EXCEPT ![c] = TRUE]
  /\ UNCHANGED <<clientVars, inbox, fin, replies, backlog, phase, k, order,
                 pc, todo, wr, stale, done, exitflag, final, leaks, listening>>

Sigterm ==
  /\ ~exitflag
  /\ exitflag' = TRUE
  /\ UNCHANGED <<clientVars, inbox, fin, replies, backlog, idle, phase, k,
                 order, pc, todo, wr, stale, done, final, leaks, listening>>

(***************************************************************************)
(* The server's start, and the loop                                         *)
(***************************************************************************)
Open == {c \in Conns : phase[c] = "open"}
FdFree == Cardinality(Open) + leaks < MaxFds

ns_add_conn(c) == order' = <<c>> \o order
ns_remove_conn(c) ==
  order' = RemoveAt(order, CHOOSE i \in DOMAIN order : order[i] = c)

ns_close_conn(c) ==
  /\ phase' = [phase EXCEPT ![c] = "closed"]
  /\ ns_remove_conn(c)

CloseIf(c, finished) ==
  IF finished THEN ns_close_conn(c) ELSE UNCHANGED <<phase, order>>

\* A listening socket, unless there is none to be had or somebody has the port
ns_open_listening_socket == BOOLEAN

ns_bind == listening' \in ns_open_listening_socket

\* The option is listening_port: the only trace of the error is the result
mg_set_option == ns_bind

\* The server gives up when the service, the board, its group or the signal
\* handler is missing, but not when mg_set_option could not bind the port
Start ==
  /\ pc = "start"
  /\ \/ pc' = "top" /\ mg_set_option
     \/ pc' = "done" /\ UNCHANGED listening
  /\ UNCHANGED <<clientVars, inbox, fin, replies, backlog, idle, phase, k,
                 order, todo, wr, stale, done, exitflag, final, leaks>>

\* Mutant: the loop does not look at exitflag
LoopTopForever ==
  /\ pc = "top"
  /\ stale' = FALSE
  /\ pc' = "poll" /\ todo' = order
  /\ UNCHANGED <<clientVars, inbox, fin, replies, backlog, idle, phase, k,
                 order, wr, done, exitflag, final, leaks, listening>>

\* while (!exitflag) mg_poll_server(); then one last poll and the end
LoopTop ==
  /\ pc = "top"
  /\ final' = exitflag
  /\ stale' = FALSE
  /\ pc' = IF final THEN "destroy" ELSE "poll"
  /\ todo' = order
  /\ UNCHANGED <<clientVars, inbox, fin, replies, backlog, idle, phase, k,
                 order, wr, done, exitflag, leaks, listening>>

\* event_handler: DoneFlag closes whichever connection is told of the time
NsPoll(c) == IF done THEN CloseLocal(k[c], script[c].keep) ELSE k[c]

\* Mutant: the flag is not reset, so it closes every connection
PollOneKeepsFlag ==
  /\ pc = "poll" /\ todo # <<>>
  /\ LET c  == Head(todo)
         r  == NsPoll(c)
         cl == idle[c] \/ "CLOSE" \in r.flags
     IN /\ k' = [k EXCEPT ![c] = r]
        /\ todo' = Tail(todo)
        /\ stale' = (stale \/ cl)
        /\ CloseIf(c, cl)
  /\ UNCHANGED <<clientVars, inbox, fin, replies, backlog, idle, pc, wr, done,
                 exitflag, final, leaks, listening>>

\* Mutant: idle connections are never closed
PollOneNoTimeout ==
  /\ pc = "poll" /\ todo # <<>>
  /\ LET c  == Head(todo)
         r  == NsPoll(c)
         cl == "CLOSE" \in r.flags
     IN /\ k' = [k EXCEPT ![c] = r]
        /\ done' = FALSE
        /\ todo' = Tail(todo)
        /\ stale' = (stale \/ cl)
        /\ CloseIf(c, cl)
  /\ UNCHANGED <<clientVars, inbox, fin, replies, backlog, idle, pc, wr,
                 exitflag, final, leaks, listening>>

\* First pass: the first connection that is told uses the flag up, a connection
\* idle for too long is closed; select() is given its socket
\* before that
PollOne ==
  /\ pc = "poll" /\ todo # <<>>
  /\ LET c  == Head(todo)
         r  == NsPoll(c)
         cl == idle[c] \/ "CLOSE" \in r.flags
     IN /\ k' = [k EXCEPT ![c] = r]
        /\ done' = FALSE
        /\ todo' = Tail(todo)
        /\ stale' = (stale \/ cl)
        /\ CloseIf(c, cl)
  /\ UNCHANGED <<clientVars, inbox, fin, replies, backlog, idle, pc, wr,
                 exitflag, final, leaks, listening>>

Queued(list) == list # <<>> /\ k[Head(list)].send # <<>>

\* select(): with a socket that is already closed in its set it fails, and
\* nothing is read, written or accepted in this turn
Select ==
  /\ pc = "poll" /\ todo = <<>>
  /\ todo' = order
  /\ IF stale THEN pc' = "close" /\ wr' = FALSE
              ELSE pc' = "io" /\ wr' = Queued(order)
  /\ UNCHANGED <<clientVars, inbox, fin, replies, backlog, idle, phase, k,
                 order, stale, done, exitflag, final, leaks, listening>>

\* Descriptors that a request may leave open: one without a body is taken for a
\* GET, which opens a pin and leaves it open when reading or writing it fails;
\* any other method is refused
request_handler(r) == IF r.hdr = "end" /\ FdFree THEN {0, 1} ELSE {0}

\* on_recv_data, after the chunk has been parsed
OnRecvData(c, r) ==
  \/ /\ r.hdr = "bad"
     /\ k' = [k EXCEPT ![c] = send_http_error(r, script[c].keep)]
     /\ UNCHANGED <<done, leaks>>
  \/ /\ r.hdr \in Enders /\ Buffered(r)
     /\ k' = [k EXCEPT ![c] = call_request_handler(r, script[c].keep)]
     /\ done' = TRUE
     /\ \E n \in request_handler(r) : leaks' = leaks + n
  \/ /\ r.hdr # "bad" /\ ~(r.hdr \in Enders /\ Buffered(r))
     /\ k' = [k EXCEPT ![c] = r]
     /\ UNCHANGED <<done, leaks>>

\* Second pass: one recv() of the loop in ns_read_from_socket, and NS_RECV
RecvChunk ==
  /\ pc = "io" /\ todo # <<>>
  /\ LET c == Head(todo)
     IN /\ inbox[c] # <<>>
        /\ inbox' = [inbox EXCEPT ![c] = Tail(@)]
        /\ idle' = [idle EXCEPT ![c] = FALSE]
        /\ OnRecvData(c, Received(k[c], Head(inbox[c])))
  /\ UNCHANGED <<clientVars, fin, replies, backlog, phase, order, pc, todo,
                 wr, stale, exitflag, final, listening>>

\* recv() finds nothing more, or the end of the stream
ReadEnds(c) == IF fin[c] THEN {"CLOSE"} ELSE {}

\* The reply is written, provided that it was there before select()
ns_write_to_socket(c) ==
  replies' = IF wr THEN [replies EXCEPT ![c] = @ \o k[c].send] ELSE replies

WriteOne ==
  /\ pc = "io" /\ todo # <<>>
  /\ LET c == Head(todo)
     IN /\ inbox[c] = <<>>
        /\ k' = [k EXCEPT ![c].flags = @ \cup ReadEnds(c),
                          ![c].send = IF wr THEN <<>> ELSE @]
        /\ ns_write_to_socket(c)
        /\ idle' = [idle EXCEPT ![c] = @ /\ ~fin[c] /\ ~wr]
  /\ todo' = Tail(todo)
  /\ wr' = Queued(Tail(todo))
  /\ UNCHANGED <<clientVars, inbox, fin, backlog, phase, order, pc, stale,
                 done, exitflag, final, leaks, listening>>

\* Every address is allowed: the server sets no access control list
on_accept(c) == k' = [k EXCEPT ![c] = NewConn]

accept_conn(c) ==
  /\ backlog' = Tail(backlog)
  /\ phase' = [phase EXCEPT ![c] = "open"]
  /\ ns_add_conn(c)
  /\ on_accept(c)

\* The listening socket is the oldest connection: one client is accepted if
\* there is a descriptor for it
Accept ==
  /\ pc = "io" /\ todo = <<>>
  /\ pc' = "close"
  /\ IF backlog # <<>> /\ FdFree
     THEN accept_conn(Head(backlog))
     ELSE UNCHANGED <<backlog, phase, k, order>>
  /\ todo' = order'
  /\ UNCHANGED <<clientVars, inbox, fin, replies, idle, wr, stale, done,
                 exitflag, final, leaks, listening>>

\* Mutant: a reply still in the buffer does not keep the connection open
FinishedUnsent(c) == k[c].flags # {}

\* Third pass
Finished(c) == \/ "CLOSE" \in k[c].flags
               \/ "FINISHED" \in k[c].flags /\ k[c].send = <<>>

CloseOne ==
  /\ pc = "close" /\ todo # <<>>
  /\ CloseIf(Head(todo), Finished(Head(todo)))
  /\ todo' = Tail(todo)
  /\ UNCHANGED <<clientVars, inbox, fin, replies, backlog, idle, k, pc, wr,
                 stale, done, exitflag, final, leaks, listening>>

TurnEnds ==
  /\ pc = "close" /\ todo = <<>>
  /\ pc' = "top"
  /\ UNCHANGED <<clientVars, inbox, fin, replies, backlog, idle, phase, k, order,
                 todo, wr, stale, done, exitflag, final, leaks, listening>>

\* ns_mgr_free: every connection is closed, the listening socket, which is the
\* oldest, last
DestroyOne ==
  /\ pc = "destroy" /\ todo # <<>>
  /\ ns_close_conn(Head(todo))
  /\ todo' = Tail(todo)
  /\ UNCHANGED <<clientVars, inbox, fin, replies, backlog, idle, k, pc, wr,
                 stale, done, exitflag, final, leaks, listening>>

DestroyEnds ==
  /\ pc = "destroy" /\ todo = <<>>
  /\ listening' = FALSE
  /\ pc' = "done"
  /\ UNCHANGED <<clientVars, inbox, fin, replies, backlog, idle, phase, k, order,
                 todo, wr, stale, done, exitflag, final, leaks>>

Server == \/ Start \/ LoopTop \/ PollOne \/ Select \/ RecvChunk \/ WriteOne
          \/ Accept \/ CloseOne \/ TurnEnds \/ DestroyOne \/ DestroyEnds

Terminated == pc = "done" /\ UNCHANGED vars

Next ==
  \/ Server
  \/ \E c \in Conns : Connect(c) \/ Send(c) \/ Shut(c) \/ IdleTimeout(c)
  \/ Sigterm
  \/ Terminated

\* The server's thread is scheduled, and time passes on an idle connection
Spec == /\ Init /\ [][Next]_vars
        /\ WF_vars(Server)
        /\ \A c \in Conns : WF_vars(IdleTimeout(c))

(***************************************************************************)
(* Properties                                                               *)
(***************************************************************************)
\* The types of the variables; the active connections are exactly the open
\* ones, each once, and descriptors are not used beyond the limit.
TypeOK ==
  /\ next \in [Conns -> Nat]
  /\ phase \in [Conns -> {"none", "syn", "open", "closed"}]
  /\ \A c \in Conns :
       /\ k[c].hdr \in {"none", "end", "endb"}
       /\ k[c].ep \in {"NONE", "USER"}
       /\ k[c].flags \subseteq {"CLOSE", "FINISHED"}
       /\ ToSet(k[c].send) \subseteq {"200", "400"}
  /\ listening \in BOOLEAN /\ (listening => pc # "done")
  /\ pc \in {"start", "top", "poll", "io", "close", "destroy", "done"}
  /\ IsInjective(order) /\ ToSet(order) = Open
  /\ ToSet(backlog) = {c \in Conns : phase[c] = "syn"}
  /\ Cardinality(Open) + leaks <= MaxFds

Count(seq, S) == Cardinality({i \in DOMAIN seq : seq[i] \in S})
Sent(c) == FlattenSeq(SubSeq(script[c].chunks, 1, next[c] - 1))

\* A client never gets more replies than it sent requests, and no 200 for a
\* request that was not complete, body included (close_local_endpoint resets
\* the request and the counters call_request_handler_if_data_is_buffered
\* compares).
NoReplyWithoutRequest ==
  \A c \in Conns :
    LET all == replies[c] \o k[c].send
    IN /\ Count(all, {"200", "400"}) <= Count(Sent(c), Enders \cup {"junk"})
       /\ Count(all, {"200"}) <= Count(Sent(c), {"end", "body"})

\* A reply that was queued is written before its connection is closed, unless
\* the client has closed its side or the server is terminating
\* (NSF_FINISHED_SENDING_DATA).
ReplyBeforeClose ==
  [][\A c \in Conns :
       phase[c] = "open" /\ phase'[c] = "closed" /\ k[c].send # <<>>
         => fin[c] \/ final]_vars

\* A connection that has sent something and has had no reply is closed only
\* because its client closed it, it was idle for too long, the server is
\* terminating, or it used up the one DoneFlag: one answered request cuts off
\* at most one other connection (event_handler, MG_POLL).
CutUsesTheFlag ==
  [][\A c \in Conns :
       (/\ phase[c] = "open" /\ phase'[c] = "closed"
        /\ replies[c] = <<>> /\ k[c].send = <<>>
        /\ inbox[c] # <<>> \/ k[c].recv # <<>> \/ k[c].hdr # "none")
         => fin[c] \/ idle[c] \/ final \/ (done /\ ~done')]_vars

\* An accepted connection does not stay open for ever, whatever its client
\* does: the flag, the client or the idle timeout ends it.
EveryConnectionEnds ==
  \A c \in Conns : phase[c] = "open" ~> phase[c] = "closed"

\* A client that connects is accepted in the end, even when there are more
\* clients than descriptors, unless the server stops or failed reads and
\* writes of pins have left no descriptor at all (request_handler returns
\* without GPIO_close).
EveryClientAccepted ==
  \A c \in Conns :
    phase[c] = "syn" ~> phase[c] # "syn" \/ pc = "done" \/ leaks = MaxFds

\* SIGTERM ends the server.
StopsOnSigterm == exitflag ~> pc = "done"
=============================================================================
