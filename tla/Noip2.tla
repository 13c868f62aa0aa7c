------------------------------- MODULE Noip2 -------------------------------
(***************************************************************************)
(* noip2, the dynamic DNS client: daemons that share a table of instances   *)
(* in shared memory, each telling the service the address of the network    *)
(* for the hosts of its configuration whenever the address is not the one   *)
(* in its slot of the table.  The start-up script starts one daemon per     *)
(* configuration and does not wait for it to find its slot; nothing locks   *)
(* the table.                                                               *)
(***************************************************************************)
EXTENDS Integers, Sequences, FiniteSets, FiniteSetsExt

CONSTANTS
  Configs,      \* configuration files
  ConfigOf,     \* the configurations daemons are started with, in this order
  Broken,       \* configurations whose file is missing, damaged or without
                \* hosts
  Known,        \* configurations whose hosts the service accepts
  Private,      \* addresses the service refuses for any host
  Writable,     \* configurations the daemon's user may write
  Stale,        \* configurations of daemons killed earlier, whose
                \* slot the shared memory may still hold
  MaxInstance,  \* slots of the table (MAX_INSTANCE)
  Addresses,
  None,         \* no address, no process, no configuration
  Forced,       \* an address that equals no other: the first check is forced
  MaxEvents     \* bound on changes of the address, signals, daemons killed
                \* outright, starts that fail, slots cleaned, lost replies
                \* and disabled versions, together

Procs == DOMAIN ConfigOf

ASSUME ConfigAssumption ==
  /\ ConfigOf \in Seq(Configs)
  /\ Known \subseteq Configs /\ Writable \subseteq Configs
  /\ Stale \subseteq Configs /\ Broken \subseteq Configs
  /\ Private \subseteq Addresses
ASSUME SlotAssumption == MaxInstance \in Nat \ {0}
ASSUME EventAssumption == MaxEvents \in Nat
ASSUME NoneAssumption ==
  /\ None \notin Procs \cup Configs \cup Addresses
  /\ Forced \notin Addresses \cup {None}

VARIABLES
  proc,      \* process |-> its record: see Off
  slots,     \* the table: pid, cfilename, Last_IP_Addr
  saved,     \* configuration |-> the address in the file
  banned,    \* whether the service has disabled this version
  net,       \* the address of the network now
  dns,       \* configuration |-> the address the service has for its hosts
  events,    \* how often something has happened to the world
  \* history
  overlap,   \* two processes have looked for a slot at the same time
  met,       \* daemons that shared a slot or a configuration with another
  unsure     \* daemons that have not heard what the service did last

world == <<net, dns, events>>
history == <<overlap, met, unsure>>
vars == <<proc, slots, saved, banned, world, history>>

Slots == 1 .. MaxInstance

(***************************************************************************)
(* A process: where it is, my_instance, whether exit_handler has reset      *)
(* "background", the address it is about to send (IPaddress), whether its   *)
(* first check is still to come, and the address the file held when the     *)
(* process parsed it.                                                       *)
(***************************************************************************)
Off == [pc |-> "off", mine |-> 0, term |-> FALSE, ip |-> None,
        fresh |-> TRUE, parsed |-> None]

At(p, where) == proc[p].pc = where
Looping(p) == proc[p].pc \in {"check", "update"}
Attached(p) == Looping(p) \/ At(p, "claim")
Begun(p) == proc[p].pc \in {"count", "attach"}
Exists(p) == p \in Procs /\ (Attached(p) \/ Begun(p))
Slot(p) == slots[proc[p].mine]

\* A slot with no pid; what else it holds is never read
Empty == [pid |-> None, cfile |-> None, last |-> None]

\* A slot left by a daemon of configuration c that was killed; its pid is the
\* one no process has
Left(c) == [pid |-> 0, cfile |-> c, last |-> None]

Put(p, r) == proc' = [proc EXCEPT ![p] = r]
Goto(p, where) == proc' = [proc EXCEPT ![p].pc = where]
Gone(p, how) == Put(p, [Off EXCEPT !.pc = how])

Event == events < MaxEvents /\ events' = events + 1

Init ==
  /\ proc = [p \in Procs |-> Off]
  /\ \E first \in {Empty} \cup {Left(c) : c \in Stale} :
       slots = [i \in Slots |-> IF i = 1 THEN first ELSE Empty]
  /\ saved = [c \in Configs |-> None]
  /\ banned = FALSE
  /\ net \in Addresses
  /\ dns = [c \in Configs |-> None]
  /\ events = 0
  /\ overlap = FALSE /\ met = {} /\ unsure = {}

(***************************************************************************)
(* Starting                                                                 *)
(***************************************************************************)
\* The file is read, as root, with the address that was saved in it
parse_config(c) ==
  IF c \in Broken THEN [code |-> "BADCONFIG"]
                  ELSE [code |-> "SUCCESS", last |-> saved[c]]

\* NOCONFIG and the six kinds of bad configuration are all fatal
handle_config_error(code) == IF code = "SUCCESS" THEN code ELSE "FATALERR"

Readable(c) == handle_config_error(parse_config(c).code) = "SUCCESS"

\* The script starts a process when the parent of the one before has exited:
\* it has given up, or its child goes on in run_as_background()
IsTurnOf(p) == At(p, "off") /\ \A q \in Procs : q < p => ~At(q, "off")

Start(p) ==
  /\ IsTurnOf(p)
  /\ IF ~Readable(ConfigOf[p])
     THEN Gone(p, "ended")
     ELSE Put(p, [Off EXCEPT !.pc = "count",
                             !.parsed = parse_config(ConfigOf[p]).last])
  /\ UNCHANGED <<slots, saved, banned, world, history>>

\* get_shm_info() up to shmat(), in the child; the start-up script gives -M
TooMany == Cardinality({q \in Procs : Attached(q)}) >= MaxInstance

Count(p) ==
  /\ At(p, "count")
  /\ IF TooMany THEN Gone(p, "ended") ELSE Goto(p, "attach")
  /\ UNCHANGED <<slots, saved, banned, world, history>>

\* fork() fails, or, in the child, shmget() or shmat()
StartFails(p) ==
  /\ Event
  /\ \/ IsTurnOf(p) /\ Readable(ConfigOf[p])
     \/ Begun(p)
  /\ Gone(p, "ended")
  /\ UNCHANGED <<slots, saved, banned, net, dns, history>>

\* Mutant: a slot of the same configuration is taken whoever runs in it
FindSlotUnchecked(p) ==
  LET stops == {i \in Slots : slots[i].pid = None
                              \/ slots[i].cfile = ConfigOf[p]}
  IN IF stops = {} THEN 0 ELSE Min(stops)

\* Mutant: a daemon that runs the configuration already is passed over
FindSlotAnyway(p) ==
  LET stops == {i \in Slots : slots[i].pid = None}
  IN IF stops = {} THEN 0 ELSE Min(stops)

\* The slot to take: the first that is empty, or that holds this
\* configuration and a process that no longer exists; 0 when the table is
\* full, -1 when the configuration is in use
FindSlot(p) ==
  LET stops == {i \in Slots : slots[i].pid = None
                              \/ slots[i].cfile = ConfigOf[p]}
      i     == Min(stops)
  IN IF stops = {} THEN 0
     ELSE IF slots[i].pid # None /\ Exists(slots[i].pid) THEN -1 ELSE i

\* Mutant: a table without a slot is attached to all the same
AttachAnyway(p) ==
  /\ At(p, "attach")
  /\ IF banned \/ FindSlot(p) = -1
     THEN Gone(p, "ended")
     ELSE Put(p, [proc[p] EXCEPT !.pc = "claim", !.mine = FindSlot(p)])
  /\ overlap' = (overlap \/ \E q \in Procs : At(q, "claim"))
  /\ UNCHANGED <<slots, saved, banned, world, met, unsure>>

\* shmat(), the version check and the search.  With no slot found,
\* my_instance stays null and is written through
Attach(p) ==
  /\ At(p, "attach")
  /\ LET i == FindSlot(p)
     IN CASE banned \/ i = -1 -> Gone(p, "ended")
          [] ~banned /\ i = 0 -> Gone(p, "crashed")
          [] OTHER -> Put(p, [proc[p] EXCEPT !.pc = "claim", !.mine = i])
  /\ overlap' = (overlap \/ \E q \in Procs : At(q, "claim"))
  /\ UNCHANGED <<slots, saved, banned, world, met, unsure>>

Companions(p) ==
  {q \in Procs \ {p} :
     Looping(q) /\ (proc[q].mine = proc[p].mine \/ ConfigOf[q] = ConfigOf[p])}

\* The slot that was found is filled in
Claim(p) ==
  /\ At(p, "claim")
  /\ slots' = [slots EXCEPT ![proc[p].mine] =
       [pid |-> p, cfile |-> ConfigOf[p], last |-> proc[p].parsed]]
  /\ met' = met \cup IF Companions(p) = {} THEN {}
                     ELSE Companions(p) \cup {p}
  /\ Put(p, [proc[p] EXCEPT !.pc = "check", !.parsed = None])
  /\ UNCHANGED <<saved, banned, world, overlap, unsure>>

(***************************************************************************)
(* The daemon's loop; how long it sleeps between two checks is left open    *)
(***************************************************************************)
\* getip() or get_our_visible_IPaddr() finds address a, or none
CheckWith(p, a) ==
  /\ At(p, "check") /\ ~proc[p].term
  /\ LET old == IF proc[p].fresh THEN Forced ELSE Slot(p).last
         new == a # None /\ a # old
     IN /\ slots' = [slots EXCEPT ![proc[p].mine].last = old]
        /\ Put(p, [proc[p] EXCEPT !.fresh = FALSE,
                                  !.pc = IF new THEN "update" ELSE "check",
                                  !.ip = IF new THEN a ELSE None])
  /\ UNCHANGED <<saved, banned, world, history>>

GotAddress(p) == CheckWith(p, net)
NoAddress(p) == CheckWith(p, None)

\* IPaddress is cleared after the update, whatever became of it
Updated(p, isDone, end) ==
  /\ slots' = IF isDone THEN [slots EXCEPT ![proc[p].mine].last = proc[p].ip]
              ELSE slots
  /\ Put(p, [proc[p] EXCEPT !.pc = "check", !.ip = None, !.term = @ \/ end])

Accepted(p) == ConfigOf[p] \in Known /\ proc[p].ip \notin Private

SetDns(p) ==
  dns' = IF Accepted(p)
         THEN [dns EXCEPT ![ConfigOf[p]] = proc[p].ip] ELSE dns

\* A reply for every host of the request.  A host that is refused, for what
\* it is or for a private address, counts as done (handle_dynup_error returns
\* SUCCESS for it)
Confirmed(p) ==
  /\ At(p, "update")
  /\ SetDns(p) /\ Updated(p, TRUE, FALSE)
  /\ unsure' = unsure \ {p}
  /\ UNCHANGED <<saved, banned, net, events, overlap, met>>

\* Mutant: an error counts as an update
NotReachedDone(p) ==
  /\ At(p, "update")
  /\ Updated(p, TRUE, FALSE)
  /\ UNCHANGED <<saved, banned, world, history>>

\* The service is not reached, or answers with an unknown code, or not for
\* every host: nothing is done and nothing remembered
NotReached(p) ==
  /\ At(p, "update")
  /\ Updated(p, FALSE, FALSE)
  /\ UNCHANGED <<saved, banned, world, history>>

\* The service does what it was asked and the reply is lost
ReplyLost(p) ==
  /\ At(p, "update") /\ Accepted(p)
  /\ Event
  /\ SetDns(p) /\ Updated(p, FALSE, FALSE)
  /\ unsure' = unsure \cup {p}
  /\ UNCHANGED <<saved, banned, net, overlap, met>>

\* RELEASEDISABLED: nobody with this version may start, and the daemon sends
\* SIGTERM to itself; the update counts as done
Disabled(p) ==
  /\ At(p, "update")
  /\ Event
  /\ Updated(p, TRUE, TRUE)
  /\ banned' = TRUE
  /\ UNCHANGED <<saved, net, dns, history>>

\* Mutant: only a daemon whose network is down looks at "background"
LoopEndsLate(p) ==
  /\ At(p, "check") /\ proc[p].term
  /\ IF net = None
     THEN /\ slots' = [slots EXCEPT ![proc[p].mine] = Empty]
          /\ Gone(p, "ended")
     ELSE /\ Put(p, [proc[p] EXCEPT !.pc = "update", !.ip = net])
          /\ UNCHANGED slots
  /\ UNCHANGED <<saved, banned, world, history>>

\* while (background), and save_IP
LoopEnds(p) ==
  /\ At(p, "check") /\ proc[p].term
  /\ saved' = IF ConfigOf[p] \in Writable
              THEN [saved EXCEPT ![ConfigOf[p]] = Slot(p).last] ELSE saved
  /\ slots' = [slots EXCEPT ![proc[p].mine] = Empty]
  /\ Gone(p, "ended")
  /\ UNCHANGED <<banned, world, history>>

(***************************************************************************)
(* Signals and the world                                                    *)
(***************************************************************************)
Sigterm(p) ==
  /\ Event
  /\ Exists(p) /\ ~proc[p].term
  /\ proc' = [proc EXCEPT ![p].term = TRUE]
  /\ UNCHANGED <<slots, saved, banned, net, dns, history>>

\* The processes that noip2 -K and a configuration c can find: its search
\* stops at the slot of c
Findable(c) ==
  {i \in Slots : \A j \in 1 .. i - 1 : slots[j].pid # None => slots[j].cfile # c}

\* noip2 -K finds the slot of a process that does not exist, and cleans up;
\* a process that does exist is sent a SIGTERM, as by kill
CleanSlot(i) ==
  /\ Event
  /\ \E c \in Configs \ Broken : i \in Findable(c)
  /\ slots[i].pid # None /\ ~Exists(slots[i].pid)
  /\ slots' = [slots EXCEPT ![i] = Empty]
  /\ UNCHANGED <<proc, saved, banned, net, dns, history>>

Crash(p) ==
  /\ Event
  /\ Exists(p)
  /\ Gone(p, "crashed")
  /\ UNCHANGED <<slots, saved, banned, net, dns, history>>

AddressChanges ==
  /\ Event
  /\ net' \in (Addresses \cup {None}) \ {net}
  /\ UNCHANGED <<proc, slots, saved, banned, dns, history>>

Daemon(p) ==
  \/ Count(p) \/ Attach(p) \/ Claim(p) \/ GotAddress(p) \/ NoAddress(p) \/ LoopEnds(p)
  \/ Confirmed(p) \/ NotReached(p) \/ ReplyLost(p) \/ Disabled(p)

AllOver == (\A p \in Procs : proc[p].pc \in {"ended", "crashed"})
           /\ UNCHANGED vars

Next ==
  \/ \E p \in Procs : Start(p) \/ StartFails(p) \/ Daemon(p)
                    \/ Sigterm(p) \/ Crash(p)
  \/ \E i \in Slots : CleanSlot(i)
  \/ AddressChanges
  \/ AllOver

\* Daemons run, those that have a configuration; one that keeps asking for
\* its address gets it at last, and one that keeps asking the service gets a
\* reply
Spec ==
  /\ Init /\ [][Next]_vars
  /\ \A p \in {q \in Procs : ConfigOf[q] \notin Broken} :
       WF_vars(Daemon(p)) /\ SF_vars(GotAddress(p)) /\ SF_vars(Confirmed(p))

(***************************************************************************)
(* Properties                                                               *)
(***************************************************************************)
\* The types of the variables, and a daemon that loops has a slot.
TypeOK ==
  /\ proc \in [Procs ->
       [pc : {"off", "count", "attach", "claim", "check", "update", "ended", "crashed"},
        mine : Slots \cup {0}, term : BOOLEAN, fresh : BOOLEAN,
        ip : Addresses \cup {None}, parsed : Addresses \cup {None, Forced}]]
  /\ slots \in [Slots -> [pid : Procs \cup {0, None},
                          cfile : Configs \cup {None},
                          last : Addresses \cup {None, Forced}]]
  /\ saved \in [Configs -> Addresses \cup {None, Forced}]
  /\ dns \in [Configs -> Addresses \cup {None}]
  /\ net \in Addresses \cup {None}
  /\ met \subseteq Procs /\ unsure \subseteq Procs
  /\ banned \in BOOLEAN /\ overlap \in BOOLEAN
  /\ events \in 0 .. MaxEvents
  /\ \A p \in Procs : /\ Attached(p) => proc[p].mine \in Slots
                      /\ At(p, "update") => proc[p].ip \in Addresses

\* Two daemons use the same slot only after two have looked for a slot at
\* the same time: started one after the other they are kept apart
\* (get_shm_info).
SharedSlotOnlyAfterRace ==
  ~overlap => \A p, q \in Procs :
    p # q /\ Looping(p) /\ Looping(q) => proc[p].mine # proc[q].mine

\* What a daemon that never met another remembers as set is what the service
\* has for its hosts, unless a reply was lost, or the service refuses the
\* hosts or the address or has disabled the client (dynamic_update,
\* handle_dynup_error).
KnowsService ==
  \A p \in Procs :
    (/\ Looping(p) /\ p \notin met \cup unsure
     /\ ConfigOf[p] \in Known /\ ~proc[p].term
     /\ ~proc[p].fresh /\ Slot(p).last \notin Private \cup {Forced})
      => Slot(p).last = dns[ConfigOf[p]]

\* A second daemon for a configuration that is already running is started
\* only into a slot before the first one's (the search ends at the first
\* empty slot), or in a race: behind it, it is always detected.
DetectsRunning ==
  [][\A p, q \in Procs :
       (/\ At(p, "claim") /\ proc'[p].pc = "check"
        /\ Looping(q) /\ q # p /\ ConfigOf[q] = ConfigOf[p])
         => overlap \/ proc[p].mine < proc[q].mine]_vars

\* A daemon that is sent SIGTERM ends: no daemon is left with "background"
\* reset for ever (exit_handler, run_as_background).
StopsOnTerm == []<>(\A p \in Procs : ~proc[p].term)

\* When the address stays the same, a daemon that stays up, that never met
\* another and whose last reply was not lost, gets it to the service, if the
\* service accepts its hosts and the address (run_as_background,
\* dynamic_update).
Converges ==
  \A p \in {q \in Procs : ConfigOf[q] \in Known} : \A a \in Addresses \ Private :
    <>[](Looping(p) /\ net = a /\ p \notin met \cup unsure)
      => <>[](dns[ConfigOf[p]] = a)
=============================================================================
