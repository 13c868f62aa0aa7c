---------------------------- MODULE NetInterface ----------------------------
(***************************************************************************)
(* The life of one network interface of a MuntsOS target: ifplugd runs     *)
(* ifplugd.script, which runs netstart.script or netstop.script; netconfig *)
(* runs the same two by hand; netstart.script may leave the interface to   *)
(* udhcpc, which runs udhcpc.script for every lease event; and all of them *)
(* start and kill daemons known only by the pid files under /var/run.      *)
(*                                                                         *)
(* Processes are modelled one shell command at a time.  A dead process     *)
(* gives its pid back, and the kernel may give it to the next process, so  *)
(* a pid file that outlives its daemon is a real danger here; udhcpc makes *)
(* one itself, when it goes to the background under a new pid.             *)
(***************************************************************************)
EXTENDS Naturals

CONSTANTS
  Pids,          \* process identifiers
  Runners,       \* processes that run ifplugd.script: "ifplugd", "netconfig"
  Modes,         \* how the interface can be configured
  StaticAddr,    \* the address in /etc/network.conf, or the gadget default
  Leases,        \* addresses the DHCP server may lease
  NoAddr, NoPid, \* no address, no process
  DownDelay,     \* TRUE: ifplugd's down delay outlasts a daemon's start
  MaxFlaps,      \* bound on changes of the link beat
  MaxLosses,     \* bound on leases lost
  MaxEdits       \* bound on uses of netconfig

\* What udhcpc and the runners are called may not clash with a pid.
ASSUME PidAssumption ==
  /\ NoPid \notin Pids
  /\ Runners \cap Pids = {}
  /\ NoPid \notin Runners
  /\ "ifplugd" \in Runners

ASSUME ModeAssumption == Modes \subseteq {"static", "gadget", "dhcp"}

ASSUME AddrAssumption ==
  /\ NoAddr \notin Leases
  /\ NoAddr # StaticAddr

ASSUME BoundAssumption ==
  /\ DownDelay \in BOOLEAN
  /\ MaxFlaps \in Nat
  /\ MaxLosses \in Nat
  /\ MaxEdits \in Nat

VARIABLES
  link,     \* the link beat that the kernel reports
  status,   \* the link beat ifplugd last acted on
  mode,     \* how network.conf and the driver say to configure the interface
  ifaddr,   \* the address of the interface
  proc,     \* the process table
  pidfile,  \* the pid files under /var/run
  pc,       \* where each runner is in netstart.script or netstop.script
  target,   \* the daemon a runner's netstop.script is dealing with
  overtaken, \* a stop dealt with udhcpc between its fork and its pid file
  flaps, losses, edits

vars == <<link, status, mode, ifaddr, proc, pidfile, pc, target,
          overtaken, flaps, losses, edits>>
bounds == <<flaps, losses, edits>>
-----------------------------------------------------------------------------
(***************************************************************************)
(* Processes and pid files.                                                *)
(***************************************************************************)
Daemons == {"mdnsd", "udhcpc", "udhcpd"}

\* /var/run/mdnsd.IF.pid, udhcpc.IF.pid and udhcpd.IF.pid, named by their
\* daemon, and the file udhcpc.script looks for: /var/run/mdnsd.deconfig.pid.
PidFiles == Daemons \cup {"deconfig"}

Addrs == Leases \cup {StaticAddr, NoAddr}

\* A process is its kind, its progress, the address it was started with and
\* the process that waits for it.
Process(k, s, a, parent) ==
  [kind |-> k, st |-> s, addr |-> a, parent |-> parent]

Dead == Process("none", "none", NoAddr, NoPid)

Free == {p \in Pids : proc[p] = Dead}

\* What a DHCP client goes on with when the event script it waits for is gone.
Released(st) == CASE st = "deconfig" -> "selecting"
                  [] st = "binding" -> "bound"
                  [] OTHER -> st

\* A process exits or is killed: its children are left to init, and a client
\* that waits for it goes on.
Gone(procs, p) ==
  [q \in Pids |->
     IF q = p THEN Dead
     ELSE IF procs[q].parent = p THEN [procs[q] EXCEPT !.parent = NoPid]
     ELSE IF procs[p].kind = "event" /\ procs[p].parent = q
     THEN [procs[q] EXCEPT !.st = Released(@)]
     ELSE procs[q]]

\* A DHCP client that has gone to the background: it has a new pid, and has
\* still to write it to its pid file.
Unwritten(p) == proc[p].st \in {"split", "splitBound"}

\* A daemon that has forked but not finished starting.
Starting(p) == proc[p].st \in {"forked", "joined"} \/ Unwritten(p)

\* An event script of udhcpc that has not exited.
InFlight(p) == proc[p].kind = "event"

Quiet == \A p \in Pids : ~Starting(p) /\ ~InFlight(p)

Init ==
  /\ link = "down" /\ status = "down"
  /\ mode \in Modes
  /\ ifaddr = NoAddr
  /\ proc = [p \in Pids |-> Dead]
  /\ pidfile = [f \in PidFiles |-> NoPid]
  /\ pc = [r \in Runners |-> "idle"]
  /\ target = [r \in Runners |-> "mdnsd"]
  /\ overtaken = FALSE
  /\ flaps = 0 /\ losses = 0 /\ edits = 0
-----------------------------------------------------------------------------
(***************************************************************************)
(* The runners: ifplugd (external, BusyBox) and netconfig.                 *)
(***************************************************************************)
\* The cable is plugged in or pulled.
LinkChange ==
  /\ flaps < MaxFlaps
  /\ flaps' = flaps + 1
  /\ link' = IF link = "up" THEN "down" ELSE "up"
  /\ UNCHANGED <<status, mode, ifaddr, proc, pidfile, pc, target,
                 overtaken, losses, edits>>

\* Start of "ifplugd.script IF down" and of "ifplugd.script IF up".
BeginDown(r) ==
  /\ pc' = [pc EXCEPT ![r] = "kill"]
  /\ target' = [target EXCEPT ![r] = "mdnsd"]

BeginUp(r) ==
  /\ pc' = [pc EXCEPT ![r] = "up"]
  /\ target' = target

\* Mutant: a link that goes away is noticed but netstop.script is not run.
IfplugdRunUpOnly ==
  /\ pc["ifplugd"] = "idle"
  /\ status # link
  /\ status' = link
  /\ IF link = "up" THEN BeginUp("ifplugd") ELSE UNCHANGED <<pc, target>>
  /\ UNCHANGED <<link, mode, ifaddr, proc, pidfile, overtaken, bounds>>

\* ifplugd sees the new link beat, after its down delay if it went away, and
\* runs its script; it waits for the script before it looks again.
IfplugdRun ==
  /\ pc["ifplugd"] = "idle"
  /\ status # link
  /\ link = "down" /\ DownDelay => Quiet
  /\ status' = link
  /\ IF link = "up" THEN BeginUp("ifplugd") ELSE BeginDown("ifplugd")
  /\ UNCHANGED <<link, mode, ifaddr, proc, pidfile, overtaken, bounds>>

\* netconfig: ConfigureAddress edits network.conf, then the script is run
\* with "down" and, a second later, with "up".  A gadget keeps its mode:
\* netstart.script asks the driver before it looks at the settings.
Netconfig ==
  /\ "netconfig" \in Runners
  /\ pc["netconfig"] = "idle"
  /\ edits < MaxEdits
  /\ edits' = edits + 1
  /\ IF mode = "gadget" THEN mode' = mode ELSE mode' \in Modes \ {"gadget"}
  /\ BeginDown("netconfig")
  /\ UNCHANGED <<link, status, ifaddr, proc, pidfile, overtaken,
                 flaps, losses>>

NetconfigUp ==
  /\ "netconfig" \in Runners
  /\ pc["netconfig"] = "sleep"
  /\ BeginUp("netconfig")
  /\ UNCHANGED <<link, status, mode, ifaddr, proc, pidfile, overtaken, bounds>>

\* Where a runner goes when netstop.script exits.
AfterStop(r) == IF r = "netconfig" THEN "sleep" ELSE "idle"
-----------------------------------------------------------------------------
(***************************************************************************)
(* netstart.script.                                                        *)
(***************************************************************************)
\* Read the settings and take one of the three branches.
StartBranch(r) ==
  /\ pc[r] = "up"
  /\ pc' = [pc EXCEPT ![r] = mode]
  /\ UNCHANGED <<link, status, mode, ifaddr, proc, pidfile, target, overtaken, bounds>>

\* ifconfig with the address from network.conf (or the gadget's).
StartIfconfig(r) ==
  /\ pc[r] \in {"static", "gadget"}
  /\ ifaddr' = StaticAddr
  /\ pc' = [pc EXCEPT ![r] = IF pc[r] = "gadget" THEN "udhcpd" ELSE "mdnsd"]
  /\ UNCHANGED <<link, status, mode, proc, pidfile, target, overtaken, bounds>>

\* udhcpd forks, and writes its pid file only afterwards.
StartUdhcpd(r) ==
  /\ pc[r] = "udhcpd"
  /\ \E p \in Free :
       proc' = [proc EXCEPT ![p] = Process("udhcpd", "joined", StaticAddr, NoPid)]
  /\ pc' = [pc EXCEPT ![r] = "mdnsd"]
  /\ UNCHANGED <<link, status, mode, ifaddr, pidfile, target, overtaken, bounds>>

\* "mdnsd IF hostname address" returns as soon as daemon() has forked.
StartMdnsd(r) ==
  /\ pc[r] = "mdnsd"
  /\ \E p \in Free :
       proc' = [proc EXCEPT ![p] = Process("mdnsd", "forked", StaticAddr, NoPid)]
  /\ pc' = [pc EXCEPT ![r] = "idle"]
  /\ UNCHANGED <<link, status, mode, ifaddr, pidfile, target, overtaken, bounds>>

\* udhcpc -b -p: the pid file is written first; the script waits until
\* udhcpc has gone to the background.
StartUdhcpc(r) ==
  /\ pc[r] = "dhcp"
  /\ \E p \in Free :
       /\ proc' = [proc EXCEPT ![p] = Process("udhcpc", "init", NoAddr, r)]
       /\ pidfile' = [pidfile EXCEPT !["udhcpc"] = p]
  /\ pc' = [pc EXCEPT ![r] = "wait"]
  /\ UNCHANGED <<link, status, mode, ifaddr, target, overtaken, bounds>>

StartDone(r) ==
  /\ pc[r] = "wait"
  /\ \A p \in Pids : proc[p].parent # r
  /\ pc' = [pc EXCEPT ![r] = "idle"]
  /\ UNCHANGED <<link, status, mode, ifaddr, proc, pidfile, target, overtaken, bounds>>
-----------------------------------------------------------------------------
(***************************************************************************)
(* netstop.script: for mdnsd, udhcpc and udhcpd in turn, kill the process  *)
(* the pid file names and remove the file; then take the address away.     *)
(***************************************************************************)
\* Mutants: the client is forgotten; the walk leaves the known daemons.
NextTargetSkipsUdhcpc(d) == "udhcpd"
NextTargetBeyondLast(d) == IF d = "mdnsd" THEN "udhcpc"
                           ELSE IF d = "udhcpc" THEN "udhcpd" ELSE "ntpd"

NextTarget(d) == CASE d = "mdnsd" -> "udhcpc"
                   [] d = "udhcpc" -> "udhcpd"
                   [] OTHER -> "udhcpd"

\* Mutant: the script is done after the DHCP client, a server is never killed.
AdvanceForgetsServer(r) ==
  /\ pc' = [pc EXCEPT ![r] = IF target[r] = "mdnsd" THEN "kill" ELSE "ifdown"]
  /\ target' = [target EXCEPT ![r] = NextTarget(target[r])]

\* To the next daemon, or to ifconfig after the last.
Advance(r) ==
  /\ pc' = [pc EXCEPT ![r] = IF target[r] = "udhcpd" THEN "ifdown" ELSE "kill"]
  /\ target' = [target EXCEPT ![r] = NextTarget(target[r])]

\* [ -f pidfile ] && kill -9 `cat pidfile`
StopKill(r) ==
  /\ pc[r] = "kill"
  /\ LET p == pidfile[target[r]]
     IN  IF p = NoPid
         THEN Advance(r) /\ UNCHANGED proc
         ELSE /\ proc' = Gone(proc, p)
              /\ pc' = [pc EXCEPT ![r] = "rm"]
              /\ UNCHANGED target
  /\ overtaken' = (overtaken \/ (target[r] = "udhcpc" /\ \E p \in Pids : Unwritten(p)))
  /\ UNCHANGED <<link, status, mode, ifaddr, pidfile, bounds>>

\* Mutant: the pid file is left behind.
StopRemoveNothing(r) ==
  /\ pc[r] = "rm"
  /\ Advance(r)
  /\ UNCHANGED <<link, status, mode, ifaddr, proc, pidfile, overtaken, bounds>>

\* rm -f pidfile
StopRemove(r) ==
  /\ pc[r] = "rm"
  /\ pidfile' = [pidfile EXCEPT ![target[r]] = NoPid]
  /\ Advance(r)
  /\ UNCHANGED <<link, status, mode, ifaddr, proc, overtaken, bounds>>

\* Mutant: the daemons are killed but the interface keeps its address.
StopIfconfigKeepsAddress(r) ==
  /\ pc[r] = "ifdown"
  /\ pc' = [pc EXCEPT ![r] = AfterStop(r)]
  /\ UNCHANGED <<link, status, mode, ifaddr, proc, pidfile, target, overtaken, bounds>>

\* ifconfig IF 0.0.0.0 down
StopIfconfig(r) ==
  /\ pc[r] = "ifdown"
  /\ ifaddr' = NoAddr
  /\ pc' = [pc EXCEPT ![r] = AfterStop(r)]
  /\ UNCHANGED <<link, status, mode, proc, pidfile, target, overtaken, bounds>>
-----------------------------------------------------------------------------
(***************************************************************************)
(* mdnsd (and udhcpd) starting in the background.                          *)
(***************************************************************************)
\* mdnsd_start joins the multicast group on its address.  The kernel
\* refuses if no interface has that address, and mdnsd exits.
MdnsdJoin(p) ==
  /\ proc[p].kind = "mdnsd" /\ proc[p].st = "forked"
  /\ proc' = [proc EXCEPT ![p] =
                IF @.addr = ifaddr THEN [@ EXCEPT !.st = "joined"] ELSE Dead]
  /\ UNCHANGED <<link, status, mode, ifaddr, pidfile, pc, target, overtaken, bounds>>

WritePidFile(p) ==
  /\ proc[p].st = "joined"
  /\ pidfile' = [pidfile EXCEPT ![proc[p].kind] = p]
  /\ proc' = [proc EXCEPT ![p].st = "running"]
  /\ UNCHANGED <<link, status, mode, ifaddr, pc, target, overtaken, bounds>>
-----------------------------------------------------------------------------
(***************************************************************************)
(* udhcpc (external) and its event script.  It waits for each script, so   *)
(* one client has one script at a time; but a script outlives a client     *)
(* that is killed.                                                         *)
(***************************************************************************)
RunEvent(p, st, event, addr) ==
  /\ \E q \in Free :
       proc' = [proc EXCEPT ![p].st = st,
                            ![q] = Process("event", event, addr, p)]
  /\ UNCHANGED <<link, status, mode, ifaddr, pidfile, pc, target, overtaken>>

\* udhcpc runs "udhcpc.script deconfig" when it starts...
UdhcpcBegin(p) ==
  /\ proc[p].kind = "udhcpc" /\ proc[p].st = "init"
  /\ RunEvent(p, "deconfig", "deconfig", NoAddr)
  /\ UNCHANGED bounds

\* ... and when its lease expires or the server takes it back.
LeaseLost(p) ==
  /\ proc[p].kind = "udhcpc" /\ proc[p].st = "bound"
  /\ proc[p].parent = NoPid
  /\ losses < MaxLosses
  /\ losses' = losses + 1
  /\ RunEvent(p, "deconfig", "deconfig", NoAddr)
  /\ UNCHANGED <<flaps, edits>>

\* An answer of the DHCP server: "udhcpc.script bound".
Lease(p) ==
  /\ proc[p].kind = "udhcpc" /\ proc[p].st = "selecting"
  /\ link = "up"
  /\ \E a \in Leases : RunEvent(p, "binding", "bound", a)
  /\ UNCHANGED bounds

\* Mutant: no -b, only a lease sends udhcpc to the background.
UdhcpcForeground(p) ==
  /\ proc[p].kind = "udhcpc" /\ proc[p].st = "bound"
  /\ proc[p].parent \in Runners
  /\ \E q \in Free :
       proc' = [Gone(proc, p) EXCEPT
                  ![q] = Process("udhcpc", "splitBound", NoAddr, NoPid)]
  /\ UNCHANGED <<link, status, mode, ifaddr, pidfile, pc, target, overtaken, bounds>>

\* udhcpc goes to the background, once: with its first lease, or because of -b
\* when there is no answer.  It forks; the script was waiting for the parent,
\* which exits, and the child goes on under a pid of its own.
UdhcpcBackground(p) ==
  /\ proc[p].kind = "udhcpc" /\ proc[p].st \in {"selecting", "bound"}
  /\ proc[p].parent \in Runners
  /\ LET st == IF proc[p].st = "bound" THEN "splitBound" ELSE "split"
     IN  \E q \in Free :
           proc' = [Gone(proc, p) EXCEPT ![q] = Process("udhcpc", st, NoAddr, NoPid)]
  /\ UNCHANGED <<link, status, mode, ifaddr, pidfile, pc, target, overtaken, bounds>>

\* What the child was about to do when it forked.
Rewritten(st) == IF st = "splitBound" THEN "bound" ELSE "selecting"

\* Mutant: the child leaves the pid file of its parent as it is.
RewriteNothing(p) ==
  /\ Unwritten(p)
  /\ proc' = [proc EXCEPT ![p].st = Rewritten(@)]
  /\ UNCHANGED <<link, status, mode, ifaddr, pidfile, pc, target, overtaken, bounds>>

\* The child writes its pid over its parent's, and carries on.
RewritePidFile(p) ==
  /\ Unwritten(p)
  /\ pidfile' = [pidfile EXCEPT !["udhcpc"] = p]
  /\ proc' = [proc EXCEPT ![p].st = Rewritten(@)]
  /\ UNCHANGED <<link, status, mode, ifaddr, pc, target, overtaken, bounds>>

\* deconfig, first command: the script looks for mdnsd.$1.pid, but $1 is the
\* event, "deconfig", and the interface is in $interface.
DeconfigKill(q) ==
  /\ proc[q].kind = "event" /\ proc[q].st = "deconfig"
  /\ LET p == pidfile["deconfig"]
         procs == IF p = NoPid THEN proc ELSE Gone(proc, p)
     IN  proc' = [procs EXCEPT ![q].st = "ifdown"]
  /\ pidfile' = [pidfile EXCEPT !["deconfig"] = NoPid]
  /\ UNCHANGED <<link, status, mode, ifaddr, pc, target, overtaken, bounds>>

\* deconfig, last command: ifconfig IF 0.0.0.0
DeconfigIfconfig(q) ==
  /\ proc[q].kind = "event" /\ proc[q].st = "ifdown"
  /\ ifaddr' = NoAddr
  /\ proc' = Gone(proc, q)
  /\ UNCHANGED <<link, status, mode, pidfile, pc, target, overtaken, bounds>>

\* bound: ifconfig IF $ip ...
BoundIfconfig(q) ==
  /\ proc[q].kind = "event" /\ proc[q].st = "bound"
  /\ ifaddr' = proc[q].addr
  /\ proc' = [proc EXCEPT ![q].st = "mdnsd"]
  /\ UNCHANGED <<link, status, mode, pidfile, pc, target, overtaken, bounds>>

\* ... and mdnsd IF hostname $ip.
BoundMdnsd(q) ==
  /\ proc[q].kind = "event" /\ proc[q].st = "mdnsd"
  /\ \E m \in Free :
       proc' = [Gone(proc, q) EXCEPT
                  ![m] = Process("mdnsd", "forked", proc[q].addr, NoPid)]
  /\ UNCHANGED <<link, status, mode, ifaddr, pidfile, pc, target, overtaken, bounds>>
-----------------------------------------------------------------------------
Netstart(r) ==
  \/ StartBranch(r) \/ StartIfconfig(r) \/ StartUdhcpd(r)
  \/ StartMdnsd(r) \/ StartUdhcpc(r) \/ StartDone(r)

Netstop(r) == StopKill(r) \/ StopRemove(r) \/ StopIfconfig(r)

Daemon(p) == MdnsdJoin(p) \/ WritePidFile(p)

Udhcpc(p) ==
  \/ UdhcpcBegin(p) \/ LeaseLost(p) \/ Lease(p)
  \/ UdhcpcBackground(p) \/ RewritePidFile(p)

Event(q) ==
  \/ DeconfigKill(q) \/ DeconfigIfconfig(q)
  \/ BoundIfconfig(q) \/ BoundMdnsd(q)

Idle == \A r \in Runners : pc[r] = "idle"

\* With no script running the system may stay as it is for ever; anywhere
\* else a state without a successor is a deadlock.
Rest == Quiet /\ Idle /\ UNCHANGED vars

Next ==
  \/ LinkChange \/ IfplugdRun \/ Netconfig \/ NetconfigUp \/ Rest
  \/ \E r \in Runners : Netstart(r) \/ Netstop(r)
  \/ \E p \in Pids : Daemon(p) \/ Udhcpc(p) \/ Event(p)

Spec == Init /\ [][Next]_vars

(***************************************************************************)
(* Fairness: a started script or daemon is scheduled until it is done, and *)
(* ifplugd keeps polling the link.  Nothing is assumed of the cable, of    *)
(* the DHCP server or of the user.                                         *)
(***************************************************************************)
Fairness ==
  /\ WF_vars(IfplugdRun) /\ WF_vars(NetconfigUp)
  /\ \A r \in Runners : WF_vars(Netstart(r) \/ Netstop(r))
  /\ \A p \in Pids :
       /\ WF_vars(Daemon(p)) /\ WF_vars(Event(p))
       /\ WF_vars(UdhcpcBegin(p) \/ UdhcpcBackground(p) \/ RewritePidFile(p))

FairSpec == Spec /\ Fairness
-----------------------------------------------------------------------------
Settings == {"static", "gadget", "dhcp"}
Steps == {"idle", "up", "udhcpd", "mdnsd", "wait",
          "kill", "rm", "ifdown", "sleep"} \cup Settings
Progress == {"none", "forked", "joined", "running", "init", "deconfig",
             "selecting", "binding", "bound", "split", "splitBound",
             "ifdown", "mdnsd"}

ProcessType ==
  [kind : Daemons \cup {"none", "event"}, st : Progress,
   addr : Addrs, parent : Pids \cup Runners \cup {NoPid}]

\* Type invariant.
TypeOK ==
  /\ link \in {"up", "down"} /\ status \in {"up", "down"}
  /\ mode \in Modes
  /\ ifaddr \in Addrs
  /\ proc \in [Pids -> ProcessType]
  /\ pidfile \in [PidFiles -> Pids \cup {NoPid}]
  /\ pc \in [Runners -> Steps]
  /\ target \in [Runners -> Daemons]
  /\ overtaken \in BOOLEAN
  /\ flaps \in Nat /\ losses \in Nat /\ edits \in Nat

\* The one race that spoils the pid files: udhcpc -b has returned, ifplugd is
\* free to run netstop.script, and the client has not yet rewritten its file.
\* A down delay leaves the client time for that, and then there is no excuse.
Excused == overtaken /\ ~DownDelay

\* A pid file names a live daemon of its own kind, except between the kill
\* and the rm of a netstop.script, and while a client that has forked has still
\* to write it.  This is what makes kill -9 `cat file` hit the daemon it is
\* meant for although pids are used again (netstop.script), until a stop
\* overtakes a forking client.
PidFilesAreTrue ==
  Excused \/
  \A d \in Daemons :
    \/ pidfile[d] = NoPid
    \/ proc[pidfile[d]].kind = d
    \/ \E r \in Runners : pc[r] = "rm" /\ target[r] = d
    \/ d = "udhcpc" /\ \E p \in Pids : Unwritten(p)

\* When ifplugd runs the scripts one after the other, an interface never has
\* two DHCP clients, which would fight over its address (netstart.script
\* starts one, netstop.script kills the one its pid file names), unless a stop
\* has overtaken a forking client, which it then could not kill.
AtMostOneDhcpClient ==
  Excused \/
  \A p, q \in Pids :
    proc[p].kind = "udhcpc" /\ proc[q].kind = "udhcpc" => p = q

\* The address that the interface is left with is one that a live mdnsd
\* announces, whatever interleaving of scripts, lease events and daemon starts
\* led there (netstart.script, udhcpc.script, netstop.script, mdnsd.c).
AdvertisesAddress ==
  Quiet /\ (\A r \in Runners : pc[r] \in {"idle", "sleep"}) /\ ifaddr # NoAddr
    => \E p \in Pids : proc[p].kind = "mdnsd" /\ proc[p].addr = ifaddr

\* "Kill processes bound to this interface" (netstop.script:37): once ifplugd
\* has acted on the loss of the link and no script runs, no daemon of the
\* interface is left.
StoppedClean ==
  Quiet /\ Idle /\ status = "down" => \A p \in Pids : proc[p] = Dead

\* Every script ifplugd runs comes to an end, with or without a DHCP server:
\* udhcpc -b does not hold netstart.script up for ever.
ScriptsFinish == pc["ifplugd"] # "idle" ~> pc["ifplugd"] = "idle"

\* A link that stays up gets the interface its address, and one that stays
\* down takes it away (static and gadget modes).
FollowsLink ==
  /\ <>[](link = "up") => <>[](ifaddr # NoAddr)
  /\ <>[](link = "down") => <>[](ifaddr = NoAddr)
=============================================================================
