------------------------- MODULE NetInterfaceProofs -------------------------
(***************************************************************************)
(* What holds of NetInterface for any set of pids, any addresses and any   *)
(* number of link changes and lost leases: it is well typed, and no        *)
(* address is left that nobody announces.  When ifplugd alone runs the     *)
(* scripts, pid files tell the truth and there is never a second DHCP      *)
(* client, until a stop overtakes a client that forks, which ifplugd's     *)
(* down delay keeps from happening; without a client, a stop leaves        *)
(* nothing.                                                                *)
(***************************************************************************)
EXTENDS NetInterface, TLAPS

\* Only ifplugd runs the scripts.
Serial == Runners = {"ifplugd"}

\* Only a daemon that forks into the background is ever in state "joined".
JoinedIsDaemon ==
  \A p \in Pids : proc[p].st = "joined" => proc[p].kind \in {"mdnsd", "udhcpd"}

\* What an event script is a child of is a DHCP client.
ParentsAreClients ==
  \A q \in Pids :
    proc[q].kind = "event" /\ proc[q].parent \in Pids
      => proc[proc[q].parent].kind = "udhcpc"

\* Nothing ever writes /var/run/mdnsd.deconfig.pid.
NoDeconfigFile == pidfile["deconfig"] = NoPid

\* Only a client that goes to the background has yet to rewrite its pid file.
UnwrittenIsClient == \A p \in Pids : Unwritten(p) => proc[p].kind = "udhcpc"

\* ifplugd runs netstart.script after an up and netstop.script after a down.
Starts == {"up", "static", "gadget", "dhcp", "udhcpd", "mdnsd"}

Stopping == pc["ifplugd"] \in {"kill", "rm", "ifdown"}

ScriptFitsStatus ==
  /\ pc["ifplugd"] \in Starts \cup {"wait"} => status = "up"
  /\ Stopping => status = "down"
  /\ pc["ifplugd"] # "sleep"

\* netstart.script waits for the process it has started ...
WaitedFor == \A p \in Pids : proc[p].parent = "ifplugd" => pc["ifplugd"] = "wait"

\* ... so that a down delay, which begins later, keeps every stop from
\* overtaking a client that forks.
DelayPreventsRace ==
  DownDelay => ~overtaken /\ (Stopping => \A p \in Pids : ~Unwritten(p))

\* PidFilesAreTrue, and the daemon named has finished starting.
Named(d) ==
  \/ pidfile[d] = NoPid
  \/ /\ proc[pidfile[d]].kind = d
     /\ d # "udhcpc" => proc[pidfile[d]].st = "running"
  \/ pc["ifplugd"] = "rm" /\ target["ifplugd"] = d
  \/ d = "udhcpc" /\ \E p \in Pids : Unwritten(p)

FilesNamed == \A d \in Daemons : Named(d)

\* The one client there can be is named by the pid file of udhcpc, or will be.
OneClient ==
  \A p, q \in Pids : proc[p].kind = "udhcpc" /\ proc[q].kind = "udhcpc" => p = q

ClientsNamed ==
  \A p \in Pids :
    proc[p].kind = "udhcpc" => pidfile["udhcpc"] = p \/ Unwritten(p)

NoClient == \A p \in Pids : proc[p].kind # "udhcpc"

\* Where in the two scripts the client is known to be gone, file and all ...
ClientCleared ==
  \/ pc["ifplugd"] = "idle" /\ status = "down"
  \/ pc["ifplugd"] \in Starts
  \/ pc["ifplugd"] \in {"kill", "rm"} /\ target["ifplugd"] = "udhcpd"
  \/ pc["ifplugd"] = "ifdown"

ClearedMeansGone == ClientCleared => pidfile["udhcpc"] = NoPid /\ NoClient

\* ... and where it is dead but its file is still there.
KilledMeansNoClient ==
  pc["ifplugd"] = "rm" /\ target["ifplugd"] = "udhcpc" => NoClient

\* What holds whatever has happened, and what a stop that overtakes a forking
\* client spoils.
BaseInv ==
  /\ TypeOK
  /\ JoinedIsDaemon /\ UnwrittenIsClient /\ ParentsAreClients /\ NoDeconfigFile
  /\ ScriptFitsStatus /\ WaitedFor /\ DelayPreventsRace

NamesInv ==
  /\ FilesNamed /\ ClientsNamed /\ OneClient
  /\ ClearedMeansGone /\ KilledMeansNoClient

IInv == BaseInv /\ (overtaken \/ NamesInv)
-----------------------------------------------------------------------------
(***************************************************************************)
(* The operators on the process table.                                     *)
(***************************************************************************)
\* A process record keeps its type when a field is given a value of the
\* field's type (every EXCEPT on the process table in NetInterface).
LEMMA ProcessTyping ==
  ASSUME NEW k \in Daemons \cup {"none", "event"}, NEW s \in Progress,
         NEW a \in Addrs, NEW t \in Pids \cup Runners \cup {NoPid}
  PROVE  Process(k, s, a, t) \in ProcessType
  BY DEF Process, ProcessType

LEMMA DeadTyping == Dead \in ProcessType
  BY ProcessTyping DEF Dead, Progress, Addrs, Daemons

\* A client that is released goes on; any other process is left as it is.
LEMMA ReleasedEffect ==
  ASSUME NEW s
  PROVE  \/ Released(s) = s
         \/ s \in {"deconfig", "binding"} /\ Released(s) \in {"selecting", "bound"}
  BY DEF Released

\* What the end of process p, exit or kill, does to each process.
LEMMA GoneEffect ==
  ASSUME NEW f \in [Pids -> ProcessType], NEW p \in Pids
  PROVE  /\ Gone(f, p) \in [Pids -> ProcessType]
         /\ Gone(f, p)[p] = Dead
         /\ \A q \in Pids \ {p} :
              /\ Gone(f, p)[q].kind = f[q].kind
              /\ Gone(f, p)[q].addr = f[q].addr
              /\ Gone(f, p)[q].parent = IF f[q].parent = p THEN NoPid ELSE f[q].parent
              /\ \/ Gone(f, p)[q].st = f[q].st
                 \/ /\ f[p].kind = "event" /\ f[p].parent = q
                    /\ f[q].st \in {"deconfig", "binding"}
                    /\ Gone(f, p)[q].st \in {"selecting", "bound"}
  <1>1. \A q \in Pids : f[q] \in ProcessType
    OBVIOUS
  <1>2. ASSUME NEW q \in Pids \ {p}
        PROVE  /\ Gone(f, p)[q] \in ProcessType
               /\ Gone(f, p)[q].kind = f[q].kind
               /\ Gone(f, p)[q].addr = f[q].addr
               /\ Gone(f, p)[q].parent = IF f[q].parent = p THEN NoPid ELSE f[q].parent
               /\ \/ Gone(f, p)[q].st = f[q].st
                  \/ /\ f[p].kind = "event" /\ f[p].parent = q
                     /\ f[q].st \in {"deconfig", "binding"}
                     /\ Gone(f, p)[q].st \in {"selecting", "bound"}
    <2>1. f[q] \in ProcessType
      BY <1>1
    <2>2. CASE f[q].parent = p
      <3>1. Gone(f, p)[q] = [f[q] EXCEPT !.parent = NoPid]
        BY <2>2 DEF Gone
      <3>2. QED
        BY <2>1, <2>2, <3>1 DEF ProcessType
    <2>3. CASE f[q].parent # p /\ f[p].kind = "event" /\ f[p].parent = q
      <3>1. Gone(f, p)[q] = [f[q] EXCEPT !.st = Released(f[q].st)]
        BY <2>3 DEF Gone
      <3>2. Released(f[q].st) \in Progress
        BY <2>1, ReleasedEffect DEF ProcessType, Progress
      <3>3. QED
        BY <2>1, <2>3, <3>1, <3>2, ReleasedEffect DEF ProcessType
    <2>4. CASE f[q].parent # p /\ ~(f[p].kind = "event" /\ f[p].parent = q)
      <3>1. Gone(f, p)[q] = f[q]
        BY <2>4 DEF Gone
      <3>2. QED
        BY <2>1, <2>4, <3>1
    <2>5. QED
      BY <2>2, <2>3, <2>4
  <1>3. Gone(f, p)[p] = Dead
    BY DEF Gone
  <1>4. Gone(f, p) \in [Pids -> ProcessType]
    <2>1. Gone(f, p) = [q \in Pids |-> Gone(f, p)[q]]
      BY DEF Gone
    <2>2. QED
      BY <1>2, <1>3, <2>1, DeadTyping
  <1>5. QED
    BY <1>2, <1>3, <1>4
-----------------------------------------------------------------------------
(***************************************************************************)
(* Type correctness.                                                       *)
(***************************************************************************)
LEMMA InitTypeOK == Init => TypeOK
  <1> SUFFICES ASSUME Init PROVE TypeOK
    OBVIOUS
  <1>1. proc \in [Pids -> ProcessType]
    BY DeadTyping DEF Init
  <1>2. pidfile \in [PidFiles -> Pids \cup {NoPid}]
    BY DEF Init
  <1>3. pc \in [Runners -> Steps] /\ target \in [Runners -> Daemons]
    BY DEF Init, Steps, Daemons
  <1>4. QED
    BY <1>1, <1>2, <1>3 DEF Init, TypeOK, Addrs

\* A process forked into a free slot keeps the table well typed.
LEMMA ForkTyping ==
  ASSUME TypeOK, NEW p \in Pids, NEW x \in ProcessType
  PROVE  [proc EXCEPT ![p] = x] \in [Pids -> ProcessType]
  BY DEF TypeOK

\* The runners' own steps keep the types.
LEMMA RunnerTypeOK ==
  ASSUME TypeOK, NEW r \in Runners, Netstart(r) \/ Netstop(r)
  PROVE  TypeOK'
  <1>1. CASE StartBranch(r)
    BY <1>1, ModeAssumption DEF StartBranch, TypeOK, bounds, Steps, Settings
  <1>2. CASE StartIfconfig(r)
    BY <1>2 DEF StartIfconfig, TypeOK, bounds, Steps, Addrs
  <1>3. CASE StartUdhcpd(r)
    <2>1. PICK p \in Free :
            proc' = [proc EXCEPT ![p] = Process("udhcpd", "joined", StaticAddr, NoPid)]
      BY <1>3 DEF StartUdhcpd
    <2>2. Process("udhcpd", "joined", StaticAddr, NoPid) \in ProcessType
      BY ProcessTyping DEF Daemons, Progress, Addrs
    <2>3. proc' \in [Pids -> ProcessType]
      BY <2>1, <2>2, ForkTyping DEF Free
    <2>4. QED
      BY <1>3, <2>3 DEF StartUdhcpd, TypeOK, bounds, Steps
  <1>4. CASE StartMdnsd(r)
    <2>1. PICK p \in Free :
            proc' = [proc EXCEPT ![p] = Process("mdnsd", "forked", StaticAddr, NoPid)]
      BY <1>4 DEF StartMdnsd
    <2>2. Process("mdnsd", "forked", StaticAddr, NoPid) \in ProcessType
      BY ProcessTyping DEF Daemons, Progress, Addrs
    <2>3. proc' \in [Pids -> ProcessType]
      BY <2>1, <2>2, ForkTyping DEF Free
    <2>4. QED
      BY <1>4, <2>3 DEF StartMdnsd, TypeOK, bounds, Steps
  <1>5. CASE StartUdhcpc(r)
    <2>1. PICK p \in Free :
            /\ proc' = [proc EXCEPT ![p] = Process("udhcpc", "init", NoAddr, r)]
            /\ pidfile' = [pidfile EXCEPT !["udhcpc"] = p]
      BY <1>5 DEF StartUdhcpc
    <2>2. Process("udhcpc", "init", NoAddr, r) \in ProcessType
      BY ProcessTyping DEF Daemons, Progress, Addrs
    <2>3. proc' \in [Pids -> ProcessType]
      BY <2>1, <2>2, ForkTyping DEF Free
    <2>4. pidfile' \in [PidFiles -> Pids \cup {NoPid}]
      BY <2>1 DEF TypeOK, Free
    <2>5. QED
      BY <1>5, <2>3, <2>4 DEF StartUdhcpc, TypeOK, bounds, Steps
  <1>6. CASE StartDone(r)
    BY <1>6 DEF StartDone, TypeOK, bounds, Steps
  <1>7. CASE StopKill(r)
    <2>1. CASE pidfile[target[r]] = NoPid
      BY <1>7, <2>1 DEF StopKill, Advance, NextTarget, TypeOK, bounds, Steps, Daemons
    <2>2. CASE pidfile[target[r]] # NoPid
      <3>1. pidfile[target[r]] \in Pids
        BY <2>2 DEF TypeOK, PidFiles
      <3>2. proc' \in [Pids -> ProcessType]
        BY <1>7, <2>2, <3>1, GoneEffect DEF StopKill, TypeOK
      <3>3. QED
        BY <1>7, <2>2, <3>2 DEF StopKill, TypeOK, bounds, Steps
    <2>3. QED
      BY <2>1, <2>2
  <1>8. CASE StopRemove(r)
    BY <1>8 DEF StopRemove, Advance, NextTarget, TypeOK, bounds, Steps, Daemons
  <1>9. CASE StopIfconfig(r)
    BY <1>9 DEF StopIfconfig, AfterStop, TypeOK, bounds, Steps, Addrs
  <1>10. QED
    BY <1>1, <1>2, <1>3, <1>4, <1>5, <1>6, <1>7, <1>8, <1>9 DEF Netstart, Netstop

\* RunEvent forks an event script and makes its client wait for it.
LEMMA RunEventTyping ==
  ASSUME TypeOK, NEW p \in Pids, NEW s \in Progress, NEW e \in Progress,
         NEW a \in Addrs, RunEvent(p, s, e, a)
  PROVE  proc' \in [Pids -> ProcessType]
  <1>1. PICK q \in Free :
          proc' = [proc EXCEPT ![p].st = s, ![q] = Process("event", e, a, p)]
    BY DEF RunEvent
  <1>2. Process("event", e, a, p) \in ProcessType
    BY ProcessTyping
  <1>3. [proc[p] EXCEPT !.st = s] \in ProcessType
    BY DEF TypeOK, ProcessType
  <1>4. QED
    BY <1>1, <1>2, <1>3 DEF TypeOK, Free

\* The steps of the daemons, of udhcpc and of its scripts keep the types.
LEMMA ProcessTypeOK ==
  ASSUME TypeOK, NEW p \in Pids, Daemon(p) \/ Udhcpc(p) \/ Event(p)
  PROVE  TypeOK'
  <1>0. proc[p] \in ProcessType
    BY DEF TypeOK
  <1>1. CASE MdnsdJoin(p)
    <2>1. [proc[p] EXCEPT !.st = "joined"] \in ProcessType
      BY <1>0 DEF ProcessType, Progress
    <2>2. proc' \in [Pids -> ProcessType]
      BY <1>1, <2>1, DeadTyping, ForkTyping DEF MdnsdJoin
    <2>3. QED
      BY <1>1, <2>2 DEF MdnsdJoin, TypeOK, bounds
  <1>2. CASE WritePidFile(p)
    <2>1. [proc[p] EXCEPT !.st = "running"] \in ProcessType
      BY <1>0 DEF ProcessType, Progress
    <2>2. proc' = [proc EXCEPT ![p] = [proc[p] EXCEPT !.st = "running"]]
      BY <1>2 DEF WritePidFile
    <2>3. proc' \in [Pids -> ProcessType]
      BY <2>1, <2>2, ForkTyping
    <2>4. pidfile' \in [PidFiles -> Pids \cup {NoPid}]
      BY <1>2 DEF WritePidFile, TypeOK
    <2>5. QED
      BY <1>2, <2>3, <2>4 DEF WritePidFile, TypeOK, bounds
  <1>3. CASE UdhcpcBegin(p)
    <2>1. proc' \in [Pids -> ProcessType]
      BY <1>3, RunEventTyping DEF UdhcpcBegin, Progress, Addrs
    <2>2. QED
      BY <1>3, <2>1 DEF UdhcpcBegin, RunEvent, TypeOK, bounds
  <1>4. CASE LeaseLost(p)
    <2>1. proc' \in [Pids -> ProcessType]
      BY <1>4, RunEventTyping DEF LeaseLost, Progress, Addrs
    <2>2. QED
      BY <1>4, <2>1 DEF LeaseLost, RunEvent, TypeOK
  <1>5. CASE Lease(p)
    <2>1. proc' \in [Pids -> ProcessType]
      <3>1. PICK a \in Leases : RunEvent(p, "binding", "bound", a)
        BY <1>5 DEF Lease
      <3>2. QED
        BY <3>1, RunEventTyping DEF Progress, Addrs
    <2>2. QED
      BY <1>5, <2>1 DEF Lease, RunEvent, TypeOK, bounds
  <1>6. CASE UdhcpcBackground(p)
    <2>1. PICK q \in Free, st \in {"split", "splitBound"} :
            proc' = [Gone(proc, p) EXCEPT ![q] = Process("udhcpc", st, NoAddr, NoPid)]
      BY <1>6 DEF UdhcpcBackground
    <2>2. Process("udhcpc", st, NoAddr, NoPid) \in ProcessType
      BY ProcessTyping DEF Daemons, Progress, Addrs
    <2>3. Gone(proc, p) \in [Pids -> ProcessType]
      BY GoneEffect DEF TypeOK
    <2>4. proc' \in [Pids -> ProcessType]
      BY <2>1, <2>2, <2>3
    <2>5. QED
      BY <1>6, <2>4 DEF UdhcpcBackground, TypeOK, bounds
  <1>7. CASE DeconfigKill(p)
    <2> DEFINE d == pidfile["deconfig"]
               procs == IF d = NoPid THEN proc ELSE Gone(proc, d)
    <2>1. procs \in [Pids -> ProcessType]
      BY GoneEffect DEF TypeOK, PidFiles
    <2>2. [procs[p] EXCEPT !.st = "ifdown"] \in ProcessType
      BY <2>1 DEF ProcessType, Progress
    <2>3. proc' = [procs EXCEPT ![p].st = "ifdown"]
      BY <1>7 DEF DeconfigKill
    <2>4. proc' \in [Pids -> ProcessType]
      BY <2>1, <2>2, <2>3
    <2>5. pidfile' \in [PidFiles -> Pids \cup {NoPid}]
      BY <1>7 DEF DeconfigKill, TypeOK
    <2>6. QED
      BY <1>7, <2>4, <2>5 DEF DeconfigKill, TypeOK, bounds
  <1>8. CASE DeconfigIfconfig(p)
    <2>1. proc' \in [Pids -> ProcessType]
      BY <1>8, GoneEffect DEF DeconfigIfconfig, TypeOK
    <2>2. QED
      BY <1>8, <2>1 DEF DeconfigIfconfig, TypeOK, bounds, Addrs
  <1>9. CASE BoundIfconfig(p)
    <2>1. [proc[p] EXCEPT !.st = "mdnsd"] \in ProcessType
      BY <1>0 DEF ProcessType, Progress
    <2>2. proc' = [proc EXCEPT ![p] = [proc[p] EXCEPT !.st = "mdnsd"]]
      BY <1>9 DEF BoundIfconfig
    <2>3. proc' \in [Pids -> ProcessType]
      BY <2>1, <2>2, ForkTyping
    <2>4. proc[p].addr \in Addrs
      BY <1>0 DEF ProcessType
    <2>5. QED
      BY <1>9, <2>3, <2>4 DEF BoundIfconfig, TypeOK, bounds
  <1>10. CASE BoundMdnsd(p)
    <2>1. PICK m \in Free :
            proc' = [Gone(proc, p) EXCEPT
                       ![m] = Process("mdnsd", "forked", proc[p].addr, NoPid)]
      BY <1>10 DEF BoundMdnsd
    <2>2. Process("mdnsd", "forked", proc[p].addr, NoPid) \in ProcessType
      BY <1>0, ProcessTyping DEF Daemons, Progress, ProcessType
    <2>3. Gone(proc, p) \in [Pids -> ProcessType]
      BY GoneEffect DEF TypeOK
    <2>4. proc' \in [Pids -> ProcessType]
      BY <2>1, <2>2, <2>3
    <2>5. QED
      BY <1>10, <2>4 DEF BoundMdnsd, TypeOK, bounds
  <1>11. CASE RewritePidFile(p)
    <2>1. [proc[p] EXCEPT !.st = Rewritten(proc[p].st)] \in ProcessType
      BY <1>0 DEF ProcessType, Progress, Rewritten
    <2>2. proc' = [proc EXCEPT ![p] = [proc[p] EXCEPT !.st = Rewritten(proc[p].st)]]
      BY <1>11 DEF RewritePidFile
    <2>3. proc' \in [Pids -> ProcessType]
      BY <2>1, <2>2, ForkTyping
    <2>4. pidfile' \in [PidFiles -> Pids \cup {NoPid}]
      BY <1>11 DEF RewritePidFile, TypeOK
    <2>5. QED
      BY <1>11, <2>3, <2>4 DEF RewritePidFile, TypeOK, bounds
  <1>12. QED
    BY <1>1, <1>2, <1>3, <1>4, <1>5, <1>6, <1>7, <1>8, <1>9, <1>10, <1>11
       DEF Daemon, Udhcpc, Event

LEMMA NextTypeOK == TypeOK /\ [Next]_vars => TypeOK'
  <1> SUFFICES ASSUME TypeOK, [Next]_vars PROVE TypeOK'
    OBVIOUS
  <1>1. CASE LinkChange
    BY <1>1 DEF LinkChange, TypeOK
  <1>2. CASE IfplugdRun
    BY <1>2, PidAssumption DEF IfplugdRun, BeginUp, BeginDown, TypeOK, bounds, Steps, Daemons
  <1>3. CASE Netconfig
    BY <1>3 DEF Netconfig, BeginDown, TypeOK, Steps, Daemons
  <1>4. CASE NetconfigUp
    BY <1>4 DEF NetconfigUp, BeginUp, TypeOK, bounds, Steps
  <1>5. CASE Rest \/ UNCHANGED vars
    BY <1>5 DEF Rest, TypeOK, vars
  <1>6. CASE \E r \in Runners : Netstart(r) \/ Netstop(r)
    BY <1>6, RunnerTypeOK
  <1>7. CASE \E p \in Pids : Daemon(p) \/ Udhcpc(p) \/ Event(p)
    BY <1>7, ProcessTypeOK
  <1>8. QED
    BY <1>1, <1>2, <1>3, <1>4, <1>5, <1>6, <1>7 DEF Next

\* Every variable keeps its type, whoever runs the scripts.
THEOREM TypeCorrect == Spec => []TypeOK
  BY InitTypeOK, NextTypeOK, PTL DEF Spec
-----------------------------------------------------------------------------
(***************************************************************************)
(* The inductive invariant, when ifplugd alone runs the scripts.           *)
(***************************************************************************)
LEMMA DeadFields ==
  Dead.kind = "none" /\ Dead.st = "none" /\ Dead.parent = NoPid
  BY DEF Dead, Process

LEMMA InitIInv == Serial /\ Init => IInv
  BY InitTypeOK, PidAssumption, DeadFields
     DEF Serial, Init, IInv, BaseInv, JoinedIsDaemon, UnwrittenIsClient, Unwritten,
         ParentsAreClients, NoDeconfigFile, ScriptFitsStatus, Starts, Stopping,
         WaitedFor, DelayPreventsRace, NamesInv, FilesNamed, Named, ClientsNamed,
         OneClient, ClearedMeansGone, ClientCleared, NoClient, KilledMeansNoClient,
         PidFiles, Daemons

\* The invariant speaks of a process only through its kind, its progress and
\* its parent; here is what a fork does to them.
LEMMA ForkEffect ==
  ASSUME TypeOK, NEW p \in Free,
         NEW k, NEW s, NEW a, NEW t,
         proc' = [proc EXCEPT ![p] = Process(k, s, a, t)]
  PROVE  /\ p \in Pids /\ proc[p].kind = "none" /\ proc[p].st = "none"
         /\ proc'[p].kind = k /\ proc'[p].st = s /\ proc'[p].parent = t
         /\ \A q \in Pids \ {p} : proc'[q] = proc[q]
  BY DEF TypeOK, Free, Dead, Process

\* A step after which the clients are those of before, as far as the invariant
\* looks at them, and netstart.script waits for nobody new ...
ClientsAsBefore ==
  \A q \in Pids :
    /\ proc'[q].kind = "udhcpc" <=> proc[q].kind = "udhcpc"
    /\ Unwritten(q)' <=> Unwritten(q)
    /\ proc'[q].parent = "ifplugd" => proc[q].parent = "ifplugd"

\* ... or some are gone.
ClientsFewer ==
  \A q \in Pids :
    /\ proc'[q].kind = "udhcpc" => proc[q].kind = "udhcpc"
    /\ proc'[q].kind = "udhcpc" => (Unwritten(q)' <=> Unwritten(q))
    /\ Unwritten(q)' => Unwritten(q) /\ proc'[q].kind = "udhcpc"
    /\ proc'[q].parent = "ifplugd" => proc[q].parent = "ifplugd"

LEMMA BeforeIsFewer == UnwrittenIsClient /\ ClientsAsBefore => ClientsFewer
  BY DEF UnwrittenIsClient, ClientsAsBefore, ClientsFewer

\* Steps of other processes leave the scripts of ifplugd where they are; if
\* they also leave udhcpc's pid file and start no client, what the invariant
\* says of the scripts and of the clients carries over.
LEMMA ScriptsUndisturbed ==
  ASSUME IInv, UNCHANGED <<pc, target, status, overtaken>>, ClientsFewer,
         pidfile'["udhcpc"] = pidfile["udhcpc"]
  PROVE  /\ UnwrittenIsClient' /\ ScriptFitsStatus' /\ WaitedFor' /\ DelayPreventsRace'
         /\ ~overtaken => /\ ClientsNamed' /\ OneClient'
                          /\ ClearedMeansGone' /\ KilledMeansNoClient'
  <1> USE DEF IInv, BaseInv
  <1>1. UnwrittenIsClient' /\ ScriptFitsStatus' /\ WaitedFor'
    BY DEF ClientsFewer, UnwrittenIsClient, ScriptFitsStatus, Starts, Stopping, WaitedFor
  <1>2. DelayPreventsRace'
    BY DEF ClientsFewer, DelayPreventsRace, Stopping
  <1>3. ASSUME ~overtaken
        PROVE  /\ ClientsNamed' /\ OneClient'
               /\ ClearedMeansGone' /\ KilledMeansNoClient'
    <2>1. NamesInv
      BY <1>3
    <2>2. ClientsNamed' /\ OneClient'
      BY <2>1 DEF NamesInv, ClientsFewer, ClientsNamed, OneClient
    <2>3. NoClient => NoClient'
      BY DEF ClientsFewer, NoClient
    <2>4. ClearedMeansGone' /\ KilledMeansNoClient'
      BY <2>1, <2>3
         DEF NamesInv, ClearedMeansGone, ClientCleared, Starts, KilledMeansNoClient
    <2>5. QED
      BY <2>2, <2>4
  <1>4. QED
    BY <1>1, <1>2, <1>3

\* Steps of the scripts that touch neither a process nor a pid file.
LEMMA ScriptStepIInv ==
  ASSUME Serial, IInv, TypeOK', UNCHANGED <<proc, pidfile, overtaken>>,
         \/ IfplugdRun
         \/ StartBranch("ifplugd") \/ StartIfconfig("ifplugd")
         \/ StartDone("ifplugd") \/ StopIfconfig("ifplugd")
  PROVE  IInv'
  <1> USE DEF IInv, BaseInv
  <1>1. /\ JoinedIsDaemon' /\ UnwrittenIsClient' /\ ParentsAreClients'
        /\ NoDeconfigFile'
    BY DEF JoinedIsDaemon, UnwrittenIsClient, Unwritten, ParentsAreClients,
           NoDeconfigFile
  <1>2. pc["ifplugd"] # "rm" /\ pc'["ifplugd"] # "rm"
    BY PidAssumption, ModeAssumption
       DEF IfplugdRun, BeginUp, BeginDown, StartBranch, StartIfconfig, StartDone,
           StopIfconfig, AfterStop, TypeOK
  <1>3. ScriptFitsStatus'
    BY PidAssumption, ModeAssumption
       DEF IfplugdRun, BeginUp, BeginDown, StartBranch, StartIfconfig, StartDone,
           StopIfconfig, AfterStop, TypeOK, ScriptFitsStatus, Starts, Stopping
  <1>4. WaitedFor'
    <2>1. ASSUME NEW p \in Pids, proc[p].parent = "ifplugd" PROVE FALSE
      <3>1. pc["ifplugd"] = "wait"
        BY <2>1 DEF WaitedFor
      <3>2. StartDone("ifplugd")
        BY <3>1 DEF IfplugdRun, StartBranch, StartIfconfig, StopIfconfig
      <3>3. QED
        BY <2>1, <3>2 DEF StartDone
    <2>2. QED
      BY <2>1 DEF WaitedFor
  <1>5. DelayPreventsRace'
    <2>1. CASE IfplugdRun
      <3>1. Stopping' /\ DownDelay => Quiet
        BY <2>1, PidAssumption DEF IfplugdRun, BeginUp, BeginDown, TypeOK, Stopping
      <3>2. Quiet => \A p \in Pids : ~Unwritten(p)
        BY DEF Quiet, Starting
      <3>3. QED
        BY <3>1, <3>2 DEF DelayPreventsRace, Unwritten
    <2>2. CASE ~IfplugdRun
      <3>1. Stopping' => Stopping
        BY <2>2, PidAssumption, ModeAssumption
           DEF StartBranch, StartIfconfig, StartDone, StopIfconfig, AfterStop, TypeOK,
               Stopping
      <3>2. QED
        BY <3>1 DEF DelayPreventsRace, Unwritten
    <2>3. QED
      BY <2>1, <2>2
  <1>6. ASSUME NamesInv PROVE NamesInv'
    <2>1. FilesNamed' /\ ClientsNamed' /\ OneClient' /\ KilledMeansNoClient'
      BY <1>2, <1>6 DEF NamesInv, FilesNamed, Named, Unwritten, ClientsNamed, OneClient,
                        KilledMeansNoClient
    <2>2. ClientCleared' => ClientCleared
      <3>1. CASE IfplugdRun
        BY <3>1, PidAssumption
           DEF IfplugdRun, BeginUp, BeginDown, TypeOK, ClientCleared, Starts
      <3>2. CASE StartBranch("ifplugd") \/ StartIfconfig("ifplugd")
        BY <3>2, PidAssumption, ModeAssumption
           DEF StartBranch, StartIfconfig, TypeOK, ClientCleared, Starts
      <3>3. CASE StartDone("ifplugd")
        BY <3>3, PidAssumption
           DEF StartDone, TypeOK, ClientCleared, Starts, ScriptFitsStatus
      <3>4. CASE StopIfconfig("ifplugd")
        BY <3>4, PidAssumption DEF StopIfconfig, AfterStop, TypeOK, ClientCleared, Starts
      <3>5. QED
        BY <3>1, <3>2, <3>3, <3>4
    <2>3. ClearedMeansGone'
      BY <1>6, <2>2 DEF NamesInv, ClearedMeansGone, NoClient
    <2>4. QED
      BY <2>1, <2>3 DEF NamesInv
  <1>7. QED
    BY <1>1, <1>3, <1>4, <1>5, <1>6

\* netstart.script forks mdnsd or udhcpd.
LEMMA StartDaemonIInv ==
  ASSUME Serial, IInv, TypeOK', StartMdnsd("ifplugd") \/ StartUdhcpd("ifplugd")
  PROVE  IInv'
  <1> USE DEF IInv, BaseInv
  <1>1. PICK p \in Free, k \in {"mdnsd", "udhcpd"}, s \in {"forked", "joined"} :
          proc' = [proc EXCEPT ![p] = Process(k, s, StaticAddr, NoPid)]
    BY DEF StartMdnsd, StartUdhcpd
  <1>2. /\ p \in Pids /\ proc[p].kind = "none" /\ proc[p].st = "none"
        /\ proc'[p].kind = k /\ proc'[p].st = s /\ proc'[p].parent = NoPid
        /\ \A q \in Pids \ {p} : proc'[q] = proc[q]
    BY <1>1, ForkEffect
  <1>3. /\ pc["ifplugd"] \in {"mdnsd", "udhcpd"} /\ pc'["ifplugd"] \in {"idle", "mdnsd"}
        /\ UNCHANGED <<pidfile, target, status, overtaken>>
    BY PidAssumption DEF StartMdnsd, StartUdhcpd, TypeOK
  <1>4. JoinedIsDaemon'
    BY <1>2 DEF JoinedIsDaemon
  <1>5. ParentsAreClients'
    BY <1>2 DEF ParentsAreClients
  <1>6. NoDeconfigFile' /\ ScriptFitsStatus'
    BY <1>3 DEF NoDeconfigFile, ScriptFitsStatus, Starts, Stopping
  <1>7. ClientsAsBefore
    BY <1>2, PidAssumption DEF ClientsAsBefore, Unwritten
  <1>8. UnwrittenIsClient' /\ WaitedFor' /\ DelayPreventsRace'
    <2>1. UnwrittenIsClient' /\ DelayPreventsRace'
      BY <1>3, <1>7
         DEF ClientsAsBefore, UnwrittenIsClient, DelayPreventsRace, Stopping
    <2>2. WaitedFor'
      BY <1>3, <1>7 DEF ClientsAsBefore, WaitedFor
    <2>3. QED
      BY <2>1, <2>2
  <1>9. ASSUME NamesInv PROVE NamesInv'
    <2>1. ClientsNamed' /\ OneClient'
      BY <1>3, <1>7, <1>9 DEF NamesInv, ClientsAsBefore, ClientsNamed, OneClient
    <2>2. ClearedMeansGone' /\ KilledMeansNoClient'
      BY <1>3, <1>7, <1>9 DEF NamesInv, ClearedMeansGone, ClientCleared, NoClient,
         ClientsAsBefore, KilledMeansNoClient, Starts
    <2>3. FilesNamed'
      <3> SUFFICES ASSUME NEW d \in Daemons PROVE Named(d)'
        BY DEF FilesNamed
      <3>1. Named(d) /\ (pidfile[d] = NoPid \/ pidfile[d] \in Pids)
        BY <1>9 DEF NamesInv, FilesNamed, TypeOK, PidFiles
      <3>2. CASE d = "udhcpc" /\ \E u \in Pids : Unwritten(u)
        BY <1>7, <3>2 DEF Named, ClientsAsBefore
      <3>3. CASE ~(d = "udhcpc" /\ \E u \in Pids : Unwritten(u))
        BY <1>2, <1>3, <3>1, <3>3 DEF Named, Daemons
      <3>4. QED
        BY <3>2, <3>3
    <2>4. QED
      BY <2>1, <2>2, <2>3 DEF NamesInv
  <1>10. QED
    BY <1>3, <1>4, <1>5, <1>6, <1>8, <1>9

\* netstart.script starts udhcpc, which writes its pid file.
LEMMA StartUdhcpcIInv ==
  ASSUME Serial, IInv, TypeOK', StartUdhcpc("ifplugd")
  PROVE  IInv'
  <1> USE DEF IInv, BaseInv
  <1>1. PICK p \in Free :
          /\ proc' = [proc EXCEPT ![p] = Process("udhcpc", "init", NoAddr, "ifplugd")]
          /\ pidfile' = [pidfile EXCEPT !["udhcpc"] = p]
    BY DEF StartUdhcpc
  <1>2. /\ p \in Pids /\ proc[p].kind = "none" /\ proc[p].st = "none"
        /\ proc'[p].kind = "udhcpc" /\ proc'[p].st = "init"
        /\ proc'[p].parent = "ifplugd"
        /\ \A q \in Pids \ {p} : proc'[q] = proc[q]
    BY <1>1 DEF TypeOK, Free, Dead, Process
  <1>3. /\ pc["ifplugd"] = "dhcp" /\ pc'["ifplugd"] = "wait"
        /\ UNCHANGED <<target, status, overtaken>>
    BY PidAssumption DEF StartUdhcpc, TypeOK
  <1>4. /\ pidfile'["udhcpc"] = p
        /\ \A f \in PidFiles \ {"udhcpc"} : pidfile'[f] = pidfile[f]
    BY <1>1 DEF TypeOK, PidFiles, Daemons
  <1>5. JoinedIsDaemon' /\ UnwrittenIsClient'
    BY <1>2 DEF JoinedIsDaemon, UnwrittenIsClient, Unwritten
  <1>6. ParentsAreClients'
    BY <1>2 DEF ParentsAreClients
  <1>7. NoDeconfigFile' /\ ScriptFitsStatus'
    BY <1>3, <1>4 DEF NoDeconfigFile, PidFiles, ScriptFitsStatus, Starts, Stopping
  <1>8. WaitedFor' /\ DelayPreventsRace'
    BY <1>2, <1>3 DEF WaitedFor, DelayPreventsRace, Stopping, Unwritten
  <1>9. ASSUME NamesInv PROVE NamesInv'
    <2>1. \A q \in Pids : proc[q].kind # "udhcpc"
      BY <1>3, <1>9 DEF NamesInv, ClearedMeansGone, ClientCleared, Starts, NoClient
    <2>2. ClientsNamed' /\ OneClient'
      BY <1>2, <1>4, <2>1 DEF ClientsNamed, OneClient
    <2>3. ClearedMeansGone' /\ KilledMeansNoClient'
      BY <1>3 DEF ClearedMeansGone, ClientCleared, KilledMeansNoClient, Starts
    <2>4. FilesNamed'
      <3> SUFFICES ASSUME NEW d \in Daemons PROVE Named(d)'
        BY DEF FilesNamed
      <3>1. CASE d = "udhcpc"
        BY <1>2, <1>4, <3>1 DEF Named
      <3>2. CASE d # "udhcpc"
        <4>1. Named(d) /\ (pidfile[d] = NoPid \/ pidfile[d] \in Pids)
          BY <1>9 DEF NamesInv, FilesNamed, TypeOK, PidFiles
        <4>2. pidfile'[d] = pidfile[d]
          BY <1>4, <3>2 DEF PidFiles
        <4>3. QED
          BY <1>2, <1>3, <3>2, <4>1, <4>2 DEF Named, Daemons
      <3>3. QED
        BY <3>1, <3>2
    <2>5. QED
      BY <2>2, <2>3, <2>4 DEF NamesInv
  <1>10. QED
    BY <1>3, <1>5, <1>6, <1>7, <1>8, <1>9

\* netstop.script kills what a pid file names: with the invariant, a daemon of
\* the kind it is after, and no other, unless it overtakes a forking client.
LEMMA StopKillIInv ==
  ASSUME Serial, IInv, TypeOK', StopKill("ifplugd")
  PROVE  IInv'
  <1> USE DEF IInv, BaseInv
  <1> DEFINE t == target["ifplugd"]
             p == pidfile[t]
  <1>1. /\ pc["ifplugd"] = "kill" /\ t \in Daemons
        /\ UNCHANGED <<pidfile, status>>
        /\ overtaken' = (overtaken \/ (t = "udhcpc" /\ \E u \in Pids : Unwritten(u)))
    BY PidAssumption DEF StopKill, TypeOK
  <1>2. DownDelay => ~overtaken' /\ \A u \in Pids : ~Unwritten(u)
    BY <1>1 DEF DelayPreventsRace, Stopping
  <1>3. ASSUME ~overtaken'
        PROVE  NamesInv /\ (t = "udhcpc" => \A u \in Pids : ~Unwritten(u))
    BY <1>1, <1>3
  <1>4. CASE p = NoPid
    <2>1. /\ UNCHANGED proc
          /\ pc'["ifplugd"] = IF t = "udhcpd" THEN "ifdown" ELSE "kill"
          /\ target'["ifplugd"] = NextTarget(t)
      BY <1>4, PidAssumption DEF StopKill, Advance, TypeOK
    <2>2. /\ JoinedIsDaemon' /\ UnwrittenIsClient' /\ ParentsAreClients'
          /\ NoDeconfigFile'
      BY <1>1, <2>1 DEF JoinedIsDaemon, UnwrittenIsClient, Unwritten, ParentsAreClients,
                        NoDeconfigFile
    <2>3. ScriptFitsStatus' /\ WaitedFor'
      BY <1>1, <2>1 DEF ScriptFitsStatus, WaitedFor, Starts, Stopping
    <2>4. DelayPreventsRace'
      BY <1>2, <2>1 DEF DelayPreventsRace, Unwritten
    <2>5. ASSUME ~overtaken' PROVE NamesInv'
      <3>1. NamesInv
        BY <1>3, <2>5
      <3>2. FilesNamed' /\ ClientsNamed' /\ OneClient'
        BY <1>1, <2>1, <3>1
           DEF NamesInv, FilesNamed, Named, Unwritten, ClientsNamed, OneClient
      <3>3. t = "udhcpc" => NoClient
        BY <1>3, <1>4, <2>5, <3>1, PidAssumption DEF NamesInv, ClientsNamed, NoClient
      <3>4. t = "udhcpd" => ClientCleared
        BY <1>1 DEF ClientCleared
      <3>5. ClearedMeansGone'
        BY <1>1, <1>4, <2>1, <3>1, <3>3, <3>4
           DEF NamesInv, ClearedMeansGone, ClientCleared, NoClient, NextTarget, Daemons,
               Starts
      <3>6. KilledMeansNoClient'
        BY <2>1 DEF KilledMeansNoClient
      <3>7. QED
        BY <3>2, <3>5, <3>6 DEF NamesInv
    <2>6. QED
      BY <2>2, <2>3, <2>4, <2>5
  <1>5. CASE p # NoPid
    <2>1. /\ p \in Pids
          /\ proc' = Gone(proc, p)
          /\ pc'["ifplugd"] = "rm" /\ UNCHANGED target
      BY <1>1, <1>5, PidAssumption DEF StopKill, TypeOK, PidFiles
    <2> HIDE DEF p
    <2>2. /\ proc'[p] = Dead
          /\ \A q \in Pids \ {p} :
               /\ proc'[q].kind = proc[q].kind
               /\ proc'[q].parent =
                    IF proc[q].parent = p THEN NoPid ELSE proc[q].parent
               /\ \/ proc'[q].st = proc[q].st
                  \/ /\ proc[p].kind = "event" /\ proc[p].parent = q
                     /\ proc[q].st \in {"deconfig", "binding"}
                     /\ proc'[q].st \in {"selecting", "bound"}
      BY <2>1, GoneEffect DEF TypeOK
    <2>3. JoinedIsDaemon'
      BY <2>1, <2>2, DeadFields DEF JoinedIsDaemon
    <2>4. ParentsAreClients'
      <3> SUFFICES ASSUME NEW q \in Pids, proc'[q].kind = "event",
                          proc'[q].parent \in Pids
                   PROVE  proc'[proc'[q].parent].kind = "udhcpc"
        BY DEF ParentsAreClients
      <3>1. q # p /\ proc[q].kind = "event"
        BY <2>2, DeadFields
      <3>2. proc[q].parent # p /\ proc'[q].parent = proc[q].parent
        BY <2>2, <3>1, PidAssumption
      <3>3. QED
        BY <2>2, <3>1, <3>2 DEF ParentsAreClients
    <2>5. NoDeconfigFile' /\ ScriptFitsStatus'
      BY <1>1, <2>1 DEF NoDeconfigFile, ScriptFitsStatus, Starts, Stopping
    <2>6. ClientsFewer
      <3> SUFFICES ASSUME NEW q \in Pids
                   PROVE  /\ proc'[q].kind = "udhcpc" => proc[q].kind = "udhcpc"
                          /\ proc'[q].kind = "udhcpc" => (Unwritten(q)' <=> Unwritten(q))
                          /\ Unwritten(q)' => Unwritten(q) /\ proc'[q].kind = "udhcpc"
                          /\ proc'[q].parent = "ifplugd" => proc[q].parent = "ifplugd"
        BY DEF ClientsFewer
      <3>1. CASE q = p
        BY <2>2, <3>1, DeadFields, PidAssumption DEF Unwritten
      <3>2. CASE q # p
        BY <2>2, <3>2, PidAssumption DEF Unwritten, UnwrittenIsClient
      <3>3. QED
        BY <3>1, <3>2
    <2>7. UnwrittenIsClient' /\ WaitedFor'
      BY <1>1, <2>6 DEF ClientsFewer, UnwrittenIsClient, WaitedFor
    <2>8. DelayPreventsRace'
      BY <1>2, <2>6 DEF DelayPreventsRace, ClientsFewer
    <2>9. ASSUME ~overtaken' PROVE NamesInv'
      <3>1. NamesInv /\ (t = "udhcpc" => \A u \in Pids : ~Unwritten(u))
        BY <1>3, <2>9
      <3>2. proc[p].kind = t
        BY <1>1, <1>5, <3>1 DEF NamesInv, FilesNamed, Named, p
      <3>3. ClientsNamed' /\ OneClient'
        BY <1>1, <2>6, <3>1 DEF NamesInv, ClientsFewer, ClientsNamed, OneClient
      <3>4. NoClient => NoClient'
        BY <2>6 DEF ClientsFewer, NoClient
      <3>5. ClearedMeansGone'
        <4>1. ClientCleared' => ClientCleared
          BY <1>1, <2>1 DEF ClientCleared, Starts
        <4>2. QED
          BY <1>1, <3>1, <3>4, <4>1 DEF NamesInv, ClearedMeansGone
      <3>6. KilledMeansNoClient'
        <4>1. ASSUME t = "udhcpc", NEW q \in Pids, proc'[q].kind = "udhcpc" PROVE FALSE
          <5>1. q # p /\ proc[q].kind = "udhcpc"
            BY <2>2, <4>1, DeadFields
          <5>2. QED
            BY <3>1, <4>1, <5>1 DEF NamesInv, ClientsNamed, p
        <4>2. QED
          BY <2>1, <4>1 DEF KilledMeansNoClient, NoClient
      <3>7. FilesNamed'
        <4> SUFFICES ASSUME NEW d \in Daemons, d # t
                     PROVE  Named(d)'
          BY <2>1 DEF FilesNamed, Named
        <4>1. Named(d) /\ (pidfile[d] = NoPid \/ pidfile[d] \in Pids)
          BY <3>1 DEF NamesInv, FilesNamed, TypeOK, PidFiles
        <4>2. CASE pidfile[d] = NoPid
          BY <1>1, <4>2 DEF Named
        <4>3. CASE d = "udhcpc" /\ \E u \in Pids : Unwritten(u)
          <5>1. PICK u \in Pids : Unwritten(u)
            BY <4>3
          <5>2. proc[u].kind = "udhcpc" /\ u # p
            BY <3>2, <4>3, <5>1 DEF UnwrittenIsClient
          <5>3. Unwritten(u)'
            BY <2>2, <5>1, <5>2 DEF Unwritten
          <5>4. QED
            BY <4>3, <5>3 DEF Named
        <4>4. CASE /\ pidfile[d] \in Pids /\ proc[pidfile[d]].kind = d
                   /\ d # "udhcpc" => proc[pidfile[d]].st = "running"
          <5>1. pidfile[d] \in Pids \ {p}
            BY <3>2, <4>4
          <5>2. proc'[pidfile[d]].kind = d
            BY <2>2, <4>4, <5>1
          <5>3. d # "udhcpc" => proc'[pidfile[d]].st = "running"
            BY <2>2, <4>4, <5>1
          <5>4. QED
            BY <1>1, <5>2, <5>3 DEF Named
        <4>5. QED
          BY <1>1, <4>1, <4>2, <4>3, <4>4 DEF Named
      <3>8. QED
        BY <3>3, <3>5, <3>6, <3>7 DEF NamesInv
    <2>10. QED
      BY <2>3, <2>4, <2>5, <2>7, <2>8, <2>9
  <1>6. QED
    BY <1>4, <1>5

\* netstop.script removes the pid file of the daemon it has killed.
LEMMA StopRemoveIInv ==
  ASSUME Serial, IInv, TypeOK', StopRemove("ifplugd")
  PROVE  IInv'
  <1> USE DEF IInv, BaseInv
  <1> DEFINE t == target["ifplugd"]
  <1>1. /\ pc["ifplugd"] = "rm" /\ t \in Daemons
        /\ UNCHANGED <<proc, status, overtaken>>
        /\ pc'["ifplugd"] = IF t = "udhcpd" THEN "ifdown" ELSE "kill"
        /\ target'["ifplugd"] = NextTarget(t)
    BY PidAssumption DEF StopRemove, Advance, TypeOK
  <1>2. /\ pidfile'[t] = NoPid
        /\ \A f \in PidFiles \ {t} : pidfile'[f] = pidfile[f]
    BY <1>1 DEF StopRemove, TypeOK, PidFiles
  <1>3. JoinedIsDaemon' /\ UnwrittenIsClient' /\ ParentsAreClients'
    BY <1>1 DEF JoinedIsDaemon, UnwrittenIsClient, Unwritten, ParentsAreClients
  <1>4. NoDeconfigFile'
    BY <1>1, <1>2 DEF NoDeconfigFile, PidFiles, Daemons
  <1>5. ScriptFitsStatus' /\ WaitedFor' /\ DelayPreventsRace'
    BY <1>1 DEF ScriptFitsStatus, WaitedFor, DelayPreventsRace, Starts, Stopping, Unwritten
  <1>6. ASSUME NamesInv PROVE NamesInv'
    <2>1. t = "udhcpc" => NoClient
      BY <1>1, <1>6 DEF NamesInv, KilledMeansNoClient
    <2>2. t = "udhcpd" => pidfile["udhcpc"] = NoPid /\ NoClient
      BY <1>1, <1>6 DEF NamesInv, ClearedMeansGone, ClientCleared
    <2>3. FilesNamed'
      BY <1>1, <1>2, <1>6 DEF NamesInv, FilesNamed, Named, PidFiles, Unwritten
    <2>4. ClientsNamed' /\ OneClient'
      BY <1>1, <1>2, <1>6, <2>1
         DEF NamesInv, ClientsNamed, OneClient, NoClient, Unwritten, PidFiles, Daemons
    <2>5. ClearedMeansGone'
      BY <1>1, <1>2, <2>1, <2>2
         DEF ClearedMeansGone, ClientCleared, NoClient, NextTarget, Daemons, Starts,
             PidFiles
    <2>6. KilledMeansNoClient'
      BY <1>1 DEF KilledMeansNoClient
    <2>7. QED
      BY <2>3, <2>4, <2>5, <2>6 DEF NamesInv
  <1>7. QED
    BY <1>1, <1>3, <1>4, <1>5, <1>6

\* A process table in which no client changes and every daemon named by a pid
\* file is as it was: what pid files name carries over.
LEMMA NamesKept ==
  ASSUME IInv, ~overtaken, UNCHANGED <<pc, target, status, overtaken>>,
         ClientsAsBefore, pidfile'["udhcpc"] = pidfile["udhcpc"],
         \A d \in {"mdnsd", "udhcpd"} : Named(d)'
  PROVE  NamesInv'
  <1> USE DEF IInv, BaseInv
  <1>1. NamesInv /\ ClientsFewer
    BY BeforeIsFewer
  <1>2. /\ ClientsNamed' /\ OneClient'
        /\ ClearedMeansGone' /\ KilledMeansNoClient'
    BY <1>1, ScriptsUndisturbed
  <1>3. Named("udhcpc")'
    <2>1. Named("udhcpc") /\ (pidfile["udhcpc"] = NoPid \/ pidfile["udhcpc"] \in Pids)
      BY <1>1 DEF NamesInv, FilesNamed, Daemons, TypeOK, PidFiles
    <2>2. QED
      BY <2>1 DEF Named, ClientsAsBefore
  <1>4. QED
    BY <1>2, <1>3 DEF NamesInv, FilesNamed, Daemons

\* mdnsd joins its multicast group, or exits.
LEMMA MdnsdJoinIInv ==
  ASSUME Serial, IInv, TypeOK', NEW p \in Pids, MdnsdJoin(p)
  PROVE  IInv'
  <1> USE DEF IInv, BaseInv
  <1>1. /\ proc[p].kind = "mdnsd" /\ proc[p].st = "forked"
        /\ proc' \in [Pids -> ProcessType]
        /\ \A q \in Pids \ {p} : proc'[q] = proc[q]
        /\ UNCHANGED <<pidfile, pc, target, status, overtaken>>
    BY DEF MdnsdJoin, TypeOK
  <1>2. \/ /\ proc'[p].kind = "mdnsd" /\ proc'[p].st = "joined"
           /\ proc'[p].parent = proc[p].parent
        \/ proc'[p] = Dead
    BY DEF MdnsdJoin, TypeOK, ProcessType
  <1>3. JoinedIsDaemon'
    BY <1>1, <1>2, DeadFields DEF JoinedIsDaemon
  <1>4. ParentsAreClients'
    BY <1>1, <1>2, DeadFields DEF ParentsAreClients
  <1>5. NoDeconfigFile'
    BY <1>1 DEF NoDeconfigFile
  <1>6. ClientsAsBefore
    BY <1>1, <1>2, DeadFields, PidAssumption DEF ClientsAsBefore, Unwritten
  <1>7. UnwrittenIsClient' /\ ScriptFitsStatus' /\ WaitedFor' /\ DelayPreventsRace'
    BY <1>1, <1>6, BeforeIsFewer, ScriptsUndisturbed
  <1>8. ASSUME ~overtaken PROVE NamesInv'
    <2>1. ASSUME NEW d \in {"mdnsd", "udhcpd"} PROVE Named(d)'
      <3>1. Named(d) /\ (pidfile[d] = NoPid \/ pidfile[d] \in Pids)
        BY <1>8 DEF NamesInv, FilesNamed, Daemons, TypeOK, PidFiles
      <3>2. QED
        BY <1>1, <3>1 DEF Named
    <2>2. QED
      BY <1>1, <1>6, <1>8, <2>1, NamesKept
  <1>9. QED
    BY <1>1, <1>3, <1>4, <1>5, <1>7, <1>8

\* A daemon writes its pid file, over the one of an earlier daemon if need be.
LEMMA WritePidFileIInv ==
  ASSUME Serial, IInv, TypeOK', NEW p \in Pids, WritePidFile(p)
  PROVE  IInv'
  <1> USE DEF IInv, BaseInv
  <1> DEFINE k == proc[p].kind
  <1>1. /\ k \in {"mdnsd", "udhcpd"} /\ proc[p].st = "joined"
        /\ UNCHANGED <<pc, target, status, overtaken>>
    BY DEF WritePidFile, JoinedIsDaemon
  <1>2. /\ proc'[p].kind = k /\ proc'[p].st = "running"
        /\ proc'[p].parent = proc[p].parent
        /\ \A q \in Pids \ {p} : proc'[q] = proc[q]
    BY DEF WritePidFile, TypeOK, ProcessType
  <1>3. /\ pidfile'[k] = p
        /\ \A f \in PidFiles \ {k} : pidfile'[f] = pidfile[f]
    BY <1>1 DEF WritePidFile, TypeOK, PidFiles, Daemons
  <1>4. JoinedIsDaemon'
    BY <1>2 DEF JoinedIsDaemon
  <1>5. ParentsAreClients'
    BY <1>1, <1>2 DEF ParentsAreClients
  <1>6. NoDeconfigFile'
    BY <1>1, <1>3 DEF NoDeconfigFile, PidFiles
  <1>7. ClientsAsBefore
    BY <1>1, <1>2 DEF ClientsAsBefore, Unwritten
  <1>8. pidfile'["udhcpc"] = pidfile["udhcpc"]
    BY <1>1, <1>3 DEF PidFiles, Daemons
  <1>9. UnwrittenIsClient' /\ ScriptFitsStatus' /\ WaitedFor' /\ DelayPreventsRace'
    BY <1>1, <1>7, <1>8, BeforeIsFewer, ScriptsUndisturbed
  <1>10. ASSUME ~overtaken PROVE NamesInv'
    <2>1. ASSUME NEW d \in {"mdnsd", "udhcpd"} PROVE Named(d)'
      <3>1. Named(d) /\ (pidfile[d] = NoPid \/ pidfile[d] \in Pids) /\ d \in PidFiles
        BY <1>10 DEF NamesInv, FilesNamed, Daemons, TypeOK, PidFiles
      <3>2. CASE d = k
        BY <1>2, <1>3, <3>2 DEF Named
      <3>3. CASE d # k
        BY <1>1, <1>2, <1>3, <3>1, <3>3 DEF Named
      <3>4. QED
        BY <3>2, <3>3
    <2>2. QED
      BY <1>1, <1>7, <1>8, <1>10, <2>1, NamesKept
  <1>11. QED
    BY <1>1, <1>4, <1>5, <1>6, <1>9, <1>10

\* udhcpc runs an event script and waits for it.
LEMMA RunEventIInv ==
  ASSUME Serial, IInv, TypeOK', NEW p \in Pids, proc[p].kind = "udhcpc", ~Unwritten(p),
         NEW s \in {"deconfig", "binding"}, NEW e \in {"deconfig", "bound"},
         NEW a, RunEvent(p, s, e, a)
  PROVE  IInv'
  <1> USE DEF IInv, BaseInv
  <1>1. PICK q \in Free :
          proc' = [proc EXCEPT ![p].st = s, ![q] = Process("event", e, a, p)]
    BY DEF RunEvent
  <1>2. q \in Pids /\ q # p /\ proc[q].kind = "none" /\ proc[q].st = "none"
    BY DEF Free, Dead, Process
  <1>3. /\ proc'[q].kind = "event" /\ proc'[q].st = e /\ proc'[q].parent = p
        /\ proc'[p].kind = "udhcpc" /\ proc'[p].st = s
        /\ proc'[p].parent = proc[p].parent
        /\ \A i \in Pids \ {p, q} : proc'[i] = proc[i]
    BY <1>1, <1>2 DEF Process, TypeOK, ProcessType
  <1>4. UNCHANGED <<pidfile, pc, target, status, overtaken>>
    BY DEF RunEvent
  <1>5. JoinedIsDaemon'
    BY <1>3 DEF JoinedIsDaemon
  <1>6. ParentsAreClients'
    BY <1>2, <1>3 DEF ParentsAreClients
  <1>7. NoDeconfigFile'
    BY <1>4 DEF NoDeconfigFile
  <1>8. ClientsAsBefore
    <2>1. p # "ifplugd"
      BY PidAssumption DEF Serial
    <2>2. QED
      BY <1>2, <1>3, <2>1 DEF ClientsAsBefore, Unwritten
  <1>9. UnwrittenIsClient' /\ ScriptFitsStatus' /\ WaitedFor' /\ DelayPreventsRace'
    BY <1>4, <1>8, BeforeIsFewer, ScriptsUndisturbed
  <1>10. ASSUME ~overtaken PROVE NamesInv'
    <2>1. ASSUME NEW d \in {"mdnsd", "udhcpd"} PROVE Named(d)'
      <3>1. Named(d) /\ (pidfile[d] = NoPid \/ pidfile[d] \in Pids)
        BY <1>10 DEF NamesInv, FilesNamed, Daemons, TypeOK, PidFiles
      <3>2. QED
        BY <1>2, <1>3, <1>4, <3>1 DEF Named
    <2>2. QED
      BY <1>4, <1>8, <1>10, <2>1, NamesKept
  <1>11. QED
    BY <1>4, <1>5, <1>6, <1>7, <1>9, <1>10

\* A step that changes only the progress of a script.
LEMMA ProgressIInv ==
  ASSUME Serial, IInv, TypeOK', NEW p \in Pids, DeconfigKill(p) \/ BoundIfconfig(p)
  PROVE  IInv'
  <1> USE DEF IInv, BaseInv
  <1>1. /\ proc[p].kind = "event"
        /\ proc[p].st \in {"deconfig", "bound"}
        /\ UNCHANGED <<pidfile, pc, target, status, overtaken>>
    BY DEF DeconfigKill, BoundIfconfig, NoDeconfigFile, TypeOK, PidFiles
  <1>2. /\ proc'[p].kind = "event" /\ proc'[p].st \in {"ifdown", "mdnsd"}
        /\ proc'[p].parent = proc[p].parent
        /\ \A q \in Pids \ {p} : proc'[q] = proc[q]
    BY <1>1 DEF DeconfigKill, BoundIfconfig, NoDeconfigFile, TypeOK, ProcessType
  <1>3. JoinedIsDaemon'
    BY <1>2 DEF JoinedIsDaemon
  <1>4. ParentsAreClients'
    BY <1>1, <1>2 DEF ParentsAreClients
  <1>5. NoDeconfigFile'
    BY <1>1 DEF NoDeconfigFile
  <1>6. ClientsAsBefore
    BY <1>1, <1>2 DEF ClientsAsBefore, Unwritten
  <1>7. UnwrittenIsClient' /\ ScriptFitsStatus' /\ WaitedFor' /\ DelayPreventsRace'
    BY <1>1, <1>6, BeforeIsFewer, ScriptsUndisturbed
  <1>8. ASSUME ~overtaken PROVE NamesInv'
    <2>1. ASSUME NEW d \in {"mdnsd", "udhcpd"} PROVE Named(d)'
      <3>1. Named(d) /\ (pidfile[d] = NoPid \/ pidfile[d] \in Pids)
        BY <1>8 DEF NamesInv, FilesNamed, Daemons, TypeOK, PidFiles
      <3>2. QED
        BY <1>1, <1>2, <3>1 DEF Named
    <2>2. QED
      BY <1>1, <1>6, <1>8, <2>1, NamesKept
  <1>9. QED
    BY <1>1, <1>3, <1>4, <1>5, <1>7, <1>8

\* An event script exits, bound having forked mdnsd first.
LEMMA ExitIInv ==
  ASSUME Serial, IInv, TypeOK', NEW q \in Pids,
         DeconfigIfconfig(q) \/ BoundMdnsd(q)
  PROVE  IInv'
  <1> USE DEF IInv, BaseInv
  <1>1. \/ proc' = Gone(proc, q)
        \/ \E m \in Free :
             proc' = [Gone(proc, q) EXCEPT
                        ![m] = Process("mdnsd", "forked", proc[q].addr, NoPid)]
    BY DEF DeconfigIfconfig, BoundMdnsd
  <1> DEFINE f == Gone(proc, q)
  <1>2. /\ proc[q].kind = "event" /\ UNCHANGED <<pidfile, pc, target, status, overtaken>>
        /\ proc[q].st \in {"ifdown", "mdnsd"}
    BY DEF DeconfigIfconfig, BoundMdnsd
  <1>3. /\ f \in [Pids -> ProcessType]
        /\ f[q].kind = "none" /\ f[q].st = "none" /\ f[q].parent = NoPid
        /\ \A i \in Pids \ {q} :
             /\ f[i].kind = proc[i].kind
             /\ \/ f[i].st = proc[i].st
                \/ /\ proc[q].parent = i
                   /\ proc[i].st \in {"deconfig", "binding"}
                   /\ f[i].st \in {"selecting", "bound"}
             /\ f[i].parent \in {proc[i].parent, NoPid}
    <2>1. proc \in [Pids -> ProcessType]
      BY DEF TypeOK
    <2>2. QED
      BY <2>1, GoneEffect, DeadFields
  <1> HIDE DEF f
  <1>4. /\ \A i \in Pids \ {q} :
             \/ /\ proc'[i].kind = proc[i].kind
                /\ \/ proc'[i].st = proc[i].st
                   \/ /\ proc[q].parent = i
                      /\ proc[i].st \in {"deconfig", "binding"}
                      /\ proc'[i].st \in {"selecting", "bound"}
                /\ proc'[i].parent \in {proc[i].parent, NoPid}
             \/ /\ proc[i].kind = "none" /\ proc[i].st = "none"
                /\ proc'[i].kind = "mdnsd" /\ proc'[i].st = "forked"
                /\ proc'[i].parent = NoPid
        /\ proc'[q].kind = "none" /\ proc'[q].st = "none" /\ proc'[q].parent = NoPid
    <2>1. CASE proc' = f
      BY <2>1, <1>3
    <2>2. CASE \E m \in Free :
                 proc' = [f EXCEPT ![m] = Process("mdnsd", "forked", proc[q].addr, NoPid)]
      <3>1. PICK m \in Free :
              proc' = [f EXCEPT ![m] = Process("mdnsd", "forked", proc[q].addr, NoPid)]
        BY <2>2
      <3>2. m \in Pids /\ m # q /\ proc[m].kind = "none" /\ proc[m].st = "none"
        BY <1>2 DEF Free, Dead, Process
      <3>3. /\ proc'[m].kind = "mdnsd" /\ proc'[m].st = "forked"
            /\ proc'[m].parent = NoPid
            /\ \A i \in Pids \ {m} : proc'[i] = f[i]
        BY <1>3, <3>1, <3>2 DEF Process
      <3>4. QED
        BY <1>3, <3>2, <3>3
    <2>3. QED
      BY <1>1, <2>1, <2>2 DEF f
  <1>5. proc[q].parent \in Pids => proc[proc[q].parent].kind = "udhcpc"
    BY <1>2 DEF ParentsAreClients
  <1>6. JoinedIsDaemon'
    BY <1>4 DEF JoinedIsDaemon
  <1>7. ParentsAreClients'
    <2> SUFFICES ASSUME NEW i \in Pids, proc'[i].kind = "event",
                        proc'[i].parent \in Pids
                 PROVE  proc'[proc'[i].parent].kind = "udhcpc"
      BY DEF ParentsAreClients
    <2>1. i # q /\ proc[i].kind = "event" /\ proc'[i].parent = proc[i].parent
      BY <1>4, PidAssumption
    <2>2. proc[proc[i].parent].kind = "udhcpc"
      BY <2>1 DEF ParentsAreClients
    <2>3. QED
      BY <1>2, <1>4, <2>1, <2>2
  <1>8. NoDeconfigFile'
    BY <1>2 DEF NoDeconfigFile
  <1>9. ClientsAsBefore
    <2> SUFFICES ASSUME NEW i \in Pids
                 PROVE  /\ proc'[i].kind = "udhcpc" <=> proc[i].kind = "udhcpc"
                        /\ Unwritten(i)' <=> Unwritten(i)
                        /\ proc'[i].parent = "ifplugd" => proc[i].parent = "ifplugd"
      BY DEF ClientsAsBefore
    <2>1. NoPid # "ifplugd"
      BY PidAssumption
    <2>2. CASE i = q
      BY <1>2, <1>4, <2>1, <2>2 DEF Unwritten
    <2>3. CASE i # q
      BY <1>4, <2>1, <2>3 DEF Unwritten
    <2>4. QED
      BY <2>2, <2>3
  <1>10. UnwrittenIsClient' /\ ScriptFitsStatus' /\ WaitedFor' /\ DelayPreventsRace'
    BY <1>2, <1>9, BeforeIsFewer, ScriptsUndisturbed
  <1>11. ASSUME ~overtaken PROVE NamesInv'
    <2>1. ASSUME NEW d \in {"mdnsd", "udhcpd"} PROVE Named(d)'
      <3>1. Named(d) /\ (pidfile[d] = NoPid \/ pidfile[d] \in Pids)
        BY <1>11 DEF NamesInv, FilesNamed, Daemons, TypeOK, PidFiles
      <3>2. CASE /\ proc[pidfile[d]].kind = d /\ pidfile[d] \in Pids
                 /\ proc[pidfile[d]].st = "running"
        <4>1. pidfile[d] # q
          BY <1>2, <3>2
        <4>2. pidfile[d] # proc[q].parent
          BY <1>5, <3>2
        <4>3. proc'[pidfile[d]].kind = d /\ proc'[pidfile[d]].st = "running"
          BY <1>4, <3>2, <4>1, <4>2
        <4>4. QED
          BY <1>2, <4>3 DEF Named
      <3>3. CASE pidfile[d] = NoPid \/ (pc["ifplugd"] = "rm" /\ target["ifplugd"] = d)
        BY <1>2, <3>3 DEF Named
      <3>4. QED
        BY <3>1, <3>2, <3>3 DEF Named
    <2>2. QED
      BY <1>2, <1>9, <1>11, <2>1, NamesKept
  <1>12. QED
    BY <1>2, <1>6, <1>7, <1>8, <1>10, <1>11

\* udhcpc forks: its parent process is gone, and its child has yet to say so.
LEMMA BackgroundIInv ==
  ASSUME Serial, IInv, TypeOK', NEW p \in Pids, UdhcpcBackground(p)
  PROVE  IInv'
  <1> USE DEF IInv, BaseInv
  <1>1. PICK q \in Free, st \in {"split", "splitBound"} :
          proc' = [Gone(proc, p) EXCEPT ![q] = Process("udhcpc", st, NoAddr, NoPid)]
    BY DEF UdhcpcBackground
  <1> DEFINE f == Gone(proc, p)
  <1>2. /\ proc[p].kind = "udhcpc" /\ proc[p].st \in {"selecting", "bound"}
        /\ proc[p].parent = "ifplugd"
        /\ UNCHANGED <<pidfile, pc, target, status, overtaken>>
    BY DEF UdhcpcBackground, Serial
  <1>3. q \in Pids /\ q # p /\ proc[q].kind = "none" /\ proc[q].st = "none"
    BY <1>2 DEF Free, Dead, Process
  <1>4. /\ f \in [Pids -> ProcessType]
        /\ f[p].kind = "none" /\ f[p].st = "none" /\ f[p].parent = NoPid
        /\ \A i \in Pids \ {p} :
             /\ f[i].kind = proc[i].kind /\ f[i].st = proc[i].st
             /\ f[i].parent = IF proc[i].parent = p THEN NoPid ELSE proc[i].parent
    <2>1. proc \in [Pids -> ProcessType]
      BY DEF TypeOK
    <2>2. QED
      BY <1>2, <2>1, GoneEffect, DeadFields
  <1> HIDE DEF f
  <1>5. /\ proc'[q].kind = "udhcpc" /\ proc'[q].st = st /\ proc'[q].parent = NoPid
        /\ proc'[p].kind = "none" /\ proc'[p].st = "none" /\ proc'[p].parent = NoPid
        /\ \A i \in Pids \ {p, q} :
             /\ proc'[i].kind = proc[i].kind /\ proc'[i].st = proc[i].st
             /\ proc'[i].parent = IF proc[i].parent = p THEN NoPid ELSE proc[i].parent
    <2>1. proc' = [f EXCEPT ![q] = Process("udhcpc", st, NoAddr, NoPid)]
      BY <1>1 DEF f
    <2>2. proc'[q] = Process("udhcpc", st, NoAddr, NoPid)
      BY <1>3, <1>4, <2>1
    <2>3. \A i \in Pids \ {q} : proc'[i] = f[i]
      BY <1>4, <2>1
    <2>4. QED
      BY <1>3, <1>4, <2>2, <2>3 DEF Process
  <1>6. Unwritten(q)' /\ ~Unwritten(p)'
    BY <1>5 DEF Unwritten
  <1>7. pc["ifplugd"] = "wait"
    BY <1>2 DEF WaitedFor
  <1>8. JoinedIsDaemon' /\ UnwrittenIsClient'
    BY <1>3, <1>5 DEF JoinedIsDaemon, UnwrittenIsClient, Unwritten
  <1>9. ParentsAreClients'
    <2> SUFFICES ASSUME NEW i \in Pids, proc'[i].kind = "event",
                        proc'[i].parent \in Pids
                 PROVE  proc'[proc'[i].parent].kind = "udhcpc"
      BY DEF ParentsAreClients
    <2>1. i # p /\ i # q /\ proc[i].kind = "event"
      BY <1>5
    <2>2. proc'[i].parent = proc[i].parent /\ proc[i].parent # p
      BY <1>5, <2>1, PidAssumption
    <2>3. proc[proc[i].parent].kind = "udhcpc"
      BY <2>1, <2>2 DEF ParentsAreClients
    <2>4. proc[i].parent # q
      BY <1>3, <2>3
    <2>5. QED
      BY <1>5, <2>2, <2>3, <2>4
  <1>10. NoDeconfigFile' /\ ScriptFitsStatus' /\ WaitedFor'
    BY <1>2, <1>7 DEF NoDeconfigFile, ScriptFitsStatus, WaitedFor, Starts, Stopping
  <1>11. DelayPreventsRace'
    BY <1>2, <1>7 DEF DelayPreventsRace, Stopping
  <1>12. ASSUME ~overtaken PROVE NamesInv'
    <2>1. NamesInv
      BY <1>12
    <2>2. \A i \in Pids : proc[i].kind = "udhcpc" => i = p
      BY <1>2, <2>1 DEF NamesInv, OneClient
    <2>3. \A i \in Pids : proc'[i].kind = "udhcpc" => i = q
      BY <1>5, <2>2
    <2>4. ClientsNamed' /\ OneClient'
      BY <1>6, <2>3 DEF ClientsNamed, OneClient
    <2>5. ClearedMeansGone' /\ KilledMeansNoClient'
      BY <1>2, <1>7 DEF ClearedMeansGone, ClientCleared, KilledMeansNoClient, Starts
    <2>6. FilesNamed'
      <3> SUFFICES ASSUME NEW d \in Daemons, d # "udhcpc" PROVE Named(d)'
        BY <1>3, <1>6 DEF FilesNamed, Named
      <3>1. Named(d) /\ (pidfile[d] = NoPid \/ pidfile[d] \in Pids) /\ d # "none"
        BY <2>1 DEF NamesInv, FilesNamed, TypeOK, PidFiles, Daemons
      <3>2. CASE /\ pidfile[d] \in Pids /\ proc[pidfile[d]].kind = d
                 /\ proc[pidfile[d]].st = "running"
        <4>1. pidfile[d] # p /\ pidfile[d] # q
          BY <1>2, <1>3, <3>1, <3>2
        <4>2. proc'[pidfile[d]].kind = d /\ proc'[pidfile[d]].st = "running"
          BY <1>5, <3>2, <4>1
        <4>3. QED
          BY <1>2, <4>2 DEF Named
      <3>3. CASE pidfile[d] = NoPid \/ (pc["ifplugd"] = "rm" /\ target["ifplugd"] = d)
        BY <1>2, <3>3 DEF Named
      <3>4. QED
        BY <3>1, <3>2, <3>3 DEF Named
    <2>7. QED
      BY <2>4, <2>5, <2>6 DEF NamesInv
  <1>13. QED
    BY <1>2, <1>8, <1>9, <1>10, <1>11, <1>12

\* ... and says so.
LEMMA RewriteIInv ==
  ASSUME Serial, IInv, TypeOK', NEW p \in Pids, RewritePidFile(p)
  PROVE  IInv'
  <1> USE DEF IInv, BaseInv
  <1>1. /\ Unwritten(p) /\ proc[p].kind = "udhcpc"
        /\ UNCHANGED <<pc, target, status, overtaken>>
    BY DEF RewritePidFile, UnwrittenIsClient
  <1>2. /\ proc'[p].kind = "udhcpc" /\ proc'[p].st \in {"bound", "selecting"}
        /\ proc'[p].parent = proc[p].parent
        /\ \A q \in Pids \ {p} : proc'[q] = proc[q]
    BY <1>1 DEF RewritePidFile, Rewritten, TypeOK, ProcessType
  <1>3. /\ pidfile'["udhcpc"] = p
        /\ \A f \in PidFiles \ {"udhcpc"} : pidfile'[f] = pidfile[f]
    BY DEF RewritePidFile, TypeOK, PidFiles, Daemons
  <1>4. JoinedIsDaemon' /\ UnwrittenIsClient'
    BY <1>1, <1>2 DEF JoinedIsDaemon, UnwrittenIsClient, Unwritten
  <1>5. ParentsAreClients'
    BY <1>1, <1>2 DEF ParentsAreClients
  <1>6. NoDeconfigFile' /\ ScriptFitsStatus'
    BY <1>1, <1>3 DEF NoDeconfigFile, PidFiles, ScriptFitsStatus, Starts, Stopping
  <1>7. WaitedFor'
    BY <1>1, <1>2 DEF WaitedFor
  <1>8. DelayPreventsRace'
    BY <1>1, <1>2 DEF DelayPreventsRace, Stopping, Unwritten
  <1>9. ASSUME ~overtaken PROVE NamesInv'
    <2>1. NamesInv
      BY <1>9
    <2>2. \A i \in Pids : proc[i].kind = "udhcpc" => i = p
      BY <1>1, <2>1 DEF NamesInv, OneClient
    <2>3. \A i \in Pids : proc'[i].kind = "udhcpc" => i = p
      BY <1>2, <2>2
    <2>4. ClientsNamed' /\ OneClient'
      BY <1>3, <2>3 DEF ClientsNamed, OneClient
    <2>5. ~ClientCleared /\ ~(pc["ifplugd"] = "rm" /\ target["ifplugd"] = "udhcpc")
      BY <1>1, <2>1 DEF NamesInv, ClearedMeansGone, KilledMeansNoClient, NoClient
    <2>6. ClearedMeansGone' /\ KilledMeansNoClient'
      BY <1>1, <2>5 DEF ClearedMeansGone, ClientCleared, KilledMeansNoClient, Starts
    <2>7. FilesNamed'
      <3> SUFFICES ASSUME NEW d \in Daemons, d # "udhcpc" PROVE Named(d)'
        BY <1>2, <1>3 DEF FilesNamed, Named
      <3>1. /\ Named(d) /\ (pidfile[d] = NoPid \/ pidfile[d] \in Pids)
            /\ pidfile'[d] = pidfile[d]
        BY <1>3, <2>1 DEF NamesInv, FilesNamed, TypeOK, PidFiles, Daemons
      <3>2. QED
        BY <1>1, <1>2, <3>1 DEF Named
    <2>8. QED
      BY <2>4, <2>6, <2>7 DEF NamesInv
  <1>10. QED
    BY <1>1, <1>4, <1>5, <1>6, <1>7, <1>8, <1>9

\* The cable, and rest.
LEMMA RestIInv ==
  ASSUME Serial, IInv, TypeOK', LinkChange \/ Rest \/ UNCHANGED vars
  PROVE  IInv'
  <1>1. UNCHANGED <<proc, pidfile, pc, target, status, overtaken>>
    BY DEF LinkChange, Rest, vars
  <1>2. BaseInv'
    BY <1>1 DEF IInv, BaseInv, JoinedIsDaemon, UnwrittenIsClient, Unwritten,
       ParentsAreClients, NoDeconfigFile, ScriptFitsStatus, Starts, Stopping, WaitedFor,
       DelayPreventsRace
  <1>3. NamesInv => NamesInv'
    BY <1>1 DEF NamesInv, FilesNamed, Named, Unwritten, ClientsNamed, OneClient,
       ClearedMeansGone, ClientCleared, Starts, NoClient, KilledMeansNoClient
  <1>4. QED
    BY <1>1, <1>2, <1>3 DEF IInv

\* Every step keeps the invariant.
LEMMA NextIInv == Serial /\ IInv /\ [Next]_vars => IInv'
  <1> SUFFICES ASSUME Serial, IInv, [Next]_vars PROVE IInv'
    OBVIOUS
  <1>1. TypeOK'
    BY NextTypeOK DEF IInv, BaseInv
  <1>2. CASE LinkChange \/ Rest \/ UNCHANGED vars
    BY <1>1, <1>2, RestIInv
  <1>3. CASE Netconfig \/ NetconfigUp
    BY <1>3 DEF Netconfig, NetconfigUp, Serial
  <1>4. CASE IfplugdRun
    BY <1>1, <1>4, ScriptStepIInv DEF IfplugdRun
  <1>5. CASE \E r \in Runners : Netstart(r) \/ Netstop(r)
    <2>1. Netstart("ifplugd") \/ Netstop("ifplugd")
      BY <1>5 DEF Serial
    <2>2. CASE StartBranch("ifplugd") \/ StartIfconfig("ifplugd")
               \/ StartDone("ifplugd") \/ StopIfconfig("ifplugd")
      BY <1>1, <2>2, ScriptStepIInv
         DEF StartBranch, StartIfconfig, StartDone, StopIfconfig
    <2>3. CASE StartUdhcpd("ifplugd") \/ StartMdnsd("ifplugd")
      BY <1>1, <2>3, StartDaemonIInv
    <2>4. QED
      BY <1>1, <2>1, <2>2, <2>3, StartUdhcpcIInv, StopKillIInv, StopRemoveIInv
         DEF Netstart, Netstop
  <1>6. CASE \E p \in Pids : Daemon(p) \/ Udhcpc(p) \/ Event(p)
    <2>1. PICK p \in Pids : Daemon(p) \/ Udhcpc(p) \/ Event(p)
      BY <1>6
    <2>2. CASE UdhcpcBegin(p)
      BY <1>1, <2>2, RunEventIInv DEF UdhcpcBegin, Unwritten
    <2>3. CASE LeaseLost(p)
      BY <1>1, <2>3, RunEventIInv DEF LeaseLost, Unwritten
    <2>4. CASE Lease(p)
      <3>1. PICK a \in Leases : RunEvent(p, "binding", "bound", a)
        BY <2>4 DEF Lease
      <3>2. QED
        BY <1>1, <2>4, <3>1, RunEventIInv DEF Lease, Unwritten
    <2>5. CASE DeconfigKill(p) \/ BoundIfconfig(p)
      BY <1>1, <2>5, ProgressIInv
    <2>6. CASE DeconfigIfconfig(p) \/ BoundMdnsd(p)
      BY <1>1, <2>6, ExitIInv
    <2>7. CASE UdhcpcBackground(p) \/ RewritePidFile(p)
      BY <1>1, <2>7, BackgroundIInv, RewriteIInv
    <2>8. QED
      BY <1>1, <2>1, <2>2, <2>3, <2>4, <2>5, <2>6, <2>7, MdnsdJoinIInv, WritePidFileIInv
         DEF Daemon, Udhcpc, Event
  <1>7. QED
    BY <1>2, <1>3, <1>4, <1>5, <1>6 DEF Next

\* The inductive invariant holds for ever.
LEMMA Invariance == Serial /\ Spec => []IInv
  <1>1. Serial /\ Init => IInv
    BY InitIInv
  <1>2. Serial /\ IInv /\ [Next]_vars => IInv'
    BY NextIInv
  <1>3. Serial => []Serial
    <2>1. Serial => Serial'
      BY DEF Serial
    <2>2. QED
      BY <2>1, PTL
  <1>4. QED
    BY <1>1, <1>2, <1>3, PTL DEF Spec

\* kill -9 `cat pidfile` hits the daemon netstop.script is after, for any
\* number of pids and whatever became of the processes in between: always when
\* ifplugd has a down delay, else until a stop overtakes a forking udhcpc.
THEOREM PidFilesAlwaysTrue == Serial /\ Spec => []PidFilesAreTrue
  <1>1. Serial /\ IInv => PidFilesAreTrue
    <2> SUFFICES ASSUME Serial, IInv, ~Excused PROVE PidFilesAreTrue
      BY DEF PidFilesAreTrue
    <2>1. ~overtaken
      BY DEF Excused, IInv, BaseInv, DelayPreventsRace
    <2>2. FilesNamed
      BY <2>1 DEF IInv, NamesInv
    <2>3. QED
      BY <2>2 DEF FilesNamed, Named, PidFilesAreTrue, Serial
  <1>2. Serial => []Serial
    <2>1. Serial => Serial'
      BY DEF Serial
    <2>2. QED
      BY <2>1, PTL
  <1>3. QED
    BY <1>1, <1>2, Invariance, PTL

\* However the link flaps and leases come and go, the interface has never two
\* DHCP clients: with a down delay always, else until a stop overtakes a
\* forking one.
THEOREM NeverTwoDhcpClients == Serial /\ Spec => []AtMostOneDhcpClient
  <1>1. IInv => AtMostOneDhcpClient
    BY DEF IInv, BaseInv, NamesInv, OneClient, DelayPreventsRace, Excused,
           AtMostOneDhcpClient
  <1>2. QED
    BY <1>1, Invariance, PTL

\* ifplugd's down delay is enough: it never overtakes a client that forks.
THEOREM DelayIsEnough == Serial /\ DownDelay /\ Spec => []~overtaken
  <1>1. IInv /\ DownDelay => ~overtaken
    BY DEF IInv, BaseInv, DelayPreventsRace
  <1>2. DownDelay => []DownDelay
    <2>1. DownDelay => DownDelay'
      OBVIOUS
    <2>2. QED
      BY <2>1, PTL
  <1>3. QED
    BY <1>1, <1>2, Invariance, PTL
-----------------------------------------------------------------------------
(***************************************************************************)
(* The address that stays is announced, whoever runs the scripts.          *)
(***************************************************************************)
\* An mdnsd announces the address, or is about to be started with it ...
Announced == \E p \in Pids : proc[p].kind = "mdnsd" /\ proc[p].addr = ifaddr

ToAnnounce ==
  \/ ifaddr = StaticAddr /\ \E r \in Runners : pc[r] \in {"udhcpd", "mdnsd"}
  \/ \E q \in Pids :
       proc[q].kind = "event" /\ proc[q].st = "mdnsd" /\ proc[q].addr = ifaddr

\* ... or a netstop.script is running, which takes the address away at its end.
TakingAway == \E r \in Runners : pc[r] \in {"kill", "rm", "ifdown"}

Addressed == ifaddr = NoAddr \/ Announced \/ ToAnnounce \/ TakingAway

AddressInv == ParentsAreClients /\ NoDeconfigFile /\ Addressed

\* A step of a process that leaves alone every mdnsd with the address and every
\* script about to start one.
LEMMA AddressKept ==
  ASSUME Addressed, UNCHANGED <<ifaddr, pc>>,
         \A p \in Pids :
           /\ proc[p].kind = "mdnsd" /\ proc[p].addr = ifaddr =>
                proc'[p].kind = "mdnsd" /\ proc'[p].addr = proc[p].addr
           /\ proc[p].kind = "event" /\ proc[p].st = "mdnsd" =>
                /\ proc'[p].kind = "event" /\ proc'[p].st = "mdnsd"
                /\ proc'[p].addr = proc[p].addr
  PROVE  Addressed'
  <1>1. Announced => Announced'
    BY DEF Announced
  <1>2. ToAnnounce => ToAnnounce'
    BY DEF ToAnnounce
  <1>3. TakingAway => TakingAway'
    BY DEF TakingAway
  <1>4. QED
    BY <1>1, <1>2, <1>3 DEF Addressed

\* A script that sets the address starts mdnsd next; one that kills takes the
\* address away in the end.
LEMMA RunnerAddressInv ==
  ASSUME TypeOK, AddressInv, NEW r \in Runners, Netstart(r) \/ Netstop(r)
  PROVE  AddressInv'
  <1> USE DEF AddressInv
  <1>1. CASE StartBranch(r) \/ StartIfconfig(r) \/ StartDone(r)
             \/ StopRemove(r) \/ StopIfconfig(r)
    <2>1. UNCHANGED proc
      BY <1>1 DEF StartBranch, StartIfconfig, StartDone, StopRemove, StopIfconfig
    <2>2. ParentsAreClients' /\ NoDeconfigFile'
      BY <1>1, <2>1 DEF StartBranch, StartIfconfig, StartDone, StopRemove, StopIfconfig,
         ParentsAreClients, NoDeconfigFile, TypeOK, PidFiles, Daemons
    <2>3. CASE StartIfconfig(r)
      <3>1. ifaddr' = StaticAddr /\ pc'[r] \in {"udhcpd", "mdnsd"}
        BY <2>3 DEF StartIfconfig, TypeOK
      <3>2. QED
        BY <2>2, <3>1 DEF Addressed, ToAnnounce
    <2>4. CASE StopIfconfig(r)
      BY <2>2, <2>4 DEF StopIfconfig, Addressed
    <2>5. CASE StopRemove(r)
      <3>1. pc'[r] \in {"kill", "ifdown"}
        BY <2>5 DEF StopRemove, Advance, TypeOK
      <3>2. QED
        BY <2>2, <3>1 DEF Addressed, TakingAway
    <2>6. CASE StartBranch(r) \/ StartDone(r)
      <3>1. /\ pc[r] \in {"up", "wait"} /\ UNCHANGED ifaddr
            /\ \A o \in Runners \ {r} : pc'[o] = pc[o]
        BY <2>6 DEF StartBranch, StartDone, TypeOK
      <3>2. Announced => Announced'
        BY <2>1, <3>1 DEF Announced
      <3>3. ToAnnounce => ToAnnounce'
        BY <2>1, <3>1 DEF ToAnnounce
      <3>4. TakingAway => TakingAway'
        BY <3>1 DEF TakingAway
      <3>5. QED
        BY <2>2, <3>1, <3>2, <3>3, <3>4 DEF Addressed
    <2>7. QED
      BY <1>1, <2>3, <2>4, <2>5, <2>6
  <1>2. CASE StartUdhcpd(r)
    <2>1. PICK p \in Free :
            proc' = [proc EXCEPT ![p] = Process("udhcpd", "joined", StaticAddr, NoPid)]
      BY <1>2 DEF StartUdhcpd
    <2>2. /\ p \in Pids /\ proc[p].kind = "none"
          /\ proc'[p].kind = "udhcpd"
          /\ \A q \in Pids \ {p} : proc'[q] = proc[q]
      BY <2>1 DEF Free, Dead, Process, TypeOK
    <2>3. /\ UNCHANGED <<pidfile, ifaddr>>
          /\ pc[r] = "udhcpd" /\ pc'[r] = "mdnsd"
          /\ \A o \in Runners \ {r} : pc'[o] = pc[o]
      BY <1>2 DEF StartUdhcpd, TypeOK, PidFiles
    <2>4. ParentsAreClients' /\ NoDeconfigFile'
      BY <2>2, <2>3 DEF ParentsAreClients, NoDeconfigFile
    <2>5. Announced => Announced'
      BY <2>2, <2>3 DEF Announced
    <2>6. ToAnnounce => ToAnnounce'
      BY <2>2, <2>3 DEF ToAnnounce
    <2>7. TakingAway => TakingAway'
      BY <2>3 DEF TakingAway
    <2>8. QED
      BY <2>3, <2>4, <2>5, <2>6, <2>7 DEF Addressed
  <1>3. CASE StartMdnsd(r)
    <2>1. PICK p \in Free :
            proc' = [proc EXCEPT ![p] = Process("mdnsd", "forked", StaticAddr, NoPid)]
      BY <1>3 DEF StartMdnsd
    <2>2. /\ p \in Pids /\ proc[p].kind = "none"
          /\ proc'[p].kind = "mdnsd" /\ proc'[p].addr = StaticAddr
          /\ \A q \in Pids \ {p} : proc'[q] = proc[q]
      BY <2>1 DEF Free, Dead, Process, TypeOK
    <2>3. /\ UNCHANGED <<pidfile, ifaddr>>
          /\ pc[r] = "mdnsd"
          /\ \A o \in Runners \ {r} : pc'[o] = pc[o]
      BY <1>3 DEF StartMdnsd, TypeOK, PidFiles
    <2>4. ParentsAreClients' /\ NoDeconfigFile'
      BY <2>2, <2>3 DEF ParentsAreClients, NoDeconfigFile
    <2>5. Announced => Announced'
      BY <2>2, <2>3 DEF Announced
    <2>6. ToAnnounce => ToAnnounce' \/ Announced'
      BY <2>2, <2>3 DEF ToAnnounce, Announced
    <2>7. TakingAway => TakingAway'
      BY <2>3 DEF TakingAway
    <2>8. QED
      BY <2>3, <2>4, <2>5, <2>6, <2>7 DEF Addressed
  <1>4. CASE StartUdhcpc(r)
    <2>1. PICK p \in Free :
            proc' = [proc EXCEPT ![p] = Process("udhcpc", "init", NoAddr, r)]
      BY <1>4 DEF StartUdhcpc
    <2>2. /\ p \in Pids /\ proc[p].kind = "none"
          /\ proc'[p].kind = "udhcpc"
          /\ \A q \in Pids \ {p} : proc'[q] = proc[q]
      BY <2>1 DEF Free, Dead, Process, TypeOK
    <2>3. /\ pidfile'["deconfig"] = pidfile["deconfig"] /\ UNCHANGED ifaddr
          /\ pc[r] = "dhcp"
          /\ \A o \in Runners \ {r} : pc'[o] = pc[o]
      BY <1>4 DEF StartUdhcpc, TypeOK, PidFiles
    <2>4. ParentsAreClients' /\ NoDeconfigFile'
      BY <2>2, <2>3 DEF ParentsAreClients, NoDeconfigFile
    <2>5. Announced => Announced'
      BY <2>2, <2>3 DEF Announced
    <2>6. ToAnnounce => ToAnnounce'
      BY <2>2, <2>3 DEF ToAnnounce
    <2>7. TakingAway => TakingAway'
      BY <2>3 DEF TakingAway
    <2>8. QED
      BY <2>3, <2>4, <2>5, <2>6, <2>7 DEF Addressed
  <1>5. CASE StopKill(r)
    <2>1. /\ pc'[r] \in {"kill", "rm", "ifdown"} /\ UNCHANGED pidfile
      BY <1>5 DEF StopKill, Advance, TypeOK
    <2>2. Addressed' /\ NoDeconfigFile'
      BY <2>1 DEF Addressed, TakingAway, NoDeconfigFile
    <2>3. CASE UNCHANGED proc
      BY <2>2, <2>3 DEF ParentsAreClients
    <2>4. CASE pidfile[target[r]] # NoPid
      <3> DEFINE p == pidfile[target[r]]
      <3>1. p \in Pids /\ proc' = Gone(proc, p)
        BY <1>5, <2>4 DEF StopKill, TypeOK, PidFiles
      <3> HIDE DEF p
      <3>2. /\ proc'[p].kind = "none"
            /\ \A q \in Pids \ {p} :
                 /\ proc'[q].kind = proc[q].kind
                 /\ proc'[q].parent = IF proc[q].parent = p THEN NoPid ELSE proc[q].parent
        BY <3>1, GoneEffect DEF TypeOK, Dead, Process
      <3>3. ASSUME NEW q \in Pids, proc'[q].kind = "event", proc'[q].parent \in Pids
            PROVE  proc'[proc'[q].parent].kind = "udhcpc"
        <4>1. q # p /\ proc[q].kind = "event"
          BY <3>2, <3>3
        <4>2. proc[q].parent # p /\ proc'[q].parent = proc[q].parent
          BY <3>2, <3>3, <4>1, PidAssumption
        <4>3. QED
          BY <3>2, <3>3, <4>1, <4>2 DEF ParentsAreClients
      <3>4. QED
        BY <2>2, <3>3 DEF ParentsAreClients
    <2>5. QED
      BY <1>5, <2>3, <2>4 DEF StopKill
  <1>6. QED
    BY <1>1, <1>2, <1>3, <1>4, <1>5 DEF Netstart, Netstop

\* The daemons, udhcpc and its scripts.
LEMMA ProcessAddressInv ==
  ASSUME TypeOK, AddressInv, NEW p \in Pids, Daemon(p) \/ Udhcpc(p) \/ Event(p)
  PROVE  AddressInv'
  <1> USE DEF AddressInv
  <1>1. CASE MdnsdJoin(p) \/ WritePidFile(p) \/ RewritePidFile(p)
    <2>1. \A q \in Pids \ {p} : proc'[q] = proc[q]
      BY <1>1 DEF MdnsdJoin, WritePidFile, RewritePidFile, TypeOK
    <2>2. /\ \/ proc'[p].kind = proc[p].kind /\ proc'[p].addr = proc[p].addr
             \/ /\ proc[p].kind = "mdnsd" /\ proc[p].addr # ifaddr
                /\ proc'[p].kind = "none"
          /\ proc[p].kind = "event" => proc[p].parent = proc'[p].parent
          /\ proc[p].kind = "event" => proc[p].st # "mdnsd"
      <3>1. CASE MdnsdJoin(p)
        BY <3>1 DEF MdnsdJoin, TypeOK, ProcessType, Dead, Process
      <3>2. CASE WritePidFile(p) \/ RewritePidFile(p)
        BY <3>2 DEF WritePidFile, RewritePidFile, Unwritten, TypeOK, ProcessType
      <3>3. QED
        BY <1>1, <3>1, <3>2
    <2>3. UNCHANGED <<ifaddr, pc>>
      BY <1>1 DEF MdnsdJoin, WritePidFile, RewritePidFile
    <2>4. NoDeconfigFile'
      <3>1. CASE WritePidFile(p)
        <4>1. proc[p].kind # "deconfig"
          BY DEF TypeOK, ProcessType, Daemons
        <4>2. QED
          BY <3>1, <4>1 DEF WritePidFile, NoDeconfigFile, TypeOK, PidFiles
      <3>2. CASE MdnsdJoin(p) \/ RewritePidFile(p)
        BY <3>2 DEF MdnsdJoin, RewritePidFile, NoDeconfigFile, TypeOK, PidFiles
      <3>3. QED
        BY <1>1, <3>1, <3>2
    <2>5. ParentsAreClients'
      BY <2>1, <2>2 DEF ParentsAreClients
    <2>6. Addressed'
      BY <2>1, <2>2, <2>3, AddressKept
    <2>7. QED
      BY <2>4, <2>5, <2>6
  <1>2. CASE UdhcpcBegin(p) \/ LeaseLost(p) \/ Lease(p)
    <2>1. PICK s, e, a : proc[p].kind = "udhcpc" /\ RunEvent(p, s, e, a)
      BY <1>2 DEF UdhcpcBegin, LeaseLost, Lease
    <2>2. PICK q \in Free :
            proc' = [proc EXCEPT ![p].st = s, ![q] = Process("event", e, a, p)]
      BY <2>1 DEF RunEvent
    <2>3. q \in Pids /\ q # p /\ proc[q].kind = "none"
      BY <2>1 DEF Free, Dead, Process
    <2>4. UNCHANGED <<ifaddr, pc, pidfile>>
      BY <2>1 DEF RunEvent
    <2>5. /\ proc'[q].kind = "event" /\ proc'[q].parent = p
          /\ proc'[p].kind = "udhcpc"
          /\ \A i \in Pids \ {p, q} : proc'[i] = proc[i]
      BY <2>1, <2>2, <2>3 DEF Process, TypeOK, ProcessType
    <2>6. ParentsAreClients' /\ NoDeconfigFile'
      BY <2>1, <2>3, <2>4, <2>5 DEF ParentsAreClients, NoDeconfigFile
    <2>7. Addressed'
      BY <2>1, <2>3, <2>4, <2>5, AddressKept
    <2>8. QED
      BY <2>6, <2>7
  <1>3. CASE DeconfigKill(p) \/ BoundIfconfig(p)
    <2>1. /\ proc[p].kind = "event" /\ UNCHANGED pc /\ NoDeconfigFile'
          /\ \A q \in Pids \ {p} : proc'[q] = proc[q]
          /\ proc'[p].kind = "event" /\ proc'[p].parent = proc[p].parent
          /\ proc'[p].addr = proc[p].addr
      BY <1>3 DEF DeconfigKill, BoundIfconfig, NoDeconfigFile, TypeOK, ProcessType, PidFiles
    <2>2. ParentsAreClients'
      BY <2>1 DEF ParentsAreClients
    <2>3. CASE DeconfigKill(p)
      <3>1. UNCHANGED ifaddr /\ proc[p].st # "mdnsd"
        BY <2>3 DEF DeconfigKill
      <3>2. Addressed'
        BY <2>1, <3>1, AddressKept
      <3>3. QED
        BY <2>1, <2>2, <3>2
    <2>4. CASE BoundIfconfig(p)
      <3>1. ifaddr' = proc[p].addr /\ proc'[p].st = "mdnsd"
        BY <2>4 DEF BoundIfconfig, TypeOK, ProcessType
      <3>2. Addressed'
        BY <2>1, <3>1 DEF Addressed, ToAnnounce
      <3>3. QED
        BY <2>1, <2>2, <3>2
    <2>5. QED
      BY <1>3, <2>3, <2>4
  <1>4. CASE DeconfigIfconfig(p) \/ BoundMdnsd(p)
    <2> DEFINE f == Gone(proc, p)
    <2>1. \/ proc' = f /\ ifaddr' = NoAddr
          \/ /\ UNCHANGED ifaddr /\ proc[p].st = "mdnsd"
             /\ \E m \in Free :
                  proc' = [f EXCEPT ![m] = Process("mdnsd", "forked", proc[p].addr, NoPid)]
      BY <1>4 DEF DeconfigIfconfig, BoundMdnsd
    <2>2. proc[p].kind = "event" /\ UNCHANGED <<pidfile, pc>>
      BY <1>4 DEF DeconfigIfconfig, BoundMdnsd
    <2>3. /\ f \in [Pids -> ProcessType] /\ f[p].kind = "none"
          /\ \A i \in Pids \ {p} :
               /\ f[i].kind = proc[i].kind /\ f[i].addr = proc[i].addr
               /\ i # proc[p].parent => f[i].st = proc[i].st
               /\ f[i].parent \in {proc[i].parent, NoPid}
      <3>1. proc \in [Pids -> ProcessType] /\ Dead.kind = "none"
        BY DEF TypeOK, Dead, Process
      <3>2. QED
        BY <3>1, GoneEffect
    <2> HIDE DEF f
    <2>4. proc[p].parent \in Pids => proc[proc[p].parent].kind = "udhcpc"
      BY <2>2 DEF ParentsAreClients
    <2>5. ASSUME NEW g \in [Pids -> ProcessType], g[p].kind # "event",
                 \A i \in Pids \ {p} :
                   \/ g[i].kind = proc[i].kind /\ g[i].parent \in {proc[i].parent, NoPid}
                   \/ proc[i].kind = "none" /\ g[i].kind = "mdnsd",
                 NEW i \in Pids, g[i].kind = "event", g[i].parent \in Pids
          PROVE  g[g[i].parent].kind = "udhcpc"
      <3>1. i # p /\ proc[i].kind = "event" /\ g[i].parent = proc[i].parent
        BY <2>5, PidAssumption
      <3>2. proc[proc[i].parent].kind = "udhcpc"
        BY <2>5, <3>1 DEF ParentsAreClients
      <3>3. QED
        BY <2>2, <2>5, <3>1, <3>2
    <2>6. CASE proc' = f /\ ifaddr' = NoAddr
      <3>1. ParentsAreClients'
        BY <2>3, <2>5, <2>6 DEF ParentsAreClients
      <3>2. QED
        BY <2>2, <2>6, <3>1 DEF NoDeconfigFile, Addressed
    <2>7. CASE /\ UNCHANGED ifaddr /\ proc[p].st = "mdnsd"
               /\ \E m \in Free :
                    proc' = [f EXCEPT ![m] = Process("mdnsd", "forked", proc[p].addr, NoPid)]
      <3>1. PICK m \in Free :
              proc' = [f EXCEPT ![m] = Process("mdnsd", "forked", proc[p].addr, NoPid)]
        BY <2>7
      <3>2. m \in Pids /\ m # p /\ proc[m].kind = "none"
        BY <2>2, <3>1 DEF Free, Dead, Process
      <3>3. /\ proc'[m].kind = "mdnsd" /\ proc'[m].addr = proc[p].addr
            /\ \A i \in Pids \ {m} : proc'[i] = f[i]
        BY <2>3, <3>1, <3>2 DEF Process
      <3>4. proc' \in [Pids -> ProcessType]
        BY ProcessTypeOK DEF TypeOK
      <3>5. ParentsAreClients'
        BY <2>3, <2>5, <3>2, <3>3, <3>4 DEF ParentsAreClients
      <3>6. ASSUME proc[p].addr = ifaddr PROVE Addressed'
        <4>1. Announced'
          BY <2>7, <3>2, <3>3, <3>6 DEF Announced
        <4>2. QED
          BY <4>1 DEF Addressed
      <3>7. ASSUME proc[p].addr # ifaddr PROVE Addressed'
        <4>1. Announced => Announced'
          BY <2>2, <2>3, <2>7, <3>2, <3>3 DEF Announced
        <4>2. ToAnnounce => ToAnnounce'
          BY <2>2, <2>3, <2>4, <2>7, <3>2, <3>3, <3>7 DEF ToAnnounce
        <4>3. TakingAway => TakingAway'
          BY <2>2 DEF TakingAway
        <4>4. QED
          BY <2>7, <4>1, <4>2, <4>3 DEF Addressed
      <3>8. QED
        BY <2>2, <3>5, <3>6, <3>7 DEF NoDeconfigFile
    <2>8. QED
      BY <2>1, <2>6, <2>7 DEF f
  <1>5. CASE UdhcpcBackground(p)
    <2>1. PICK q \in Free, st \in {"split", "splitBound"} :
            proc' = [Gone(proc, p) EXCEPT ![q] = Process("udhcpc", st, NoAddr, NoPid)]
      BY <1>5 DEF UdhcpcBackground
    <2> DEFINE f == Gone(proc, p)
    <2>2. /\ proc[p].kind = "udhcpc" /\ UNCHANGED <<ifaddr, pidfile, pc>>
      BY <1>5 DEF UdhcpcBackground
    <2>3. q \in Pids /\ q # p /\ proc[q].kind = "none"
      BY <2>1, <2>2 DEF Free, Dead, Process
    <2>4. /\ f \in [Pids -> ProcessType] /\ f[p].kind = "none"
          /\ \A i \in Pids \ {p} :
               /\ f[i].kind = proc[i].kind /\ f[i].addr = proc[i].addr
               /\ f[i].st = proc[i].st
               /\ f[i].parent = IF proc[i].parent = p THEN NoPid ELSE proc[i].parent
      <3>1. proc \in [Pids -> ProcessType] /\ Dead.kind = "none"
        BY DEF TypeOK, Dead, Process
      <3>2. QED
        BY <2>2, <3>1, GoneEffect
    <2>5. /\ proc'[q].kind = "udhcpc" /\ proc'[p].kind = "none"
          /\ \A i \in Pids \ {q} : proc'[i] = f[i]
      BY <2>1, <2>3, <2>4 DEF Process
    <2> HIDE DEF f
    <2>6. ParentsAreClients'
      <3> SUFFICES ASSUME NEW i \in Pids, proc'[i].kind = "event",
                          proc'[i].parent \in Pids
                   PROVE  proc'[proc'[i].parent].kind = "udhcpc"
        BY DEF ParentsAreClients
      <3>1. i # p /\ i # q /\ proc[i].kind = "event"
        BY <2>4, <2>5
      <3>2. proc'[i].parent = proc[i].parent /\ proc[i].parent # p
        BY <2>4, <2>5, <3>1, PidAssumption
      <3>3. proc[proc[i].parent].kind = "udhcpc"
        BY <3>1, <3>2 DEF ParentsAreClients
      <3>4. proc[i].parent # q
        BY <2>3, <3>3
      <3>5. QED
        BY <2>4, <2>5, <3>2, <3>3, <3>4
    <2>7. Addressed'
      BY <2>2, <2>3, <2>4, <2>5, AddressKept
    <2>8. QED
      BY <2>2, <2>6, <2>7 DEF NoDeconfigFile
  <1>6. QED
    BY <1>1, <1>2, <1>3, <1>4, <1>5 DEF Daemon, Udhcpc, Event

LEMMA NextAddressInv == TypeOK /\ AddressInv /\ [Next]_vars => AddressInv'
  <1> SUFFICES ASSUME TypeOK, AddressInv, [Next]_vars PROVE AddressInv'
    OBVIOUS
  <1>1. CASE LinkChange \/ Rest \/ UNCHANGED vars
    <2>1. UNCHANGED <<ifaddr, proc, pidfile, pc>>
      BY <1>1 DEF LinkChange, Rest, vars
    <2>2. QED
      BY <2>1 DEF AddressInv, ParentsAreClients, NoDeconfigFile, Addressed, Announced,
                  ToAnnounce, TakingAway
  <1>2. CASE IfplugdRun \/ Netconfig \/ NetconfigUp
    <2>1. PICK r \in Runners :
            /\ pc[r] \in {"idle", "sleep"}
            /\ \A o \in Runners \ {r} : pc'[o] = pc[o]
      BY <1>2, PidAssumption DEF IfplugdRun, Netconfig, NetconfigUp, BeginUp, BeginDown, TypeOK
    <2>2. UNCHANGED <<ifaddr, proc, pidfile>>
      BY <1>2 DEF IfplugdRun, Netconfig, NetconfigUp
    <2>3. TakingAway => TakingAway'
      BY <2>1 DEF TakingAway
    <2>4. ToAnnounce => ToAnnounce'
      BY <2>1, <2>2 DEF ToAnnounce
    <2>5. QED
      BY <2>2, <2>3, <2>4
         DEF AddressInv, ParentsAreClients, NoDeconfigFile, Addressed, Announced
  <1>3. CASE \E r \in Runners : Netstart(r) \/ Netstop(r)
    BY <1>3, RunnerAddressInv
  <1>4. CASE \E p \in Pids : Daemon(p) \/ Udhcpc(p) \/ Event(p)
    BY <1>4, ProcessAddressInv
  <1>5. QED
    BY <1>1, <1>2, <1>3, <1>4 DEF Next

\* Whatever runners, scripts and leases do to each other, lost leases and
\* settings edited in between included: an interface is never left with an
\* address that no mdnsd announces.
THEOREM AlwaysAdvertised == Spec => []AdvertisesAddress
  <1>1. Init => TypeOK /\ AddressInv
    BY InitTypeOK DEF Init, AddressInv, Addressed, ParentsAreClients, NoDeconfigFile,
       Dead, Process, PidFiles
  <1>2. TypeOK /\ AddressInv => AdvertisesAddress
    BY DEF AddressInv, Addressed, AdvertisesAddress, Announced, ToAnnounce, TakingAway,
           Quiet, InFlight, TypeOK
  <1>3. QED
    BY <1>1, <1>2, NextTypeOK, NextAddressInv, PTL DEF Spec

-----------------------------------------------------------------------------
(***************************************************************************)
(* Nothing is left by a stop, when no DHCP client is about.                *)
(***************************************************************************)
Servers == {"mdnsd", "udhcpd"}

\* netstart.script has yet to start this kind of daemon, netstop.script has
\* killed it, or both are through with it.
Absent(d) ==
  \/ pc["ifplugd"] \in {"up", "static", "gadget", "udhcpd", "ifdown"}
  \/ pc["ifplugd"] = "idle" /\ status = "down"
  \/ pc["ifplugd"] = "mdnsd" /\ d = "mdnsd"
  \/ pc["ifplugd"] = "kill" /\ target["ifplugd"] # "mdnsd" /\ d = "mdnsd"
  \/ pc["ifplugd"] = "rm" /\ (d = "mdnsd" \/ target["ifplugd"] = "udhcpd")

\* The processes there can be ...
OnlyServers ==
  \A p \in Pids :
    \/ proc[p] = Dead
    \/ proc[p].kind \in Servers /\ proc[p].st \in {"forked", "joined", "running"}

\* ... one of each kind, in its pid file once it runs ...
OneOfEach ==
  \A p, q \in Pids : proc[p].kind = proc[q].kind /\ proc[p].kind \in Servers => p = q

RunningIsNamed ==
  \A p \in Pids : proc[p].st = "running" => pidfile[proc[p].kind] = p

AbsentIsDead == \A p \in Pids : Absent(proc[p].kind) => proc[p] = Dead

\* ... where every one of them is by the time of a stop: ifplugd waited.
StopsRunning == Stopping => \A p \in Pids : proc[p] = Dead \/ proc[p].st = "running"

NoClientModes ==
  mode \in {"static", "gadget"} /\ pc["ifplugd"] \notin {"dhcp", "wait"}

CleanInv ==
  /\ ScriptFitsStatus /\ NoClientModes
  /\ OnlyServers /\ OneOfEach /\ RunningIsNamed /\ AbsentIsDead /\ StopsRunning

\* ifplugd has a down delay, and no interface is left to udhcpc.
Settled == Serial /\ DownDelay /\ "dhcp" \notin Modes

LEMMA InitCleanInv == Settled /\ Init => CleanInv
  BY DeadFields, PidAssumption, ModeAssumption
     DEF Settled, Serial, Init, CleanInv, ScriptFitsStatus, Starts, NoClientModes, OnlyServers,
         OneOfEach, RunningIsNamed, AbsentIsDead, StopsRunning, Stopping, Servers

\* Steps that leave the processes and their files alone.
LEMMA ScriptCleanInv ==
  ASSUME Settled, TypeOK, CleanInv, UNCHANGED <<proc, pidfile>>,
         \/ LinkChange \/ IfplugdRun \/ Rest \/ UNCHANGED vars
         \/ StartBranch("ifplugd") \/ StartIfconfig("ifplugd") \/ StartDone("ifplugd")
         \/ StopIfconfig("ifplugd")
  PROVE  CleanInv'
  <1> USE DEF CleanInv
  <1>1. OnlyServers' /\ OneOfEach' /\ RunningIsNamed'
    BY DEF OnlyServers, OneOfEach, RunningIsNamed
  <1>2. ScriptFitsStatus' /\ NoClientModes'
    BY PidAssumption, ModeAssumption
       DEF LinkChange, IfplugdRun, BeginUp, BeginDown, Rest, StartBranch, StartIfconfig,
           StartDone, StopIfconfig, AfterStop, vars, Settled, TypeOK, Starts, Stopping,
           ScriptFitsStatus, NoClientModes
  <1>3. StopsRunning'
    <2>1. CASE IfplugdRun
      <3>1. Stopping' => Quiet
        BY <2>1, PidAssumption DEF IfplugdRun, BeginUp, BeginDown, TypeOK, Stopping, Settled
      <3>2. ASSUME Quiet, NEW p \in Pids, proc[p] # Dead PROVE proc[p].st = "running"
        BY <3>2 DEF Quiet, Starting, OnlyServers
      <3>3. QED
        BY <3>1, <3>2 DEF StopsRunning
    <2>2. CASE ~IfplugdRun
      <3>1. Stopping' => Stopping
        BY <2>2, PidAssumption, ModeAssumption
           DEF LinkChange, Rest, StartBranch, StartIfconfig, StartDone, StopIfconfig,
               AfterStop, vars, TypeOK, Stopping
      <3>2. QED
        BY <3>1 DEF StopsRunning
    <2>3. QED
      BY <2>1, <2>2
  <1>4. AbsentIsDead'
    <2>1. ASSUME NEW d PROVE Absent(d)' => Absent(d)
      BY PidAssumption, ModeAssumption
         DEF LinkChange, IfplugdRun, BeginUp, BeginDown, Rest, StartBranch, StartIfconfig,
             StartDone, StopIfconfig, AfterStop, vars, TypeOK, Absent,
             ScriptFitsStatus, Starts, NoClientModes
    <2>2. QED
      BY <2>1 DEF AbsentIsDead
  <1>5. QED
    BY <1>1, <1>2, <1>3, <1>4

\* netstart.script forks a daemon of which there is none.
LEMMA StartCleanInv ==
  ASSUME Settled, TypeOK, CleanInv, StartUdhcpd("ifplugd") \/ StartMdnsd("ifplugd")
  PROVE  CleanInv'
  <1> USE DEF CleanInv
  <1>1. PICK p \in Free, k \in Servers, s \in {"joined", "forked"} :
          /\ proc' = [proc EXCEPT ![p] = Process(k, s, StaticAddr, NoPid)]
          /\ k = "udhcpd" <=> pc["ifplugd"] = "udhcpd"
    BY DEF StartUdhcpd, StartMdnsd, Servers
  <1>2. /\ p \in Pids /\ proc[p].kind = "none"
        /\ proc'[p].kind = k /\ proc'[p].st = s
        /\ \A q \in Pids \ {p} : proc'[q] = proc[q]
    BY <1>1 DEF Free, Dead, Process, TypeOK
  <1>3. /\ UNCHANGED <<status, mode, pidfile>> /\ pc["ifplugd"] \in {"udhcpd", "mdnsd"}
        /\ pc'["ifplugd"] = IF k = "udhcpd" THEN "mdnsd" ELSE "idle"
        /\ status = "up"
    BY <1>1, PidAssumption
       DEF StartUdhcpd, StartMdnsd, TypeOK, Servers, ScriptFitsStatus, Starts, Stopping
  <1>4. ScriptFitsStatus' /\ NoClientModes'
    BY <1>3 DEF ScriptFitsStatus, NoClientModes, Starts, Stopping
  <1>5. \A q \in Pids : proc[q].kind # k
    BY <1>1, <1>3, DeadFields DEF AbsentIsDead, Absent, Servers
  <1>6. OnlyServers' /\ OneOfEach'
    BY <1>2, <1>5 DEF OnlyServers, OneOfEach, Servers
  <1>7. RunningIsNamed'
    BY <1>2, <1>3 DEF RunningIsNamed
  <1>8. StopsRunning'
    BY <1>3 DEF StopsRunning, Stopping
  <1>9. AbsentIsDead'
    BY <1>1, <1>2, <1>3 DEF AbsentIsDead, Absent, Servers
  <1>10. QED
    BY <1>4, <1>6, <1>7, <1>8, <1>9

LEMMA NoEvents == OnlyServers => \A p \in Pids : proc[p].kind # "event"
  BY DeadFields DEF OnlyServers, Servers

\* netstop.script kills the one daemon of its kind, or there is none.
LEMMA KillCleanInv ==
  ASSUME Settled, TypeOK, CleanInv, StopKill("ifplugd")
  PROVE  CleanInv'
  <1> USE DEF CleanInv
  <1> DEFINE t == target["ifplugd"]
             p == pidfile[t]
  <1>1. /\ pc["ifplugd"] = "kill" /\ t \in Daemons /\ p \in Pids \cup {NoPid}
        /\ UNCHANGED <<status, mode, pidfile>> /\ status = "down"
    BY PidAssumption DEF StopKill, TypeOK, PidFiles, ScriptFitsStatus, Stopping
  <1>2. \A q \in Pids : proc[q].kind = t /\ t \in Servers => q = p
    BY <1>1, DeadFields DEF StopsRunning, Stopping, RunningIsNamed, Servers
  <1>3. \A q \in Pids : proc[q].kind = "mdnsd" => t = "mdnsd"
    BY <1>1, DeadFields DEF AbsentIsDead, Absent
  <1>4. CASE p = NoPid
    <2>1. /\ UNCHANGED proc
          /\ pc'["ifplugd"] = IF t = "udhcpd" THEN "ifdown" ELSE "kill"
          /\ target'["ifplugd"] = NextTarget(t)
      BY <1>4, PidAssumption DEF StopKill, Advance, TypeOK
    <2>2. \A q \in Pids : proc[q].kind = t => t \notin Servers
      BY <1>2, <1>4, PidAssumption
    <2>3. AbsentIsDead'
      <3>1. ASSUME NEW q \in Pids, Absent(proc[q].kind)' PROVE proc[q] = Dead
        <4>1. CASE t = "udhcpd"
          BY <1>3, <2>2, <4>1 DEF OnlyServers, Servers
        <4>2. CASE t # "udhcpd"
          <5>1. proc[q].kind = "mdnsd"
            BY <1>1, <2>1, <3>1, <4>2 DEF Absent
          <5>2. QED
            BY <1>3, <2>2, <5>1 DEF Servers
        <4>3. QED
          BY <4>1, <4>2
      <3>2. QED
        BY <2>1, <3>1 DEF AbsentIsDead
    <2>4. OnlyServers' /\ OneOfEach' /\ RunningIsNamed' /\ StopsRunning'
      BY <1>1, <2>1 DEF OnlyServers, OneOfEach, RunningIsNamed, StopsRunning, Stopping
    <2>5. ScriptFitsStatus' /\ NoClientModes'
      BY <1>1, <2>1 DEF ScriptFitsStatus, NoClientModes, Starts, Stopping
    <2>6. QED
      BY <2>3, <2>4, <2>5
  <1>5. CASE p # NoPid
    <2>1. /\ p \in Pids /\ proc' = Gone(proc, p)
          /\ pc'["ifplugd"] = "rm" /\ UNCHANGED target
      BY <1>1, <1>5, PidAssumption DEF StopKill, TypeOK
    <2>2. /\ proc'[p] = Dead
          /\ \A q \in Pids \ {p} :
               proc'[q].kind = proc[q].kind /\ proc'[q].st = proc[q].st
      BY <2>1, GoneEffect, NoEvents DEF TypeOK
    <2>3. \A q \in Pids : proc[q] = Dead => proc'[q] = Dead
      <3>1. ASSUME NEW q \in Pids, q # p, proc[q] = Dead PROVE proc'[q] = Dead
        <4>1. Gone(proc, p)[q] = proc[q]
          BY <2>1, <3>1, NoEvents, DeadFields, PidAssumption DEF Gone
        <4>2. QED
          BY <2>1, <3>1, <4>1
      <3>2. QED
        BY <2>2, <3>1
    <2> HIDE DEF p
    <2>4. OnlyServers' /\ OneOfEach'
      <3>1. OnlyServers'
        BY <2>2, <2>3 DEF OnlyServers
      <3>2. OneOfEach'
        BY <2>2, DeadFields DEF OneOfEach, Servers
      <3>3. QED
        BY <3>1, <3>2
    <2>5. RunningIsNamed'
      BY <1>1, <2>2, DeadFields DEF RunningIsNamed
    <2>6. StopsRunning'
      BY <1>1, <2>2, <2>3 DEF StopsRunning, Stopping
    <2>7. AbsentIsDead'
      <3>1. ASSUME NEW q \in Pids, q # p, Absent(proc[q].kind)' PROVE proc[q] = Dead
        <4>1. proc[q].kind = "mdnsd" \/ t = "udhcpd"
          BY <1>1, <2>1, <2>2, <3>1 DEF Absent
        <4>2. proc[q].kind # t \/ t \notin Servers
          BY <1>2, <3>1
        <4>3. QED
          BY <1>3, <4>1, <4>2 DEF OnlyServers, Servers
      <3>2. QED
        BY <2>2, <2>3, <3>1 DEF AbsentIsDead
    <2>8. ScriptFitsStatus' /\ NoClientModes'
      BY <1>1, <2>1 DEF ScriptFitsStatus, NoClientModes, Starts, Stopping
    <2>9. QED
      BY <2>4, <2>5, <2>6, <2>7, <2>8
  <1>6. QED
    BY <1>4, <1>5

\* ... and removes a file that names nobody any more.
LEMMA RemoveCleanInv ==
  ASSUME Settled, TypeOK, CleanInv, StopRemove("ifplugd")
  PROVE  CleanInv'
  <1> USE DEF CleanInv
  <1> DEFINE t == target["ifplugd"]
  <1>1. /\ pc["ifplugd"] = "rm" /\ t \in Daemons
        /\ UNCHANGED <<proc, status, mode>>
        /\ pc'["ifplugd"] = IF t = "udhcpd" THEN "ifdown" ELSE "kill"
        /\ target'["ifplugd"] = NextTarget(t)
        /\ pidfile' = [pidfile EXCEPT ![t] = NoPid]
    BY PidAssumption DEF StopRemove, Advance, TypeOK
  <1>2. OnlyServers' /\ OneOfEach' /\ StopsRunning'
    BY <1>1 DEF OnlyServers, OneOfEach, StopsRunning, Stopping
  <1>3. \A q \in Pids : proc[q].kind = t => proc[q] = Dead
    BY <1>1 DEF AbsentIsDead, Absent, OnlyServers, Servers, Daemons
  <1>4. RunningIsNamed'
    BY <1>1, <1>3, DeadFields DEF RunningIsNamed, TypeOK
  <1>5. AbsentIsDead'
    BY <1>1 DEF AbsentIsDead, Absent
  <1>6. ScriptFitsStatus' /\ NoClientModes'
    BY <1>1 DEF ScriptFitsStatus, NoClientModes, Starts, Stopping
  <1>7. QED
    BY <1>2, <1>4, <1>5, <1>6

\* A daemon starts; a client or its scripts, there are none.
LEMMA ProcessCleanInv ==
  ASSUME Settled, TypeOK, CleanInv, NEW p \in Pids, Daemon(p) \/ Udhcpc(p) \/ Event(p)
  PROVE  CleanInv'
  <1> USE DEF CleanInv
  <1>1. Daemon(p)
    BY DeadFields
       DEF OnlyServers, Servers, Udhcpc, UdhcpcBegin, LeaseLost, Lease, UdhcpcBackground,
           RewritePidFile, Unwritten,
           Event, DeconfigKill, DeconfigIfconfig, BoundIfconfig, BoundMdnsd
  <1>2. UNCHANGED <<pc, target, status, mode>>
    BY <1>1 DEF Daemon, MdnsdJoin, WritePidFile
  <1>3. ~Stopping /\ proc[p] # Dead
    BY <1>1, DeadFields DEF Daemon, MdnsdJoin, WritePidFile, StopsRunning, Stopping
  <1>4. /\ \A q \in Pids \ {p} : proc'[q] = proc[q]
        /\ proc'[p] = Dead \/ proc'[p].kind = proc[p].kind
    BY <1>1 DEF Daemon, MdnsdJoin, WritePidFile, TypeOK, ProcessType
  <1>5. proc'[p] = Dead \/ proc'[p].st \in {"joined", "running"}
    BY <1>1 DEF Daemon, MdnsdJoin, WritePidFile, TypeOK, ProcessType
  <1>6. OnlyServers' /\ OneOfEach'
    <2>1. OnlyServers'
      BY <1>3, <1>4, <1>5 DEF OnlyServers
    <2>2. OneOfEach'
      BY <1>4, DeadFields DEF OneOfEach, Servers
    <2>3. QED
      BY <2>1, <2>2
  <1>7. RunningIsNamed'
    <2>1. CASE MdnsdJoin(p)
      BY <1>4, <2>1, DeadFields DEF MdnsdJoin, RunningIsNamed, TypeOK, ProcessType
    <2>2. CASE WritePidFile(p)
      <3>1. /\ pidfile'[proc[p].kind] = p
            /\ \A f \in PidFiles : f # proc[p].kind => pidfile'[f] = pidfile[f]
            /\ proc[p].kind \in Servers
        BY <1>3, <2>2 DEF WritePidFile, TypeOK, OnlyServers, Servers, PidFiles, Daemons
      <3>2. proc'[p].kind = proc[p].kind
        BY <2>2 DEF WritePidFile, TypeOK, ProcessType
      <3>3. ASSUME NEW q \in Pids, q # p, proc[q].st = "running"
            PROVE  pidfile'[proc[q].kind] = q
        <4>1. proc[q].kind \in Servers
          BY <3>3, DeadFields DEF OnlyServers
        <4>2. QED
          BY <3>1, <3>3, <4>1 DEF OneOfEach, RunningIsNamed, Servers, PidFiles, Daemons
      <3>4. QED
        BY <1>4, <3>1, <3>2, <3>3 DEF RunningIsNamed
    <2>3. QED
      BY <1>1, <2>1, <2>2 DEF Daemon
  <1>8. AbsentIsDead'
    BY <1>2, <1>3, <1>4 DEF AbsentIsDead, Absent
  <1>9. StopsRunning' /\ ScriptFitsStatus' /\ NoClientModes'
    BY <1>2, <1>3 DEF StopsRunning, Stopping, ScriptFitsStatus, NoClientModes, Starts
  <1>10. QED
    BY <1>6, <1>7, <1>8, <1>9

LEMMA NextCleanInv == Settled /\ TypeOK /\ CleanInv /\ [Next]_vars => CleanInv'
  <1> SUFFICES ASSUME Settled, TypeOK, CleanInv, [Next]_vars PROVE CleanInv'
    OBVIOUS
  <1>1. CASE LinkChange \/ IfplugdRun \/ Rest \/ UNCHANGED vars
    BY <1>1, ScriptCleanInv DEF LinkChange, IfplugdRun, Rest, vars
  <1>2. CASE Netconfig \/ NetconfigUp
    BY <1>2 DEF Netconfig, NetconfigUp, Settled, Serial
  <1>3. CASE \E r \in Runners : Netstart(r) \/ Netstop(r)
    <2>1. Netstart("ifplugd") \/ Netstop("ifplugd")
      BY <1>3 DEF Settled, Serial
    <2>2. CASE StartBranch("ifplugd") \/ StartIfconfig("ifplugd")
               \/ StartDone("ifplugd") \/ StopIfconfig("ifplugd")
      BY <2>2, ScriptCleanInv DEF StartBranch, StartIfconfig, StartDone, StopIfconfig
    <2>3. ~StartUdhcpc("ifplugd")
      BY DEF StartUdhcpc, CleanInv, NoClientModes
    <2>4. QED
      BY <2>1, <2>2, <2>3, StartCleanInv, KillCleanInv, RemoveCleanInv DEF Netstart, Netstop
  <1>4. CASE \E p \in Pids : Daemon(p) \/ Udhcpc(p) \/ Event(p)
    BY <1>4, ProcessCleanInv
  <1>5. QED
    BY <1>1, <1>2, <1>3, <1>4 DEF Next

\* After a stop nothing is left, for any number of pids and link changes, where
\* no DHCP client is about and ifplugd waits before it acts on a lost link.
THEOREM AlwaysStoppedClean == Settled /\ Spec => []StoppedClean
  <1>1. TypeOK /\ CleanInv /\ Settled => StoppedClean
    BY DEF StoppedClean, CleanInv, AbsentIsDead, Absent, Idle, Settled, Serial
  <1>2. Settled => []Settled
    <2>1. Settled => Settled'
      BY DEF Settled, Serial
    <2>2. QED
      BY <2>1, PTL
  <1>3. Settled /\ Init => TypeOK /\ CleanInv
    BY InitTypeOK, InitCleanInv
  <1>4. QED
    BY <1>1, <1>2, <1>3, NextTypeOK, NextCleanInv, PTL DEF Spec
=============================================================================
