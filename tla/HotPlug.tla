------------------------------ MODULE HotPlug ------------------------------
(***************************************************************************)
(* Hot plug of network interfaces.  mdev takes the kernel's events one by  *)
(* one and runs mdev-helper-net for each, to its end; the helper starts    *)
(* ifplugd, and wpa_supplicant on a wireless interface, when an interface  *)
(* comes, and kills them when it goes.  It knows whether they run by their *)
(* pid files, which they write and remove themselves, in their own time.   *)
(* rc sends the kernel's event for every interface once more, for those    *)
(* that were there before mdev or before the files the helper reads.       *)
(***************************************************************************)
EXTENDS Faults, Sequences, FiniteSets

CONSTANTS
  Interfaces,  \* network interfaces but lo, in the order of their names
  Wireless,    \* those named wlan
  Modular,     \* those whose driver rc loads
  Pids,        \* processes: 1 up to some number
  NoPid

ASSUME InterfacesAssumption ==
  LET all == {Interfaces[i] : i \in DOMAIN Interfaces}
  IN  Interfaces \in Seq(all) /\ Wireless \cup Modular \subseteq all
ASSUME PidsAssumption == Pids \subseteq Nat /\ NoPid \notin Pids

VARIABLES
  plugged,   \* interfaces whose device is there
  drivers,   \* interfaces whose driver is loaded
  present,   \* interfaces the kernel shows
  uevents,   \* the kernel's events that mdev has not taken yet
  listening, \* has mdev -d been started?
  platform,  \* is there an /etc/platform?
  wpaConf,   \* is there an /etc/wpa_supplicant.conf?
  helper,    \* mdev-helper-net: the event it handles and how far it is
  procs,     \* pid |-> the daemon it is and its state, or Gone
  pidfile,   \* daemon |-> the pid in its pid file, or NoPid
  spoiled    \* "start": a daemon died without a pid file; "usurped": a daemon
             \* removed the pid file of its successor as it ended

kernelVars == <<plugged, drivers, present>>
hotplugVars == <<kernelVars, uevents, listening, platform, wpaConf, helper,
                 procs, pidfile, spoiled>>

AllInterfaces == {Interfaces[i] : i \in DOMAIN Interfaces}

Daemons == ({"ifplugd"} \X AllInterfaces) \cup ({"wpa_supplicant"} \X Wireless)

Gone == [daemon |-> <<"none", "none">>, state |-> "gone"]
Idle == [action |-> "none", interface |-> "none", step |-> "idle"]

\* Everything but the devices and spoiled is in RAM and starts anew with power.
RamInit ==
  /\ drivers = AllInterfaces \ Modular
  /\ present = {}
  /\ uevents = <<>> /\ listening = FALSE
  /\ platform = FALSE /\ wpaConf = FALSE
  /\ helper = Idle
  /\ procs = [p \in Pids |-> Gone]
  /\ pidfile = [d \in Daemons |-> NoPid]
  /\ spoiled = {}

Uevent(action, i) ==
  uevents' = IF listening THEN Append(uevents, <<action, i>>) ELSE uevents
-----------------------------------------------------------------------------
(* The kernel, and whoever plugs and unplugs. *)

KernelAdds(i) ==
  /\ i \in (plugged \cap drivers) \ present
  /\ present' = present \cup {i}
  /\ Uevent("add", i)
  /\ UNCHANGED <<plugged, drivers, listening, platform, wpaConf, helper, procs,
                 pidfile, spoiled, faults>>

Unplug(i) ==
  /\ i \in plugged /\ i \in present
  /\ Fault
  /\ plugged' = plugged \ {i} /\ present' = present \ {i}
  /\ Uevent("remove", i)
  /\ UNCHANGED <<drivers, listening, platform, wpaConf, helper, procs, pidfile,
                 spoiled>>

Plug(i) ==
  /\ i \notin plugged
  /\ plugged' = plugged \cup {i}
  /\ UNCHANGED <<drivers, present, uevents, listening, platform, wpaConf,
                 helper, procs, pidfile, spoiled, faults>>
-----------------------------------------------------------------------------
(* mdev and mdev-helper-net. *)

helperRest == <<kernelVars, listening, platform, wpaConf, faults>>

\* Without /etc/platform the shell gives up at ". /etc/platform".
TakeEvent ==
  /\ listening /\ helper = Idle /\ uevents # <<>>
  /\ uevents' = Tail(uevents)
  /\ helper' = IF ~ platform THEN Idle
               ELSE [action |-> Head(uevents)[1], interface |-> Head(uevents)[2],
                     step |-> IF Head(uevents)[1] = "add" THEN "ifplugd"
                              ELSE "kill wpa_supplicant"]
  /\ UNCHANGED <<helperRest, procs, pidfile, spoiled>>

GoOn(step) == helper' = IF step = "idle" THEN Idle ELSE [helper EXCEPT !.step = step]

FreePid == CHOOSE p \in Pids : procs[p] = Gone /\ \A q \in Pids :
                                          procs[q] = Gone => p <= q

Spawn(d) ==
  /\ \E p \in Pids : procs[p] = Gone
  /\ procs' = [procs EXCEPT ![FreePid] = [daemon |-> d, state |-> "starting"]]

\* Mutant: an ifplugd is started whether or not there is a pid file.
StartIfplugdAlways ==
  /\ helper.step = "ifplugd"
  /\ Spawn(<<"ifplugd", helper.interface>>)
  /\ GoOn("await ifplugd")
  /\ UNCHANGED <<helperRest, uevents, pidfile, spoiled>>

StartIfplugd ==
  /\ helper.step = "ifplugd"
  /\ IF pidfile[<<"ifplugd", helper.interface>>] = NoPid
     THEN Spawn(<<"ifplugd", helper.interface>>) /\ GoOn("await ifplugd")
     ELSE UNCHANGED procs /\ GoOn("wpa_supplicant")
  /\ UNCHANGED <<helperRest, uevents, pidfile, spoiled>>

StartWpaSupplicant ==
  /\ helper.step = "wpa_supplicant"
  /\ LET d == <<"wpa_supplicant", helper.interface>>
     IN  IF helper.interface \in Wireless /\ wpaConf /\ pidfile[d] = NoPid
         THEN Spawn(d) /\ GoOn("await wpa_supplicant")
         ELSE UNCHANGED procs /\ GoOn("idle")
  /\ UNCHANGED <<helperRest, uevents, pidfile, spoiled>>

\* WaitForFile, for ever if need be
AwaitPidFile ==
  /\ \/ /\ helper.step = "await ifplugd"
        /\ pidfile[<<"ifplugd", helper.interface>>] # NoPid
        /\ GoOn("wpa_supplicant")
     \/ /\ helper.step = "await wpa_supplicant"
        /\ pidfile[<<"wpa_supplicant", helper.interface>>] # NoPid
        /\ GoOn("idle")
  /\ UNCHANGED <<helperRest, uevents, procs, pidfile, spoiled>>

\* Mutant: the pid file is removed before it is read, and nothing is killed.
KillNothing(d) ==
  /\ pidfile' = [e \in Daemons |-> IF e = d THEN NoPid ELSE pidfile[e]]
  /\ UNCHANGED procs

\* kill, and rm -f of the pid file without waiting for the process to end
Kill(d) ==
  IF d \in Daemons /\ pidfile[d] # NoPid
  THEN /\ procs' = [p \in Pids |-> IF p = pidfile[d] /\ procs[p].daemon = d
                                   THEN [daemon |-> d, state |-> "ending"]
                                   ELSE procs[p]]
       /\ pidfile' = [pidfile EXCEPT ![d] = NoPid]
  ELSE UNCHANGED <<procs, pidfile>>

KillWpaSupplicant ==
  /\ helper.step = "kill wpa_supplicant"
  /\ Kill(<<"wpa_supplicant", helper.interface>>)
  /\ GoOn("kill ifplugd")
  /\ UNCHANGED <<helperRest, uevents, spoiled>>

KillIfplugd ==
  /\ helper.step = "kill ifplugd"
  /\ Kill(<<"ifplugd", helper.interface>>)
  /\ GoOn("idle")
  /\ UNCHANGED <<helperRest, uevents, spoiled>>

Mdev ==
  \/ TakeEvent
  \/ StartIfplugd
  \/ StartWpaSupplicant
  \/ AwaitPidFile
  \/ KillWpaSupplicant
  \/ KillIfplugd
-----------------------------------------------------------------------------
(* The daemons, as the helper relies on them. *)

daemonRest == <<kernelVars, uevents, listening, platform, wpaConf, helper>>

Of(p, program) == procs[p].daemon[1] = program

NoInterface(p) == Of(p, "wpa_supplicant") /\ procs[p].daemon[2] \notin present

WritePidFile(p) ==
  /\ procs[p].state = "starting" /\ ~ NoInterface(p)
  /\ procs' = [procs EXCEPT ![p].state = "running"]
  /\ pidfile' = [pidfile EXCEPT ![procs[p].daemon] = p]
  /\ UNCHANGED <<daemonRest, spoiled, faults>>

\* wpa_supplicant does not start without its interface; either may fail.
FailToStart(p) ==
  /\ procs[p].state = "starting"
  /\ IF NoInterface(p) THEN UNCHANGED faults ELSE Fault
  /\ procs' = [procs EXCEPT ![p] = Gone]
  /\ spoiled' = spoiled \cup {"start"}
  /\ UNCHANGED <<daemonRest, pidfile>>

\* On its way out a daemon removes its pid file, whatever it holds by then.
EndDaemon(p) ==
  /\ procs[p].state = "ending"
  /\ procs' = [procs EXCEPT ![p] = Gone]
  /\ pidfile' = [pidfile EXCEPT ![procs[p].daemon] = NoPid]
  /\ spoiled' = IF pidfile[procs[p].daemon] = NoPid THEN spoiled
                ELSE spoiled \cup {"usurped"}
  /\ UNCHANGED <<daemonRest, faults>>

Daemon(p) == WritePidFile(p) \/ FailToStart(p) \/ EndDaemon(p)

\* What a daemon is sure to do in time
DaemonGoesOn(p) ==
  WritePidFile(p) \/ (NoInterface(p) /\ FailToStart(p)) \/ EndDaemon(p)

Watching(i) == {p \in Pids : procs[p].daemon = <<"ifplugd", i>>
                             /\ procs[p].state \in {"starting", "running"}}
=============================================================================
