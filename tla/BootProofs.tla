----------------------------- MODULE BootProofs -----------------------------
(***************************************************************************)
(* What holds of a booting target, proved for any number of interfaces and *)
(* processes, any card and downloads, and any number of mishaps: one       *)
(* ifplugd for each interface that is there and none for one that is gone, *)
(* no part of a package that is not whole, a helper script only for what   *)
(* is complete, and no extension lost to a download that failed.           *)
(***************************************************************************)
EXTENDS Boot, ZipReaderProofs, FiniteSetTheorems

Ifplugd(p, i, state) ==
  procs[p].daemon = <<"ifplugd", i>> /\ procs[p].state = state

\* The shapes that updates of the three rely on; what is in them may be anything.
Shapes ==
  /\ procs = [p \in Pids |-> [daemon |-> procs[p].daemon, state |-> procs[p].state]]
  /\ pidfile = [d \in Daemons |-> pidfile[d]]
  /\ helper = [action |-> helper.action, interface |-> helper.interface,
               step |-> helper.step]

\* An ifplugd that starts is the one that the helper waits for, and until it
\* has written its pid file there is none.
StartingIsAwaited ==
  \A p \in Pids, i \in AllInterfaces : Ifplugd(p, i, "starting") =>
    /\ helper.step = "await ifplugd" /\ helper.interface = i
    /\ pidfile[<<"ifplugd", i>>] = NoPid

OneStarts ==
  \A p, q \in Pids, i \in AllInterfaces :
    Ifplugd(p, i, "starting") /\ Ifplugd(q, i, "starting") => p = q

\* A running ifplugd is named by its pid file, so that the next helper sees it.
RunningIsNamed ==
  "usurped" \notin spoiled =>
    \A p \in Pids, i \in AllInterfaces :
      Ifplugd(p, i, "running") => pidfile[<<"ifplugd", i>>] = p

WatchInv == Shapes /\ StartingIsAwaited /\ OneStarts /\ RunningIsNamed

watchVars == <<procs, pidfile, helper, spoiled>>

\* helper' is helper at another step.
HelperAt(step) ==
  helper' = [action |-> helper.action, interface |-> helper.interface, step |-> step]

\* If d is an ifplugd, the helper is going to wait for it.
AwaitedAt(d, step) ==
  \A i \in AllInterfaces : d = <<"ifplugd", i>> =>
    step = "await ifplugd" /\ helper.interface = i /\ pidfile[d] = NoPid

----------------------------------------------------------------------------
\* The invariant looks at the daemons, their pid files and the helper only.
LEMMA OthersKeepWatchInv ==
  ASSUME WatchInv, UNCHANGED watchVars
  PROVE  WatchInv'
BY DEF WatchInv, watchVars, Shapes, StartingIsAwaited, OneStarts, RunningIsNamed,
       Ifplugd

\* While the helper does anything but wait for an ifplugd, none is starting.
LEMMA NoneStarts ==
  ASSUME WatchInv, helper.step # "await ifplugd",
         NEW p \in Pids, NEW i \in AllInterfaces
  PROVE  ~Ifplugd(p, i, "starting")
BY DEF WatchInv, StartingIsAwaited

\* Everything starts anew with the power.
LEMMA RamInitWatchInv == RamInit => WatchInv
<1> SUFFICES ASSUME RamInit PROVE WatchInv
  OBVIOUS
<1>1. procs = [p \in Pids |-> Gone] /\ pidfile = [d \in Daemons |-> NoPid]
      /\ helper = Idle /\ spoiled = {}
  BY DEF RamInit
<1>2. Shapes
  BY <1>1 DEF Shapes, Gone, Idle
<1>3. \A p \in Pids : \A i, s : s # "gone" => ~Ifplugd(p, i, s)
  BY <1>1 DEF Ifplugd, Gone
<1> QED
  BY <1>2, <1>3 DEF WatchInv, StartingIsAwaited, OneStarts, RunningIsNamed

LEMMA TakeEventWatchInv ==
  ASSUME WatchInv, TakeEvent
  PROVE  WatchInv'
<1>1. helper.step = "idle"
  BY DEF TakeEvent, Idle
<1>2. procs' = procs /\ pidfile' = pidfile /\ spoiled' = spoiled
  BY DEF TakeEvent
<1>3. Shapes'
  BY <1>2 DEF TakeEvent, WatchInv, Shapes, Idle
<1>4. \A p \in Pids, i \in AllInterfaces : ~Ifplugd(p, i, "starting")'
  BY <1>1, <1>2, NoneStarts DEF Ifplugd
<1> QED
  BY <1>2, <1>3, <1>4 DEF WatchInv, StartingIsAwaited, OneStarts, RunningIsNamed,
                          Ifplugd

\* Starting a process: whichever pid it gets, nothing is lost to the invariant.
LEMMA SpawnWatchInv ==
  ASSUME WatchInv, NEW d, Spawn(d), pidfile' = pidfile, spoiled' = spoiled,
         \A p \in Pids, i \in AllInterfaces : ~Ifplugd(p, i, "starting"),
         NEW step, HelperAt(step),
         AwaitedAt(d, step)
  PROVE  WatchInv'
<1>1. procs' = [procs EXCEPT ![FreePid] = [daemon |-> d, state |-> "starting"]]
  BY DEF Spawn
<1>2. \A p \in Pids : procs'[p] = IF p = FreePid
                        THEN [daemon |-> d, state |-> "starting"] ELSE procs[p]
  BY <1>1 DEF WatchInv, Shapes
<1>3. helper'.step = step /\ helper'.interface = helper.interface
  BY DEF HelperAt
<1>4. Shapes'
  <2>1. helper' = [action |-> helper'.action, interface |-> helper'.interface,
                   step |-> helper'.step]
    BY DEF HelperAt
  <2>2. DOMAIN procs' = Pids
    BY <1>1 DEF WatchInv, Shapes
  <2>3. \A p \in Pids : procs'[p] = [daemon |-> procs'[p].daemon,
                                     state |-> procs'[p].state]
    BY <1>2 DEF WatchInv, Shapes
  <2>4. procs' = [p \in Pids |-> procs'[p]]
    BY <1>1 DEF WatchInv, Shapes
  <2>5. procs' = [p \in Pids |-> [daemon |-> procs'[p].daemon,
                                  state |-> procs'[p].state]]
    BY <2>3, <2>4
  <2> QED
    BY <2>1, <2>5 DEF WatchInv, Shapes
<1>5. \A p \in Pids, i \in AllInterfaces :
        Ifplugd(p, i, "starting")' => p = FreePid /\ d = <<"ifplugd", i>>
  <2> SUFFICES ASSUME NEW p \in Pids, NEW i \in AllInterfaces,
                      Ifplugd(p, i, "starting")'
               PROVE  p = FreePid /\ d = <<"ifplugd", i>>
    OBVIOUS
  <2>1. procs'[p].daemon = <<"ifplugd", i>> /\ procs'[p].state = "starting"
    BY DEF Ifplugd
  <2>2. procs'[p] # procs[p]
    BY <2>1 DEF Ifplugd
  <2>3. p = FreePid
    BY <1>2, <2>2
  <2>4. procs'[p] = [daemon |-> d, state |-> "starting"]
    BY <1>2, <2>3
  <2> QED
    BY <2>1, <2>3, <2>4
<1>6. \A p \in Pids, i \in AllInterfaces :
        Ifplugd(p, i, "running")' => Ifplugd(p, i, "running")
  <2> SUFFICES ASSUME NEW p \in Pids, NEW i \in AllInterfaces,
                      Ifplugd(p, i, "running")'
               PROVE  Ifplugd(p, i, "running")
    OBVIOUS
  <2>1. procs'[p].daemon = <<"ifplugd", i>> /\ procs'[p].state = "running"
    BY DEF Ifplugd
  <2>2. procs'[p] # [daemon |-> d, state |-> "starting"]
    BY <2>1
  <2>3. procs'[p] = procs[p]
    BY <1>2, <2>2
  <2> QED
    BY <2>1, <2>3 DEF Ifplugd
<1>7. StartingIsAwaited'
  BY <1>3, <1>5 DEF StartingIsAwaited, AwaitedAt
<1>8. OneStarts'
  BY <1>5 DEF OneStarts
<1>9. RunningIsNamed'
  BY <1>6 DEF WatchInv, RunningIsNamed
<1> QED
  BY <1>4, <1>7, <1>8, <1>9 DEF WatchInv

\* A step of the helper that starts nothing leaves no ifplugd starting.
LEMMA GoOnWatchInv ==
  ASSUME WatchInv, procs' = procs, pidfile' = pidfile, spoiled' = spoiled,
         \A p \in Pids, i \in AllInterfaces : ~Ifplugd(p, i, "starting"),
         NEW step, GoOn(step)
  PROVE  WatchInv'
<1>1. Shapes'
  BY DEF WatchInv, Shapes, GoOn, Idle
<1> QED
  BY <1>1 DEF WatchInv, StartingIsAwaited, OneStarts, RunningIsNamed, Ifplugd

\* The helper starts an ifplugd only when there is no pid file: then none runs.
LEMMA StartIfplugdWatchInv ==
  ASSUME WatchInv, StartIfplugd
  PROVE  WatchInv'
<1> DEFINE d == <<"ifplugd", helper.interface>>
<1>1. helper.step # "await ifplugd" /\ pidfile' = pidfile /\ spoiled' = spoiled
  BY DEF StartIfplugd
<1>2. CASE pidfile[d] = NoPid
  <2>1. Spawn(d) /\ HelperAt("await ifplugd")
    BY <1>2 DEF StartIfplugd, GoOn, WatchInv, Shapes, HelperAt
  <2> QED
    BY <1>1, <1>2, <2>1, NoneStarts, SpawnWatchInv DEF AwaitedAt
<1>3. CASE pidfile[d] # NoPid
  <2>1. procs' = procs /\ GoOn("wpa_supplicant")
    BY <1>3 DEF StartIfplugd
  <2> QED
    BY <1>1, <2>1, NoneStarts, GoOnWatchInv
<1> QED
  BY <1>2, <1>3

LEMMA StartWpaSupplicantWatchInv ==
  ASSUME WatchInv, StartWpaSupplicant
  PROVE  WatchInv'
<1> DEFINE d == <<"wpa_supplicant", helper.interface>>
<1>1. helper.step # "await ifplugd" /\ pidfile' = pidfile /\ spoiled' = spoiled
  BY DEF StartWpaSupplicant
<1>2. CASE Spawn(d) /\ GoOn("await wpa_supplicant")
  <2>1. HelperAt("await wpa_supplicant")
    BY <1>2 DEF GoOn, WatchInv, Shapes, HelperAt
  <2>2. \A i \in AllInterfaces : d # <<"ifplugd", i>>
    OBVIOUS
  <2> HIDE DEF d
  <2> QED
    BY <1>1, <1>2, <2>1, <2>2, NoneStarts, SpawnWatchInv DEF AwaitedAt
<1>3. CASE procs' = procs /\ GoOn("idle")
  BY <1>1, <1>3, NoneStarts, GoOnWatchInv
<1> QED
  BY <1>2, <1>3 DEF StartWpaSupplicant

\* The wait ends with the pid file, and so with the start.
LEMMA AwaitPidFileWatchInv ==
  ASSUME WatchInv, AwaitPidFile
  PROVE  WatchInv'
<1>1. procs' = procs /\ pidfile' = pidfile /\ spoiled' = spoiled
  BY DEF AwaitPidFile
<1>2. \A p \in Pids, i \in AllInterfaces : ~Ifplugd(p, i, "starting")
  BY DEF AwaitPidFile, WatchInv, StartingIsAwaited
<1>3. \E step : GoOn(step)
  BY DEF AwaitPidFile
<1> QED
  BY <1>1, <1>2, <1>3, GoOnWatchInv

\* A kill ends the daemon that the pid file names, and no other one runs.
LEMMA KillWatchInv ==
  ASSUME WatchInv, NEW program,
         Kill(<<program, helper.interface>>),
         helper.step # "await ifplugd", spoiled' = spoiled,
         NEW step, GoOn(step)
  PROVE  WatchInv'
<1> DEFINE d == <<program, helper.interface>>
<1>1. \A p \in Pids, i \in AllInterfaces : ~Ifplugd(p, i, "starting")
  BY NoneStarts
<1>2. CASE d \in Daemons /\ pidfile[d] # NoPid
  <2>1. procs' = [p \in Pids |-> IF p = pidfile[d] /\ procs[p].daemon = d
                                 THEN [daemon |-> d, state |-> "ending"]
                                 ELSE procs[p]]
        /\ pidfile' = [pidfile EXCEPT ![d] = NoPid]
    BY <1>2 DEF Kill
  <2> HIDE DEF d
  <2>2. Shapes'
    <3>1. \A p \in Pids : procs'[p] = [daemon |-> procs'[p].daemon,
                                       state |-> procs'[p].state]
      BY <2>1 DEF WatchInv, Shapes
    <3>2. procs' = [p \in Pids |-> procs'[p]]
      BY <2>1
    <3>3. procs' = [p \in Pids |-> [daemon |-> procs'[p].daemon,
                                    state |-> procs'[p].state]]
      BY <3>1, <3>2
    <3>4. pidfile' = [e \in Daemons |-> pidfile'[e]]
      BY <2>1 DEF WatchInv, Shapes
    <3>5. helper' = [action |-> helper'.action, interface |-> helper'.interface,
                     step |-> helper'.step]
      BY DEF WatchInv, Shapes, GoOn, Idle
    <3> QED
      BY <3>3, <3>4, <3>5 DEF Shapes
  <2>3. \A p \in Pids, i \in AllInterfaces : ~Ifplugd(p, i, "starting")'
    BY <1>1, <2>1 DEF Ifplugd
  <2>4. RunningIsNamed'
    <3> SUFFICES ASSUME "usurped" \notin spoiled', NEW p \in Pids,
                        NEW i \in AllInterfaces, Ifplugd(p, i, "running")'
                 PROVE  pidfile'[<<"ifplugd", i>>] = p
      BY DEF RunningIsNamed
    <3>1. Ifplugd(p, i, "running") /\ ~(p = pidfile[d] /\ procs[p].daemon = d)
      BY <2>1 DEF Ifplugd
    <3>2. pidfile[<<"ifplugd", i>>] = p
      BY <3>1 DEF WatchInv, RunningIsNamed
    <3>3. <<"ifplugd", i>> # d
      BY <3>1, <3>2 DEF Ifplugd
    <3>4. <<"ifplugd", i>> \in Daemons
      BY DEF Daemons
    <3> QED
      BY <2>1, <3>2, <3>3, <3>4 DEF WatchInv, Shapes
  <2> QED
    BY <2>2, <2>3, <2>4 DEF WatchInv, StartingIsAwaited, OneStarts
<1>3. CASE ~(d \in Daemons /\ pidfile[d] # NoPid)
  <2>1. procs' = procs /\ pidfile' = pidfile
    BY <1>3 DEF Kill
  <2> QED
    BY <1>1, <2>1, GoOnWatchInv
<1> QED
  BY <1>2, <1>3

LEMMA MdevWatchInv ==
  ASSUME WatchInv, Mdev
  PROVE  WatchInv'
<1>1. CASE KillWpaSupplicant
  BY <1>1, KillWatchInv DEF KillWpaSupplicant
<1>2. CASE KillIfplugd
  BY <1>2, KillWatchInv DEF KillIfplugd
<1> QED
  BY <1>1, <1>2, TakeEventWatchInv, StartIfplugdWatchInv,
     StartWpaSupplicantWatchInv, AwaitPidFileWatchInv DEF Mdev

----------------------------------------------------------------------------
\* A pid file that is written is that of the one ifplugd that was starting.
LEMMA WritePidFileWatchInv ==
  ASSUME WatchInv, NEW p \in Pids, WritePidFile(p)
  PROVE  WatchInv'
<1> DEFINE d == procs[p].daemon
<1>1. procs[p].state = "starting" /\ helper' = helper /\ spoiled' = spoiled
  BY DEF WritePidFile, daemonRest
<1>2. \A q \in Pids : procs'[q] = IF q = p THEN [daemon |-> d, state |-> "running"]
                                          ELSE procs[q]
  BY DEF WritePidFile, WatchInv, Shapes
<1>3. \A e \in Daemons : pidfile'[e] = IF e = d THEN p ELSE pidfile[e]
  BY DEF WritePidFile, WatchInv, Shapes
<1>4. \A i \in AllInterfaces : <<"ifplugd", i>> \in Daemons
  BY DEF Daemons
<1>5. Shapes'
  <2>1. DOMAIN procs' = Pids /\ procs' = [q \in Pids |-> procs'[q]]
    BY DEF WritePidFile, WatchInv, Shapes
  <2>2. \A q \in Pids : procs'[q] = [daemon |-> procs'[q].daemon,
                                     state |-> procs'[q].state]
    BY <1>2 DEF WatchInv, Shapes
  <2>3. procs' = [q \in Pids |-> [daemon |-> procs'[q].daemon,
                                  state |-> procs'[q].state]]
    BY <2>1, <2>2
  <2>4. pidfile' = [e \in Daemons |-> pidfile'[e]]
    BY DEF WritePidFile, WatchInv, Shapes
  <2> QED
    BY <1>1, <2>3, <2>4 DEF WatchInv, Shapes
<1>6. \A q \in Pids, i \in AllInterfaces :
        Ifplugd(q, i, "starting")' =>
          q # p /\ Ifplugd(q, i, "starting") /\ d # <<"ifplugd", i>>
  BY <1>1, <1>2 DEF WatchInv, OneStarts, Ifplugd
<1>7. StartingIsAwaited'
  BY <1>1, <1>3, <1>4, <1>6 DEF WatchInv, StartingIsAwaited
<1>8. OneStarts'
  BY <1>6 DEF WatchInv, OneStarts
<1>9. RunningIsNamed'
  <2> SUFFICES ASSUME "usurped" \notin spoiled', NEW q \in Pids,
                      NEW i \in AllInterfaces, Ifplugd(q, i, "running")'
               PROVE  pidfile'[<<"ifplugd", i>>] = q
    BY DEF RunningIsNamed
  <2>1. CASE q = p
    BY <1>2, <1>3, <1>4, <2>1 DEF Ifplugd
  <2>2. CASE q # p
    <3>1. Ifplugd(q, i, "running")
      BY <1>2, <2>2 DEF Ifplugd
    <3>2. pidfile[<<"ifplugd", i>>] = q
      BY <1>1, <3>1 DEF WatchInv, RunningIsNamed
    <3>3. d # <<"ifplugd", i>>
      BY <1>1, <3>2, PidsAssumption DEF WatchInv, StartingIsAwaited, Ifplugd
    <3> QED
      BY <1>3, <1>4, <3>2, <3>3
  <2> QED
    BY <2>1, <2>2
<1> QED
  BY <1>5, <1>7, <1>8, <1>9 DEF WatchInv

\* A daemon that is gone takes at most its pid file along.  If that was another
\* one's, the history says so.
LEMMA GoneWatchInv ==
  ASSUME WatchInv, NEW p \in Pids, FailToStart(p) \/ EndDaemon(p)
  PROVE  WatchInv'
<1>1. helper' = helper /\ procs' = [procs EXCEPT ![p] = Gone]
  BY DEF FailToStart, EndDaemon, daemonRest
<1>2. \A q \in Pids : procs'[q] = IF q = p THEN Gone ELSE procs[q]
  BY <1>1 DEF WatchInv, Shapes
<1>3. \A e \in Daemons : pidfile'[e] = pidfile[e] \/ pidfile'[e] = NoPid
  BY DEF FailToStart, EndDaemon, WatchInv, Shapes
<1>4. "usurped" \notin spoiled' =>
        "usurped" \notin spoiled /\ \A e \in Daemons : pidfile'[e] = pidfile[e]
  BY DEF FailToStart, EndDaemon, WatchInv, Shapes
<1>5. \A i \in AllInterfaces : <<"ifplugd", i>> \in Daemons
  BY DEF Daemons
<1>6. Shapes'
  <2>1. procs' = [q \in Pids |-> procs'[q]]
    BY <1>1 DEF WatchInv, Shapes
  <2>2. \A q \in Pids : procs'[q] = [daemon |-> procs'[q].daemon,
                                     state |-> procs'[q].state]
    BY <1>2 DEF WatchInv, Shapes, Gone
  <2>3. procs' = [q \in Pids |-> [daemon |-> procs'[q].daemon,
                                  state |-> procs'[q].state]]
    BY <2>1, <2>2
  <2>4. pidfile' = [e \in Daemons |-> pidfile'[e]]
    BY DEF FailToStart, EndDaemon, WatchInv, Shapes
  <2> QED
    BY <1>1, <2>3, <2>4 DEF WatchInv, Shapes
<1>7. \A q \in Pids, i \in AllInterfaces, s \in {"starting", "running"} :
        Ifplugd(q, i, s)' => Ifplugd(q, i, s)
  BY <1>2 DEF Ifplugd, Gone
<1>8. StartingIsAwaited'
  BY <1>1, <1>3, <1>5, <1>7 DEF WatchInv, StartingIsAwaited
<1>9. OneStarts'
  BY <1>7 DEF WatchInv, OneStarts
<1>10. RunningIsNamed'
  BY <1>4, <1>5, <1>7 DEF WatchInv, RunningIsNamed
<1> QED
  BY <1>6, <1>8, <1>9, <1>10 DEF WatchInv

----------------------------------------------------------------------------
\* rc and sysconfig leave the daemons, the helper and the pid files alone.
LEMMA RcWatchInv ==
  ASSUME Rc \/ Nupkg \/ Sysconfig
  PROVE  UNCHANGED watchVars
<1>1. CASE Rc
  BY <1>1 DEF Rc, StartMdev, WritePlatform, MountBoot, InstallExtension,
              LoadModule, WaitForNetIF, Prod, Startup, hotplugVars, watchVars
<1>2. CASE Nupkg
  BY <1>2 DEF Nupkg, hotplugVars, watchVars
<1>3. CASE Sysconfig
  BY <1>3 DEF Sysconfig, StartDownload, EndDownload, MoveDownload, UmountBoot,
              updateRest, hotplugVars, watchVars
<1> QED
  BY <1>1, <1>2, <1>3

LEMMA NextKeepsWatchInv ==
  ASSUME WatchInv, [Next]_vars
  PROVE  WatchInv'
<1>1. CASE Rc \/ Nupkg \/ Sysconfig
  BY <1>1, RcWatchInv, OthersKeepWatchInv
<1>2. CASE HotPlug(Mdev)
  BY <1>2, MdevWatchInv DEF HotPlug
<1>3. ASSUME NEW p \in Pids, HotPlug(Daemon(p))
      PROVE  WatchInv'
  BY <1>3, WritePidFileWatchInv, GoneWatchInv DEF HotPlug, Daemon
<1>4. ASSUME NEW i \in AllInterfaces,
             HotPlug(KernelAdds(i) \/ Unplug(i) \/ Plug(i))
      PROVE  WatchInv'
  <2>1. UNCHANGED watchVars
    BY <1>4 DEF HotPlug, KernelAdds, Unplug, Plug, watchVars
  <2> QED
    BY <2>1, OthersKeepWatchInv
<1>5. CASE PowerCut
  <2>1. RamInit'
    BY <1>5 DEF PowerCut, RamInit
  <2> QED
    BY <2>1, RamInitWatchInv, PTL
<1>6. CASE UNCHANGED vars
  BY <1>6, OthersKeepWatchInv DEF vars, hotplugVars, watchVars
<1> QED
  BY <1>1, <1>2, <1>3, <1>4, <1>5, <1>6 DEF Next

\* Under the invariant any two ifplugds that watch an interface are the same.
LEMMA WatchInvMeansOne == WatchInv => AtMostOneWatcher
<1> SUFFICES ASSUME WatchInv, "usurped" \notin spoiled, NEW i \in AllInterfaces
             PROVE  Cardinality(Watching(i)) <= 1
  BY DEF AtMostOneWatcher
<1>1. ASSUME NEW p \in Watching(i), NEW q \in Watching(i)
      PROVE  p = q
  BY <1>1, PidsAssumption DEF Watching, WatchInv, StartingIsAwaited, OneStarts,
                              RunningIsNamed, Ifplugd
<1>2. CASE Watching(i) = {}
  BY <1>2, FS_EmptySet
<1>3. CASE Watching(i) # {}
  <2>1. PICK p : Watching(i) = {p}
    BY <1>1, <1>3
  <2> QED
    BY <2>1, FS_Singleton
<1> QED
  BY <1>2, <1>3

\* However interfaces come and go, daemons fail, drivers are late and the power
\* is cut, mdev-helper-net never has two ifplugds watch one interface, unless an
\* old one has removed the pid file of a new one.
THEOREM NeverTwoWatchers == Spec => []AtMostOneWatcher
<1>1. Init => WatchInv
  BY RamInitWatchInv DEF Init
<1>2. WatchInv /\ [Next]_vars => WatchInv'
  BY NextKeepsWatchInv
<1> QED
  BY <1>1, <1>2, WatchInvMeansOne, PTL DEF Spec

----------------------------------------------------------------------------
(* The types of what the helper and rc go by. *)

EventType == {"add", "remove"} \X AllInterfaces

PlugInv ==
  /\ faults \in 0..MaxFaults
  /\ at \in 1..(Len(Order) + 1)
  /\ uevents \in Seq(EventType)
  /\ helper.step # "idle" => helper.interface \in AllInterfaces
  /\ pidfile \in [Daemons -> Pids \cup {NoPid}]

LEMMA OrderLength == Len(Order) \in Nat
BY CardsAssumption

LEMMA FewMissing ==
  ASSUME NEW m \in SUBSET ({"disk"} \cup Modular)
  PROVE  Cardinality(m) \in Nat
<1>1. Interfaces \in Seq(AllInterfaces) /\ Modular \subseteq AllInterfaces
  BY InterfacesAssumption DEF AllInterfaces
<1>2. DOMAIN Interfaces = 1..Len(Interfaces) /\ Len(Interfaces) \in Nat
  BY <1>1
<1>3. Interfaces \in Surjection(1..Len(Interfaces), AllInterfaces)
  BY <1>1, <1>2 DEF Surjection, AllInterfaces
<1>4. IsFiniteSet(AllInterfaces)
  BY <1>2, <1>3, FS_Interval, FS_Surjection
<1>5. IsFiniteSet({"disk"} \cup AllInterfaces)
  BY <1>4, FS_Singleton, FS_Union
<1>6. IsFiniteSet(m)
  <2>1. m \subseteq {"disk"} \cup AllInterfaces
    BY <1>1
  <2>2. QED
    BY <1>5, <2>1, FS_Subset
<1>7. QED
  BY <1>6, FS_CardinalityType

\* The queue as rc sends an event for one interface after the other.
Prodded(sent) ==
  /\ sent[0] = uevents /\ uevents' = sent[Len(Interfaces)]
  /\ \A k \in 1..Len(Interfaces) : sent[k] =
       IF Interfaces[k] \in present
       THEN Append(sent[k - 1], <<"add", Interfaces[k]>>) ELSE sent[k - 1]

LEMMA InterfacesInOrder ==
  /\ Len(Interfaces) \in Nat
  /\ \A k \in 1..Len(Interfaces) : Interfaces[k] \in AllInterfaces
  /\ \A i \in AllInterfaces : \E k \in 1..Len(Interfaces) : Interfaces[k] = i
BY InterfacesAssumption DEF AllInterfaces

LEMMA ProdFunction ==
  ASSUME uevents \in Seq(EventType), ProdInterfaces
  PROVE  \E sent : Prodded(sent)
<1> DEFINE N == Len(Interfaces)
           V == Seq(EventType)
           Body(f) == [k \in 0..N |->
             IF k = 0 THEN uevents
             ELSE IF Interfaces[k] \in present
                  THEN Append(f[k - 1], <<"add", Interfaces[k]>>) ELSE f[k - 1]]
           sent == CHOOSE f : f = Body(f)
           step == [j \in 1..N |-> [v \in V |->
             IF Interfaces[j] \in present THEN Append(v, <<"add", Interfaces[j]>>) ELSE v]]
<1>1. uevents' = sent[N]
  BY DEF ProdInterfaces
<1>2. N \in Nat /\ \A j \in 1..N : Interfaces[j] \in AllInterfaces
  BY InterfacesInOrder
<1>3. step \in [1..N -> [V -> V]]
  <2>1. \A j \in 1..N : <<"add", Interfaces[j]>> \in EventType
    BY <1>2 DEF EventType
  <2> HIDE DEF N
  <2>2. \A j \in 1..N, v \in V : Append(v, <<"add", Interfaces[j]>>) \in V
    BY <2>1
  <2> HIDE DEF V
  <2>3. QED
    BY <2>2
<1>4. \A j \in 1..N, v \in V : step[j][v] =
        IF Interfaces[j] \in present THEN Append(v, <<"add", Interfaces[j]>>) ELSE v
  OBVIOUS
<1> HIDE DEF step, N
<1>5. PICK g : Follows(g, N, V, uevents, step)
  <2>1. step \in Steps(N, V)
    BY <1>3 DEF Steps
  <2> HIDE DEF V
  <2>2. uevents \in V
    BY DEF V
  <2>3. QED
    BY <1>2, <2>1, <2>2, RecursionUpTo
<1>6. g = Body(g)
  <2>1. g \in [0..N -> V] /\ g[0] = uevents /\ \A j \in 1..N : g[j] = step[j][g[j - 1]]
    BY <1>5 DEF Follows
  <2> HIDE DEF V
  <2>2. \A j \in 1..N : j - 1 \in 0..N
    BY <1>2
  <2>3. \A j \in 1..N : g[j] = IF Interfaces[j] \in present
          THEN Append(g[j - 1], <<"add", Interfaces[j]>>) ELSE g[j - 1]
    BY <1>4, <2>1, <2>2
  <2>4. \A j \in 0..N : j # 0 => j \in 1..N
    BY <1>2
  <2>5. QED
    BY <2>1, <2>3, <2>4
<1>7. sent = Body(sent)
  <2> HIDE DEF Body
  <2>1. QED
    BY <1>6
<1> HIDE DEF sent
<1>8. Prodded(sent)
  <2>1. 0 \in 0..N /\ \A j \in 1..N : j \in 0..N /\ j # 0
    BY <1>2
  <2>2. sent[0] = uevents
    BY <1>7, <2>1
  <2>3. \A j \in 1..N : sent[j] = IF Interfaces[j] \in present
          THEN Append(sent[j - 1], <<"add", Interfaces[j]>>) ELSE sent[j - 1]
    BY <1>7, <2>1
  <2>4. QED
    BY <1>1, <2>2, <2>3 DEF Prodded, N
<1>9. QED
  BY <1>8

\* rc sends one event for each interface that is there.
LEMMA ProddedEvents ==
  ASSUME uevents \in Seq(EventType), ProdInterfaces
  PROVE  uevents' \in Seq(EventType)
<1> DEFINE V == Seq(EventType)
<1>1. PICK sent : Prodded(sent)
  BY ProdFunction
<1>2. PICK N : N = Len(Interfaces)
  OBVIOUS
<1>3. /\ sent[0] = uevents /\ uevents' = sent[N]
      /\ \A k \in 1..N : sent[k] = IF Interfaces[k] \in present
           THEN Append(sent[k - 1], <<"add", Interfaces[k]>>) ELSE sent[k - 1]
  BY <1>1, <1>2 DEF Prodded
<1>4. N \in Nat /\ \A k \in 1..N : Interfaces[k] \in AllInterfaces
  BY <1>2, InterfacesInOrder
<1> DEFINE Good == {n \in Nat : sent[n] \in V}
<1>5. 0 \in Good
  BY <1>3
<1>6. ASSUME NEW n \in Nat, n < N, n \in Good PROVE n + 1 \in Good
  <2>1. n + 1 \in 1..N /\ (n + 1) - 1 = n
    BY <1>4, <1>6
  <2>2. sent[n + 1] = IF Interfaces[n + 1] \in present
          THEN Append(sent[n], <<"add", Interfaces[n + 1]>>) ELSE sent[n]
    BY <1>3, <2>1
  <2>3. <<"add", Interfaces[n + 1]>> \in EventType
    BY <1>4, <2>1 DEF EventType
  <2>4. sent[n] \in Seq(EventType)
    BY <1>6
  <2>5. sent[n + 1] \in Seq(EventType)
    BY <2>2, <2>3, <2>4
  <2>6. n + 1 \in Nat
    BY <1>6
  <2>7. QED
    BY <2>5, <2>6
<1>7. \A n \in Nat : n < N /\ n \in Good => n + 1 \in Good
  BY <1>6
<1> HIDE DEF Good
<1>8. N \in Good
  <2>1. N \in 0..N
    BY <1>4
  <2>2. QED
    BY <1>4, <1>5, <1>7, <2>1, InductionUpTo
<1>9. QED
  BY <1>3, <1>8 DEF Good

LEMMA InitPlugInv == Init => PlugInv
<1> SUFFICES ASSUME Init PROVE PlugInv
  OBVIOUS
<1>1. faults \in 0..MaxFaults
  <2>1. PICK c \in Cards, m \in SUBSET ({"disk"} \cup Modular) :
          faults = c.faults + Cardinality(m)
    BY DEF Init
  <2>2. c.faults \in Nat
    BY CardsAssumption
  <2>3. Cardinality(m) \in Nat
    BY FewMissing
  <2>4. faults <= MaxFaults
    BY DEF Init
  <2>5. QED
    BY <2>1, <2>2, <2>3, <2>4, FaultsAssumption
<1>2. at \in 1..(Len(Order) + 1)
  BY OrderLength DEF Init
<1>3. QED
  BY <1>1, <1>2 DEF Init, RamInit, PlugInv, Idle

LEMMA FaultCounts ==
  ASSUME faults \in 0..MaxFaults, Fault \/ UNCHANGED faults
  PROVE  faults' \in 0..MaxFaults
BY FaultsAssumption DEF Fault

LEMMA RcPlugInv ==
  ASSUME PlugInv, Rc
  PROVE  PlugInv'
<1>1. faults' \in 0..MaxFaults
  <2>1. Fault \/ UNCHANGED faults
    BY DEF Rc, StartMdev, WritePlatform, MountBoot, InstallExtension, NupkgStart,
           LoadModule, WaitForNetIF, Prod, Startup
  <2>2. QED
    BY <2>1, FaultCounts DEF PlugInv
<1>2. at' \in 1..(Len(Order) + 1)
  <2>1. CASE InstallExtension
    BY <2>1, OrderLength DEF InstallExtension, PlugInv
  <2>2. CASE ~InstallExtension
    BY <2>2 DEF Rc, StartMdev, WritePlatform, MountBoot, LoadModule, WaitForNetIF,
                Prod, Startup, PlugInv
  <2>3. QED
    BY <2>1, <2>2
<1>3. uevents' \in Seq(EventType)
  <2>1. CASE Prod
    BY <2>1, ProddedEvents DEF Prod, PlugInv
  <2>2. CASE ~Prod
    BY <2>2 DEF Rc, StartMdev, WritePlatform, MountBoot, InstallExtension,
                LoadModule, WaitForNetIF, Startup, PlugInv, hotplugVars
  <2>3. QED
    BY <2>1, <2>2
<1>4. UNCHANGED watchVars
  BY RcWatchInv
<1>5. QED
  BY <1>1, <1>2, <1>3, <1>4 DEF PlugInv, watchVars

LEMMA NupkgPlugInv ==
  ASSUME PlugInv, Nupkg
  PROVE  PlugInv'
<1>1. Fault \/ UNCHANGED faults
  BY DEF Nupkg, NupkgStep, OpenPackage, CreateDestinationDirectory, CopyLibFile,
         CopyStartupScript, CopySharedObject, NextFile, CreateHelperScript,
         CopyTo, Skip
<1>2. faults' \in 0..MaxFaults
  BY <1>1, FaultCounts DEF PlugInv
<1>3. UNCHANGED <<uevents, helper, pidfile, at>>
  BY DEF Nupkg, hotplugVars, rcVars
<1>4. QED
  BY <1>2, <1>3 DEF PlugInv

LEMMA MdevPlugInv ==
  ASSUME PlugInv, HotPlug(Mdev)
  PROVE  PlugInv'
<1>1. UNCHANGED <<faults, at>>
  BY DEF HotPlug, Mdev, TakeEvent, StartIfplugd, StartWpaSupplicant, AwaitPidFile,
         KillWpaSupplicant, KillIfplugd, helperRest, rcVars
<1>2. uevents' \in Seq(EventType)
  <2>1. UNCHANGED uevents \/ (uevents # <<>> /\ uevents' = Tail(uevents))
    BY DEF HotPlug, Mdev, TakeEvent, StartIfplugd, StartWpaSupplicant,
           AwaitPidFile, KillWpaSupplicant, KillIfplugd
  <2>2. uevents \in Seq(EventType)
    BY DEF PlugInv
  <2>3. QED
    BY <2>1, <2>2
<1>3. helper'.step # "idle" => helper'.interface \in AllInterfaces
  <2>1. CASE TakeEvent
    <3>1. Head(uevents) \in EventType
      <4>1. uevents \in Seq(EventType) /\ uevents # <<>>
        BY <2>1 DEF TakeEvent, PlugInv
      <4>2. QED
        BY <4>1
    <3>2. Head(uevents)[2] \in AllInterfaces
      BY <3>1 DEF EventType
    <3>3. QED
      BY <2>1, <3>2 DEF TakeEvent, Idle
  <2>2. CASE ~TakeEvent
    <3>1. helper.step # "idle" /\ \E step : GoOn(step)
      BY <2>2 DEF HotPlug, Mdev, StartIfplugd, StartWpaSupplicant, AwaitPidFile,
                  KillWpaSupplicant, KillIfplugd
    <3>2. helper' = Idle \/ helper'.interface = helper.interface
      BY <3>1 DEF GoOn
    <3>3. QED
      BY <3>1, <3>2 DEF Idle, PlugInv
  <2>3. QED
    BY <2>1, <2>2
<1>4. pidfile' \in [Daemons -> Pids \cup {NoPid}]
  <2>1. UNCHANGED pidfile \/ \E d : Kill(d)
    BY DEF HotPlug, Mdev, TakeEvent, StartIfplugd, StartWpaSupplicant, AwaitPidFile,
           KillWpaSupplicant, KillIfplugd
  <2>2. QED
    BY <2>1 DEF Kill, PlugInv
<1>5. QED
  BY <1>1, <1>2, <1>3, <1>4 DEF PlugInv

LEMMA DaemonPlugInv ==
  ASSUME PlugInv, NEW p \in Pids, HotPlug(Daemon(p))
  PROVE  PlugInv'
<1>1. UNCHANGED <<uevents, helper, at>>
  BY DEF HotPlug, Daemon, WritePidFile, FailToStart, EndDaemon, daemonRest, rcVars
<1>2. faults' \in 0..MaxFaults
  <2>1. Fault \/ UNCHANGED faults
    BY DEF HotPlug, Daemon, WritePidFile, FailToStart, EndDaemon
  <2>2. QED
    BY <2>1, FaultCounts DEF PlugInv
<1>3. pidfile' \in [Daemons -> Pids \cup {NoPid}]
  BY DEF HotPlug, Daemon, WritePidFile, FailToStart, EndDaemon, PlugInv
<1>4. QED
  BY <1>1, <1>2, <1>3 DEF PlugInv

LEMMA KernelPlugInv ==
  ASSUME PlugInv, NEW i \in AllInterfaces,
         HotPlug(KernelAdds(i) \/ Unplug(i) \/ Plug(i))
  PROVE  PlugInv'
<1>1. UNCHANGED <<helper, pidfile, at>>
  BY DEF HotPlug, KernelAdds, Unplug, Plug, rcVars
<1>2. faults' \in 0..MaxFaults
  <2>1. Fault \/ UNCHANGED faults
    BY DEF HotPlug, KernelAdds, Unplug, Plug
  <2>2. QED
    BY <2>1, FaultCounts DEF PlugInv
<1>3. uevents' \in Seq(EventType)
  <2>1. <<"add", i>> \in EventType /\ <<"remove", i>> \in EventType
    BY DEF EventType
  <2>2. \/ UNCHANGED uevents
        \/ uevents' = Append(uevents, <<"add", i>>)
        \/ uevents' = Append(uevents, <<"remove", i>>)
    BY DEF HotPlug, KernelAdds, Unplug, Plug, Uevent
  <2>3. uevents \in Seq(EventType)
    BY DEF PlugInv
  <2>4. \A e \in EventType : Append(uevents, e) \in Seq(EventType)
    BY <2>3
  <2>5. QED
    BY <2>1, <2>2, <2>3, <2>4
<1>4. QED
  BY <1>1, <1>2, <1>3 DEF PlugInv

LEMMA NextPlugInv ==
  ASSUME PlugInv, [Next]_vars
  PROVE  PlugInv'
<1>1. CASE Sysconfig
  <2>1. Fault \/ UNCHANGED faults
    BY <1>1 DEF Sysconfig, StartDownload, EndDownload, MoveDownload, UmountBoot
  <2>2. UNCHANGED <<uevents, helper, pidfile, at>>
    BY <1>1 DEF Sysconfig, StartDownload, EndDownload, MoveDownload, UmountBoot,
                updateRest, hotplugVars, rcVars
  <2>3. faults' \in 0..MaxFaults
    BY <2>1, FaultCounts DEF PlugInv
  <2>4. QED
    BY <2>2, <2>3 DEF PlugInv
<1>2. CASE PowerCut
  <2>1. faults' \in 0..MaxFaults
    BY <1>2, FaultCounts DEF PowerCut, PlugInv
  <2>2. at' \in 1..(Len(Order) + 1)
    BY <1>2, OrderLength DEF PowerCut
  <2>3. QED
    BY <1>2, <2>1, <2>2 DEF PowerCut, PlugInv, Idle
<1>3. CASE UNCHANGED vars
  BY <1>3 DEF vars, hotplugVars, rcVars, PlugInv
<1>4. QED
  BY <1>1, <1>2, <1>3, RcPlugInv, NupkgPlugInv, MdevPlugInv, DaemonPlugInv,
     KernelPlugInv DEF Next

----------------------------------------------------------------------------
(* What is on the card, what nupkg makes of it and what sysconfig puts there. *)

Held == Archives \cup {None}
Whole(z) == z # None /\ Complete(z)
Extra == Names \ Packages
Fetching == update.step \in {"curl", "mv"}
Installing == {"lib", "script", "so", "next", "helper"}

\* What is written and not yet sure to be on the card came from a server.
CardInv ==
  /\ card \in [Names -> Held]
  /\ flash \in [Names -> Held]
  /\ \A n \in Names : card[n] # flash[n] => card[n] \in Downloads \cup {None}

UpdateInv ==
  /\ \/ update = NoUpdate /\ card = flash
     \/ /\ update = [file |-> update.file, step |-> update.step]
        /\ update.step \in {"curl", "mv", "umount"}
        /\ update.file \in Packages
        /\ rc = "up"
  /\ update.step = "mv" => card[New(update.file)] \in Downloads

\* Without a mishap a download is gone from the card by the end of the update,
\* and whatever takes the place of a package is a whole one.
CleanInv ==
  mishaps = {} =>
    /\ \A n \in Extra : card[n] # None => Fetching /\ n = New(update.file)
    /\ \A n \in Extra : flash[n] = None
    /\ \A f \in Packages : card[f] = flash[f] \/ Whole(card[f])
    /\ update.step = "mv" => Whole(card[New(update.file)])

\* nupkg runs only while rc is in its loop, and from the moment it has opened a
\* package on, it works on a whole one.
JobInv ==
  \/ job = NoJob
  \/ /\ job = [file |-> job.file, step |-> job.step, reader |-> job.reader]
     /\ job.step \in {"open", "mkdir"} \cup Installing
     /\ rc = "extensions"
     /\ job.file \in Packages /\ card[job.file] # None
     /\ job.step # "open" => Complete(Image)
     /\ job.step \in Installing => App \in dirs

FilesInv ==
  /\ \A p \in DOMAIN files : Complete(files[p].of)
  /\ \A p \in DOMAIN files : Len(p) = 3 => p[2] \in dirs
  /\ dirs \subseteq {ExtractAppName(f) : f \in Packages}

PackInv == CardInv /\ UpdateInv /\ CleanInv /\ JobInv /\ FilesInv

LEMMA NewIsExtra ==
  ASSUME NEW f \in Packages
  PROVE  New(f) \in Extra /\ New(f) \in Names /\ f \in Names /\ New(f) # f
BY CardsAssumption DEF Names, Extra

\* What rc takes for a package is one.
LEMMA NupkgIsPackage ==
  ASSUME NEW n \in Names, IsNupkg(n)
  PROVE  n \in Packages
<1>1. SUFFICES ASSUME NEW f \in Packages, n = New(f) PROVE FALSE
  BY DEF Names
<1>2. f \in Seq(STRING) /\ Len(f) \in Nat
  BY CardsAssumption
<1>3. n = Append(f, ".new") /\ Len(n) = Len(f) + 1
  BY <1>1, <1>2 DEF New
<1>4. n[Len(n)] = ".new"
  BY <1>2, <1>3
<1>5. QED
  BY <1>4 DEF IsNupkg, Endings, Canonical

LEMMA DownloadsHeld ==
  ASSUME NEW z \in Downloads
  PROVE  z \in Archives /\ z # None
<1>1. None \notin Archives
  BY CardsAssumption
<1>2. ErrorPage \in Archives
  <2>1. <<>> \in Seq(Entries) /\ -EndRecord \in Int
    BY DEF EndRecord
  <2>3. QED
    BY <2>1 DEF ErrorPage, Archives, NoDamage
<1>3. ASSUME NEW y \in NewVersions PROVE y \in Archives /\ [y EXCEPT !.size = 0] \in Archives
  <2>1. y \in Archives
    BY CardsAssumption
  <2>2. QED
    BY <2>1 DEF Archives
<1>4. QED
  BY <1>1, <1>2, <1>3 DEF Downloads

LEMMA InitPackInv == Init => PackInv
<1> SUFFICES ASSUME Init PROVE PackInv
  OBVIOUS
<1>1. PICK c \in Cards : card = OnCard(c.card) /\ flash = card
  BY DEF Init
<1>2. \A f \in DOMAIN c.card : f \in Packages /\ c.card[f] \in Archives
  BY CardsAssumption
<1>3. CardInv
  BY <1>1, <1>2 DEF OnCard, Held, CardInv
<1>4. update = NoUpdate /\ NoUpdate.step = "idle" /\ mishaps = {}
  BY DEF Init, NoUpdate
<1>5. UpdateInv
  BY <1>1, <1>4 DEF UpdateInv
<1>6. \A n \in Extra : card[n] = None
  BY <1>1, <1>2 DEF OnCard, Extra
<1>7. CleanInv
  BY <1>1, <1>4, <1>6 DEF CleanInv
<1>8. JobInv /\ FilesInv
  BY DEF Init, NupkgInit, JobInv, FilesInv
<1>9. QED
  BY <1>3, <1>5, <1>7, <1>8 DEF PackInv

\* The invariant looks at no more than this.
packVars == <<card, flash, update, mishaps, rc, files, dirs, job>>

LEMMA OthersKeepPackInv ==
  ASSUME PackInv, UNCHANGED packVars
  PROVE  PackInv'
BY DEF PackInv, packVars, CardInv, UpdateInv, CleanInv, JobInv, FilesInv, Fetching,
       Whole, Image, App, Complete, EndPos, CentralOffset, CentralLength

LEMMA RcPackInv ==
  ASSUME PackInv, PlugInv, Rc
  PROVE  PackInv'
<1>1. UNCHANGED <<card, flash, update, mishaps, files, dirs>>
  BY DEF Rc, StartMdev, WritePlatform, MountBoot, InstallExtension, NupkgStart,
         LoadModule, WaitForNetIF, Prod, Startup, nupkgVars, diskVars, updateVars
<1>2. rc = "up" => FALSE
  BY DEF Rc, StartMdev, WritePlatform, MountBoot, InstallExtension, RcAt, Step,
         LoadModule, WaitForNetIF, Prod, Startup
<1>3. update = NoUpdate
  BY <1>2 DEF PackInv, UpdateInv
<1>4. CardInv' /\ CleanInv' /\ FilesInv'
  BY <1>1 DEF PackInv, CardInv, CleanInv, FilesInv, Fetching, Whole, Complete,
              EndPos, CentralOffset, CentralLength
<1>5. UpdateInv'
  BY <1>1, <1>3 DEF PackInv, UpdateInv, NoUpdate
<1>6. JobInv'
  <2>1. CASE InstallExtension
    <3>1. job = NoJob /\ rc' = "extensions" /\ at \in 1..Len(Order)
      BY <2>1, OrderLength DEF InstallExtension, RcAt, PlugInv, rcVars
    <3>2. Order[at] \in Names
      BY <3>1, CardsAssumption
    <3>3. CASE card[Order[at]] # None /\ IsNupkg(Order[at])
      <4>1. Order[at] \in Packages
        BY <3>2, <3>3, NupkgIsPackage
      <4>2. job' = [file |-> Order[at], step |-> "open", reader |-> Closed]
        BY <2>1, <3>3 DEF InstallExtension, NupkgStart, NoJob
      <4>3. QED
        BY <1>1, <3>1, <3>3, <4>1, <4>2 DEF JobInv, Installing
    <3>4. CASE ~(card[Order[at]] # None /\ IsNupkg(Order[at]))
      BY <2>1, <3>1, <3>4 DEF InstallExtension, nupkgVars, JobInv
    <3>5. QED
      BY <3>3, <3>4
  <2>2. CASE ~InstallExtension
    <3>1. job' = job /\ (job = NoJob \/ rc # "extensions")
      BY <2>2 DEF Rc, StartMdev, WritePlatform, MountBoot, LoadModule, WaitForNetIF,
                  Prod, Startup, Step, nupkgVars
    <3>2. job = NoJob
      BY <3>1 DEF PackInv, JobInv
    <3>3. QED
      BY <3>1, <3>2 DEF JobInv
  <2>3. QED
    BY <2>1, <2>2
<1>7. QED
  BY <1>4, <1>5, <1>6 DEF PackInv

\* What nupkg opens is whole.
LEMMA OpenPackInv ==
  ASSUME PackInv, OpenPackage, UNCHANGED <<card, rc>>
  PROVE  JobInv' /\ FilesInv'
<1>1. job # NoJob /\ job.file \in Packages /\ card[job.file] # None /\ rc = "extensions"
      /\ job = [file |-> job.file, step |-> job.step, reader |-> job.reader]
  BY DEF PackInv, JobInv, OpenPackage, NoJob
<1>2. Image \in Archives
  BY <1>1 DEF PackInv, CardInv, Held, Image, Names
<1>3. CASE UnzOpen(Image).open /\ UnzOpen(Image).ok
  <2>1. Complete(Image)
    BY <1>2, <1>3, OpensOnlyComplete
  <2>2. job' = [file |-> job.file, step |-> "mkdir", reader |-> UnzOpen(Image)]
    BY <1>1, <1>3 DEF OpenPackage
  <2>3. JobInv'
    BY <1>1, <2>1, <2>2 DEF JobInv, Installing, Image
  <2>4. QED
    BY <2>3 DEF OpenPackage, PackInv, FilesInv
<1>4. CASE ~(UnzOpen(Image).open /\ UnzOpen(Image).ok)
  BY <1>4 DEF OpenPackage, JobInv, PackInv, FilesInv
<1>5. QED
  BY <1>3, <1>4

LEMMA MkdirPackInv ==
  ASSUME PackInv, CreateDestinationDirectory, UNCHANGED <<card, rc>>
  PROVE  JobInv' /\ FilesInv'
<1>1. job # NoJob /\ job.file \in Packages /\ card[job.file] # None /\ rc = "extensions"
      /\ job = [file |-> job.file, step |-> job.step, reader |-> job.reader]
      /\ Complete(Image)
  BY DEF PackInv, JobInv, CreateDestinationDirectory, NoJob
<1>2. DOMAIN files' = DOMAIN files \ Below(App)
      /\ \A p \in DOMAIN files' : files'[p] = files[p]
  BY DEF CreateDestinationDirectory, Restrict
<1>3. \/ dirs' = dirs \cup {App} /\ GoTo("lib")
      \/ dirs' = dirs \ {App} /\ GiveUp
  BY DEF CreateDestinationDirectory
<1>4. JobInv'
  <2>1. CASE GoTo("lib") /\ dirs' = dirs \cup {App}
    <3>1. job' = [file |-> job.file, step |-> "lib", reader |-> job.reader]
      BY <1>1, <2>1 DEF GoTo
    <3>2. QED
      BY <1>1, <2>1, <3>1 DEF JobInv, Installing, Image, App
  <2>2. CASE GiveUp
    BY <2>2 DEF GiveUp, JobInv
  <2>3. QED
    BY <1>3, <2>1, <2>2
<1>5. FilesInv'
  <2>1. \A p \in DOMAIN files' : Len(p) = 3 => p[2] \in dirs /\ p[2] # App
    BY <1>2 DEF PackInv, FilesInv, Below
  <2>2. App \in {ExtractAppName(f) : f \in Packages}
    BY <1>1 DEF App
  <2>3. dirs' \subseteq {ExtractAppName(f) : f \in Packages}
    BY <1>3, <2>2 DEF PackInv, FilesInv
  <2>4. \A p \in DOMAIN files' : Complete(files'[p].of)
    BY <1>2 DEF PackInv, FilesInv
  <2>5. QED
    BY <1>2, <1>3, <2>1, <2>3, <2>4 DEF FilesInv
<1>6. QED
  BY <1>4, <1>5

\* The copies: whatever comes of one, at most one path is written, from a package
\* that is whole and, if below an application's directory, below the right one.
LEMMA CopyPackInv ==
  ASSUME PackInv, job.step \in Installing, UNCHANGED <<card, rc, dirs>>,
         NEW path, NEW step \in Installing, GoTo(step),
         Len(path) = 3 => path[2] = App,
         UNCHANGED files \/ \E len : Put(path, len)
  PROVE  JobInv' /\ FilesInv'
<1>1. job # NoJob /\ job.file \in Packages /\ card[job.file] # None /\ rc = "extensions"
      /\ job = [file |-> job.file, step |-> job.step, reader |-> job.reader]
      /\ Complete(Image) /\ App \in dirs
  BY DEF PackInv, JobInv, Installing, NoJob
<1>2. job' = [file |-> job.file, step |-> step, reader |-> job.reader]
  BY <1>1 DEF GoTo
<1>3. JobInv'
  BY <1>1, <1>2 DEF JobInv, Installing, Image, App
<1>4. CASE UNCHANGED files
  BY <1>3, <1>4 DEF PackInv, FilesInv
<1>5. ASSUME NEW len, Put(path, len) PROVE FilesInv'
  <2>1. \A p \in DOMAIN files' : IF p = path THEN files'[p] = Content(len)
                                 ELSE p \in DOMAIN files /\ files'[p] = files[p]
    BY <1>5 DEF Put, With
  <2>2. Content(len).of = Image
    BY DEF Content
  <2> HIDE DEF Content
  <2>3. \A p \in DOMAIN files' : Complete(files'[p].of)
    BY <1>1, <2>1, <2>2 DEF PackInv, FilesInv
  <2>4. \A p \in DOMAIN files' : Len(p) = 3 => p[2] \in dirs
    BY <1>1, <2>1 DEF PackInv, FilesInv
  <2>5. QED
    BY <2>3, <2>4 DEF PackInv, FilesInv
<1>6. QED
  BY <1>3, <1>4, <1>5

LEMMA CopyStepPackInv ==
  ASSUME PackInv, CopyLibFile \/ CopyStartupScript \/ CopySharedObject,
         UNCHANGED <<card, rc>>
  PROVE  JobInv' /\ FilesInv'
<1>1. job.step \in Installing /\ UNCHANGED dirs
  BY DEF CopyLibFile, CopyStartupScript, CopySharedObject, Installing
<1>2. \A path, after : CopyTo(path, after) =>
        GoTo(after) /\ (UNCHANGED files \/ \E len : Put(path, len))
  BY DEF CopyTo
<1>3. \A after : Skip(after) => GoTo(after) /\ UNCHANGED files
  BY DEF Skip
<1>4. \E path, step : /\ step \in Installing /\ GoTo(step)
                      /\ Len(path) = 3 => path[2] = App
                      /\ UNCHANGED files \/ \E len : Put(path, len)
  <2> DEFINE dest == Destination(Current)
             script == ScriptPath(Current.base)
  <2>1. (Len(dest) = 3 => dest[2] = App) /\ (Len(script) = 3 => script[2] = App)
    BY DEF Destination, LibPath, AppPath, ScriptPath
  <2>2. \E path \in {dest, script} : \E step \in Installing :
          GoTo(step) /\ (UNCHANGED files \/ \E len : Put(path, len))
    <3> HIDE DEF dest, script
    <3>1. CASE CopyLibFile
      BY <1>2, <1>3, <3>1 DEF CopyLibFile, Installing, dest
    <3>2. CASE CopyStartupScript
      BY <1>2, <1>3, <3>2 DEF CopyStartupScript, Installing, script
    <3>3. CASE CopySharedObject
      BY <1>2, <1>3, <3>3 DEF CopySharedObject, Installing, dest
    <3>4. QED
      BY <3>1, <3>2, <3>3
  <2> HIDE DEF dest, script
  <2>3. QED
    BY <2>1, <2>2
<1>5. QED
  BY <1>1, <1>4, CopyPackInv

LEMMA NextFilePackInv ==
  ASSUME PackInv, NextFile, UNCHANGED <<card, rc>>
  PROVE  JobInv' /\ FilesInv'
<1>1. job # NoJob /\ job.file \in Packages /\ card[job.file] # None /\ rc = "extensions"
      /\ job = [file |-> job.file, step |-> job.step, reader |-> job.reader]
      /\ Complete(Image) /\ App \in dirs
  <2>1. job.step = "next"
    BY DEF NextFile
  <2>2. QED
    BY <2>1 DEF PackInv, JobInv, Installing, NoJob
<1>2. \/ \E r : job' = [file |-> job.file, step |-> "lib", reader |-> r]
      \/ job' = [file |-> job.file, step |-> "helper", reader |-> job.reader]
      \/ job' = NoJob
  BY <1>1 DEF NextFile, GoTo, GiveUp
<1>3. UNCHANGED <<files, dirs>>
  BY DEF NextFile
<1>4. JobInv'
  BY <1>1, <1>2, <1>3 DEF JobInv, Installing, Image, App
<1>5. QED
  BY <1>3, <1>4 DEF PackInv, FilesInv

LEMMA HelperPackInv ==
  ASSUME PackInv, CreateHelperScript, UNCHANGED <<card, rc>>
  PROVE  JobInv' /\ FilesInv'
<1>1. Complete(Image)
  BY DEF PackInv, JobInv, CreateHelperScript, NoJob
<1>2. job' = NoJob
  BY DEF CreateHelperScript, Exit, GiveUp
<1>3. \A p \in DOMAIN files' :
        \/ p = HelperPath(App) /\ files'[p].of = Image
        \/ p \in DOMAIN files /\ files'[p] = files[p]
  BY DEF CreateHelperScript, Helper, With
<1>4. Len(HelperPath(App)) = 2
  BY DEF HelperPath
<1>5. \A p \in DOMAIN files' : Len(p) = 3 => p[2] \in dirs'
  <2>1. CASE UNCHANGED dirs
    BY <1>3, <1>4, <2>1 DEF PackInv, FilesInv
  <2>2. CASE ~UNCHANGED dirs
    <3>1. Below(App) = {} /\ dirs' = dirs \ {App}
      BY <2>2 DEF CreateHelperScript
    <3>2. QED
      BY <1>3, <1>4, <3>1 DEF PackInv, FilesInv, Below
  <2>3. QED
    BY <2>1, <2>2
<1>6. dirs' \subseteq dirs
  BY DEF CreateHelperScript
<1>7. \A p \in DOMAIN files' : Complete(files'[p].of)
  BY <1>1, <1>3 DEF PackInv, FilesInv
<1>8. QED
  BY <1>2, <1>5, <1>6, <1>7 DEF PackInv, FilesInv, JobInv

LEMMA NupkgPackInv ==
  ASSUME PackInv, Nupkg
  PROVE  PackInv'
<1>1. UNCHANGED <<card, flash, rc, update, mishaps>>
  BY DEF Nupkg, rcVars, diskVars, updateVars
<1>2. CardInv' /\ UpdateInv' /\ CleanInv'
  BY <1>1 DEF PackInv, CardInv, UpdateInv, CleanInv, Fetching, Whole, Complete,
              EndPos, CentralOffset, CentralLength
<1>3. JobInv' /\ FilesInv'
  BY <1>1, OpenPackInv, MkdirPackInv, CopyStepPackInv, NextFilePackInv, HelperPackInv
     DEF Nupkg, NupkgStep
<1>4. QED
  BY <1>2, <1>3 DEF PackInv

LEMMA UpdateFacts ==
  ASSUME PackInv, update.step # "idle"
  PROVE  /\ update = [file |-> update.file, step |-> update.step]
         /\ update.file \in Packages /\ rc = "up" /\ job = NoJob
BY DEF PackInv, UpdateInv, NoUpdate, JobInv

LEMMA StartDownloadPackInv ==
  ASSUME PackInv, NEW f \in Packages, StartDownload(f)
  PROVE  CardInv' /\ UpdateInv' /\ CleanInv'
<1>1. PICK z \in NewVersions : card' = [card EXCEPT ![New(f)] = [z EXCEPT !.size = 0]]
  BY DEF StartDownload
<1> DEFINE empty == [z EXCEPT !.size = 0]
<1>2. empty \in Downloads
  BY DEF Downloads
<1>3. empty \in Archives
  BY <1>2, DownloadsHeld
<1> HIDE DEF empty
<1>4. card' = [card EXCEPT ![New(f)] = empty] /\ flash' = flash /\ mishaps' = mishaps
      /\ update = NoUpdate /\ update' = [file |-> f, step |-> "curl"] /\ rc = "up"
      /\ rc' = rc
  BY <1>1 DEF StartDownload, updateRest, rcVars, empty
<1>5. New(f) \in Extra /\ New(f) \in Names
  BY NewIsExtra
<1>6. card = flash /\ update.step = "idle"
  BY <1>4 DEF PackInv, UpdateInv, NoUpdate
<1>7. card \in [Names -> Held]
  BY DEF PackInv, CardInv
<1>8. card' \in [Names -> Held]
  BY <1>3, <1>4, <1>7 DEF Held
<1>9. \A n \in Names : card'[n] = IF n = New(f) THEN empty ELSE card[n]
  BY <1>4, <1>7
<1>10. CardInv'
  BY <1>2, <1>4, <1>6, <1>8, <1>9 DEF PackInv, CardInv
<1>11. UpdateInv'
  BY <1>4 DEF UpdateInv
<1>12. CleanInv'
  <2>1. SUFFICES ASSUME mishaps = {} PROVE CleanInv'
    BY <1>4 DEF CleanInv
  <2>2. \A n \in Extra : flash[n] = None /\ card[n] = None
    BY <1>6, <2>1 DEF PackInv, CleanInv
  <2>3. \A n \in Extra : card'[n] # None => n = New(f)
    BY <1>9, <2>2 DEF Extra
  <2>4. \A n \in Packages : card'[n] = flash[n]
    BY <1>5, <1>6, <1>9 DEF Extra, Names
  <2>5. QED
    BY <1>4, <2>2, <2>3, <2>4 DEF CleanInv, Fetching
<1>13. QED
  BY <1>10, <1>11, <1>12

\* In a step of a download that goes on: what its file may hold now.
LEMMA EndDownloadPackInv ==
  ASSUME PackInv, EndDownload
  PROVE  CardInv' /\ UpdateInv' /\ CleanInv'
<1> DEFINE new == New(update.file)
<1>1. update = [file |-> update.file, step |-> "curl"] /\ update.file \in Packages
      /\ rc = "up" /\ rc' = rc /\ flash' = flash
  BY UpdateFacts DEF EndDownload, updateRest, rcVars
<1>2. new \in Extra /\ new \in Names
  BY <1>1, NewIsExtra
<1>3. PICK v \in Downloads \cup {None} :
        /\ card' = [card EXCEPT ![new] = v]
        /\ \/ v # None /\ update' = [update EXCEPT !.step = "mv"]
           \/ v = None /\ update' = [update EXCEPT !.step = "umount"]
        /\ mishaps' = {} => mishaps = {} /\ (v # None => Complete(v))
  <2>1. ASSUME NEW z \in NewVersions PROVE z \in Downloads /\ z # None /\ Complete(z)
    <3>1. z \in Downloads
      BY DEF Downloads
    <3>2. QED
      BY <3>1, DownloadsHeld, CardsAssumption
  <2>2. ErrorPage \in Downloads
    BY DEF Downloads
  <2>3. ErrorPage # None
    BY <2>2, DownloadsHeld
  <2> HIDE DEF new
  <2>4. CASE UNCHANGED mishaps
    <3>1. \/ /\ \E z \in NewVersions : card' = [card EXCEPT ![new] = z]
             /\ update' = [update EXCEPT !.step = "mv"]
          \/ /\ card' = [card EXCEPT ![new] = None]
             /\ update' = [update EXCEPT !.step = "umount"]
          \/ mishaps' # {} /\ card' = [card EXCEPT ![new] = ErrorPage]
             /\ update' = [update EXCEPT !.step = "mv"]
      BY DEF EndDownload, new
    <3>2. QED
      BY <2>1, <2>2, <2>3, <2>4, <3>1
  <2>5. CASE ~UNCHANGED mishaps
    <3>1. mishaps' # {} /\ card' = [card EXCEPT ![new] = ErrorPage]
          /\ update' = [update EXCEPT !.step = "mv"]
      BY <2>5 DEF EndDownload, new
    <3>2. QED
      BY <2>2, <2>3, <3>1
  <2>6. QED
    BY <2>4, <2>5
<1> HIDE DEF new
<1>4. card \in [Names -> Held]
  BY DEF PackInv, CardInv
<1>5. v \in Held
  BY <1>3, DownloadsHeld DEF Held
<1>6. card' \in [Names -> Held] /\ \A n \in Names : card'[n] = IF n = new THEN v ELSE card[n]
  BY <1>2, <1>3, <1>4, <1>5
<1>7. CardInv'
  BY <1>1, <1>3, <1>6 DEF PackInv, CardInv
<1>8. update'.file = update.file /\ new = New(update'.file)
      /\ update' = [file |-> update'.file, step |-> update'.step]
      /\ IF v = None THEN update'.step = "umount" ELSE update'.step = "mv"
  BY <1>1, <1>3 DEF new
<1>9. card'[new] = v
  BY <1>2, <1>6
<1>10. UpdateInv'
  BY <1>1, <1>3, <1>8, <1>9 DEF UpdateInv
<1>11. CleanInv'
  <2>1. SUFFICES ASSUME mishaps' = {} PROVE CleanInv'
    BY DEF CleanInv
  <2>2. mishaps = {} /\ (v # None => Complete(v))
    BY <1>3, <2>1
  <2>3. \A n \in Extra : card'[n] # None => v # None /\ n = new
    BY <1>1, <1>6, <1>9, <2>2 DEF PackInv, CleanInv, Extra, new
  <2>4. \A n \in Extra : flash'[n] = None
    BY <1>1, <2>2 DEF PackInv, CleanInv
  <2>5. \A n \in Packages : card'[n] = card[n]
    BY <1>2, <1>6 DEF Extra, Names
  <2>6. \A n \in Packages : card'[n] = flash'[n] \/ Whole(card'[n])
    BY <1>1, <2>2, <2>5 DEF PackInv, CleanInv, Whole
  <2>7. v # None => Fetching'
    BY <1>8 DEF Fetching
  <2>8. update'.step = "mv" => Whole(card'[new])
    BY <1>8, <1>9, <2>2 DEF Whole
  <2>9. QED
    BY <1>8, <2>3, <2>4, <2>6, <2>7, <2>8 DEF CleanInv, Whole
<1>12. QED
  BY <1>7, <1>10, <1>11

LEMMA MoveDownloadPackInv ==
  ASSUME PackInv, MoveDownload
  PROVE  CardInv' /\ UpdateInv' /\ CleanInv'
<1> DEFINE new == New(update.file)
           old == update.file
<1>1. update = [file |-> old, step |-> "mv"] /\ old \in Packages
      /\ rc = "up" /\ rc' = rc /\ flash' = flash /\ mishaps' = mishaps
  BY UpdateFacts DEF MoveDownload, updateRest, rcVars
<1>2. new \in Extra /\ new \in Names /\ old \in Names /\ new # old
  BY <1>1, NewIsExtra
<1>3. card[new] \in Downloads /\ card \in [Names -> Held]
  BY <1>1 DEF PackInv, UpdateInv, CardInv
<1>4. card' = [card EXCEPT ![old] = card[new], ![new] = None]
      /\ update' = [file |-> old, step |-> "umount"]
  BY <1>1 DEF MoveDownload
<1> HIDE DEF new, old
<1>5. card' \in [Names -> Held]
      /\ \A n \in Names : card'[n] = IF n = new THEN None
                                     ELSE IF n = old THEN card[new] ELSE card[n]
  BY <1>2, <1>3, <1>4 DEF Held
<1>6. CardInv'
  BY <1>1, <1>3, <1>5 DEF PackInv, CardInv
<1>7. UpdateInv'
  BY <1>1, <1>4 DEF UpdateInv
<1>8. CleanInv'
  <2>1. SUFFICES ASSUME mishaps = {} PROVE CleanInv'
    BY <1>1 DEF CleanInv
  <2>2. \A n \in Extra : card'[n] = None
    BY <1>1, <1>5, <2>1 DEF PackInv, CleanInv, Extra, new, old
  <2>3. \A n \in Extra : flash'[n] = None
    BY <1>1, <2>1 DEF PackInv, CleanInv
  <2>4. Whole(card[new])
    BY <1>1, <2>1 DEF PackInv, CleanInv, new, old
  <2>5. \A n \in Packages : card'[n] = IF n = old THEN card[new] ELSE card[n]
    BY <1>2, <1>5 DEF Extra, Names
  <2>6. \A n \in Packages : card'[n] = flash'[n] \/ Whole(card'[n])
    BY <1>1, <2>1, <2>4, <2>5 DEF PackInv, CleanInv
  <2>7. QED
    BY <1>4, <2>2, <2>3, <2>6 DEF CleanInv, Whole
<1>9. QED
  BY <1>6, <1>7, <1>8

LEMMA UmountPackInv ==
  ASSUME PackInv, UmountBoot
  PROVE  CardInv' /\ UpdateInv' /\ CleanInv'
<1>1. update.step = "umount" /\ flash' = card /\ card' = card /\ update' = NoUpdate
      /\ mishaps' = mishaps
  BY DEF UmountBoot
<1>2. CardInv' /\ UpdateInv'
  BY <1>1 DEF PackInv, CardInv, UpdateInv, NoUpdate
<1>3. CleanInv'
  BY <1>1 DEF PackInv, CleanInv, Fetching, NoUpdate
<1>4. QED
  BY <1>2, <1>3

LEMMA SysconfigPackInv ==
  ASSUME PackInv, Sysconfig
  PROVE  PackInv'
<1>1. CardInv' /\ UpdateInv' /\ CleanInv'
  BY StartDownloadPackInv, EndDownloadPackInv, MoveDownloadPackInv, UmountPackInv
     DEF Sysconfig
<1>2. UNCHANGED <<job, files, dirs>>
  BY DEF Sysconfig, StartDownload, EndDownload, MoveDownload, UmountBoot, updateRest,
         nupkgVars
<1>3. job = NoJob
  <2>1. rc = "up"
    BY DEF Sysconfig, StartDownload, EndDownload, MoveDownload, UmountBoot, PackInv,
           UpdateInv, NoUpdate
  <2>2. QED
    BY <2>1 DEF PackInv, JobInv
<1>4. JobInv' /\ FilesInv'
  BY <1>2, <1>3 DEF PackInv, JobInv, FilesInv
<1>5. QED
  BY <1>1, <1>4 DEF PackInv

\* The power leaves of a file what was there, what was written, or a part of it.
LEMMA PowerCutPackInv ==
  ASSUME PackInv, PowerCut
  PROVE  PackInv'
<1>1. flash' = card' /\ card' \in [Names -> Held] /\ (card = flash => card' = flash)
  <2>1. PICK left \in [{n \in Names : card[n] # flash[n]} -> UNION {Left(n) : n \in Names}] :
          /\ \A n \in DOMAIN left : left[n] \in Left(n)
          /\ card' = [n \in Names |-> IF n \in DOMAIN left THEN left[n] ELSE flash[n]]
          /\ flash' = card'
    BY DEF PowerCut
  <2>2. DOMAIN left = {n \in Names : card[n] # flash[n]}
    OBVIOUS
  <2>3. card \in [Names -> Held] /\ flash \in [Names -> Held]
    BY DEF PackInv, CardInv
  <2>4. ASSUME NEW n \in DOMAIN left PROVE left[n] \in Held
    <3>1. left[n] \in Left(n) /\ card[n] # flash[n] /\ n \in Names
      BY <2>1, <2>2, <2>4
    <3>2. card[n] # None => card[n] \in Downloads
      BY <3>1 DEF PackInv, CardInv
    <3>3. card[n] # None => Cuts(card[n]) \subseteq Archives
      BY <3>2, CardsAssumption
    <3>4. QED
      BY <2>3, <3>1, <3>3 DEF Left, Held
  <2>5. card' \in [Names -> Held]
    BY <2>1, <2>3, <2>4
  <2>6. card = flash => card' = flash
    BY <2>1, <2>2, <2>3
  <2>7. QED
    BY <2>1, <2>5, <2>6
<1>2. CardInv'
  BY <1>1 DEF CardInv
<1>3. update' = NoUpdate /\ job' = NoJob /\ files' = <<>> /\ dirs' = {}
  BY DEF PowerCut
<1>4. UpdateInv'
  BY <1>1, <1>3 DEF UpdateInv, NoUpdate
<1>5. CleanInv'
  <2>1. SUFFICES ASSUME mishaps' = {} PROVE CleanInv'
    BY DEF CleanInv
  <2>2. card = flash /\ mishaps = {}
    BY <2>1 DEF PowerCut
  <2>3. \A n \in Extra : card'[n] = None
    BY <1>1, <2>2 DEF PackInv, CleanInv
  <2>4. QED
    BY <1>1, <1>3, <2>3 DEF CleanInv, NoUpdate
<1>6. JobInv' /\ FilesInv'
  BY <1>3 DEF JobInv, FilesInv
<1>7. QED
  BY <1>2, <1>4, <1>5, <1>6 DEF PackInv

LEMMA NextPackInv ==
  ASSUME PackInv, PlugInv, [Next]_vars
  PROVE  PackInv'
<1>1. ASSUME NEW A, HotPlug(A) PROVE PackInv'
  BY <1>1, OthersKeepPackInv DEF HotPlug, nupkgVars, rcVars, diskVars, updateVars,
                                 packVars
<1>2. CASE UNCHANGED vars
  BY <1>2, OthersKeepPackInv DEF vars, nupkgVars, rcVars, diskVars, updateVars,
                                 packVars
<1>3. QED
  BY <1>1, <1>2, RcPackInv, NupkgPackInv, SysconfigPackInv, PowerCutPackInv DEF Next

BootInv == PlugInv /\ PackInv

LEMMA BootInvAlways == Spec => []BootInv
<1>1. Init => BootInv
  BY InitPlugInv, InitPackInv DEF BootInv
<1>2. BootInv /\ [Next]_vars => BootInv'
  BY NextPlugInv, NextPackInv DEF BootInv
<1>3. QED
  BY <1>1, <1>2, PTL DEF Spec

\* rc's place among the files, the helper's interface, the pid files and the
\* directories of the applications are what they may be; nupkg runs only while rc
\* is in its loop; and unless something went wrong in a download, none is left on
\* the card.
THEOREM TypeCorrect == Spec => []TypeOK
<1>1. BootInv => TypeOK
  <2>1. SUFFICES ASSUME BootInv PROVE TypeOK
    OBVIOUS
  <2>2. job.step # "idle" => rc = "extensions"
    BY <2>1 DEF BootInv, PackInv, JobInv, NoJob
  <2>3. \A n \in Names \ Packages : card[n] # None => update.step # "idle" \/ mishaps # {}
    BY <2>1 DEF BootInv, PackInv, CleanInv, Extra, Fetching
  <2>4. QED
    BY <2>1, <2>2, <2>3 DEF BootInv, PackInv, FilesInv, PlugInv, TypeOK
<1>2. QED
  BY <1>1, BootInvAlways, PTL

\* nupkg: however a package comes to be cut short, by a failed download or by the
\* power, or to be something else altogether: nothing of it is ever installed.
THEOREM NeverAPartialPackage == Spec => []NoPartialPackage
<1>1. BootInv => NoPartialPackage
  BY DEF BootInv, PackInv, FilesInv, NoPartialPackage
<1>2. QED
  BY <1>1, BootInvAlways, PTL

\* sysconfig: what a failed download leaves never takes the place of an extension
\* that was whole, unless the power fails or a page is taken for an extension.
THEOREM KeepsExtension == Spec => FailedDownloadKeepsExtension
<1> DEFINE Kept(f) == mishaps' = {} /\ flash[f] # None /\ Complete(flash[f])
                        => flash'[f] # None /\ Complete(flash'[f])
<1>1. ASSUME BootInv, [Next]_vars, NEW f \in Packages PROVE Kept(f)
  <2>1. CASE UNCHANGED flash
    BY <2>1
  <2>2. CASE UmountBoot
    BY <1>1, <2>2 DEF UmountBoot, BootInv, PackInv, CleanInv, Whole
  <2>3. CASE PowerCut
    <3>1. SUFFICES ASSUME mishaps' = {} PROVE flash' = flash
      OBVIOUS
    <3>2. card = flash
      BY <2>3, <3>1 DEF PowerCut
    <3>3. flash \in [Names -> Held]
      BY <1>1 DEF BootInv, PackInv, CardInv
    <3>4. PICK left \in [{n \in Names : card[n] # flash[n]} -> UNION {Left(n) : n \in Names}] :
            /\ card' = [n \in Names |-> IF n \in DOMAIN left THEN left[n] ELSE flash[n]]
            /\ flash' = card'
      BY <2>3 DEF PowerCut
    <3>5. DOMAIN left = {}
      BY <3>2
    <3>6. QED
      BY <3>3, <3>4, <3>5
  <2>4. QED
    BY <1>1, <2>1, <2>2, <2>3
       DEF Next, Rc, StartMdev, WritePlatform, MountBoot, InstallExtension, LoadModule,
           WaitForNetIF, Prod, Startup, Nupkg, HotPlug, Sysconfig, StartDownload,
           EndDownload, MoveDownload, diskVars, vars
<1>2. BootInv /\ [Next]_vars => [\A f \in Packages : Kept(f)]_vars
  BY <1>1
<1>3. QED
  BY <1>2, BootInvAlways, PTL DEF Spec, FailedDownloadKeepsExtension

----------------------------------------------------------------------------
(* What a helper script tells of its application. *)

\* What HelperMeansComplete says of one package, whether or not nupkg is running.
AppOk(f) ==
  LET app == ExtractAppName(f)
      h == HelperPath(app)
  IN  h \in DOMAIN files /\ files[h].from = f /\ app \notin abandoned =>
        /\ \A p \in Below(app) : files[p].from = f
        /\ \A k \in Wanted(files[h].of) : Accounted(f, files[h].of, k)

\* An application that nupkg is at work on has lost its files.
AtWork(f) == job.step \in Installing /\ App = ExtractAppName(f)

AppsInv == \A f \in Packages : ~AtWork(f) => AppOk(f)

Reading == job.step \in {"mkdir"} \cup Installing

\* After which of its three copies an entry is done
DoneAt(e, step) ==
  CASE step = "lib"    -> FALSE
    [] step = "script" -> e.dir = "lib/net" /\ ~e.so
    [] step = "so"     -> ~e.so
    [] OTHER           -> TRUE

\* The reader is at an entry; all before it and the application's files are this
\* package's own, and at the end there is no entry left.
ProgressInv ==
  Reading =>
    /\ \E j : ReaderAt(Image, job.reader, j)
    /\ job.step = "mkdir" => Entry = 1
    /\ job.step \in Installing =>
         /\ \A p \in Below(App) : files[p].from = job.file
         /\ \A k \in Wanted(Image) :
              k < Entry \/ (k = Entry /\ DoneAt(Current, job.step))
                => Accounted(job.file, Image, k)
    /\ job.step = "helper" => Entry = Len(Image.entries)

HelperInv == AppsInv /\ ProgressInv

\* How files may change for what is accounted for of a package to stay so: its
\* files are left alone, or make place for others' or for its later entries'.
StillAccounted(f, z, k) ==
  LET p == PathOf(ExtractAppName(f), z.entries[k])
  IN  p \in DOMAIN files =>
        /\ p \in DOMAIN files'
        /\ \/ files'[p] = files[p]
           \/ ExtractAppName(files'[p].from) # ExtractAppName(f)
           \/ files'[p].from = f /\ files'[p].entry > k

LEMMA AccountedStays ==
  ASSUME NEW f, NEW z, NEW k, Accounted(f, z, k), reported \subseteq reported',
         StillAccounted(f, z, k)
  PROVE  Accounted(f, z, k)'
BY DEF Accounted, StillAccounted, Unseen, PathOf, ExtractAppName, LibPath, ScriptPath,
       AppPath, Raw, Bzip2ed

\* Of a package that nupkg is not at work on, what was accounted for stays so.
OthersUntouched(app) ==
  /\ DOMAIN files \ DOMAIN files' \subseteq Below(app)
  /\ \A p \in DOMAIN files' :
       \/ p \in DOMAIN files /\ files'[p] = files[p]
       \/ /\ Len(p) = 3 => p[2] = app
          /\ p[1] = "bin" => p = HelperPath(app)
          /\ ExtractAppName(files'[p].from) = app

LEMMA OthersStayOk ==
  ASSUME NEW f, NEW app, app # ExtractAppName(f), AppOk(f), OthersUntouched(app),
         reported \subseteq reported', abandoned \cup {app} = abandoned' \cup {app}
  PROVE  AppOk(f)'
<1> DEFINE g == ExtractAppName(f)
           h == HelperPath(g)
<1>1. SUFFICES ASSUME h \in DOMAIN files', files'[h].from = f, g \notin abandoned',
                      NEW z, z = files'[h].of
               PROVE  /\ \A p \in DOMAIN files' : Len(p) = 3 /\ p[2] = g => files'[p].from = f
                      /\ \A k \in Wanted(z) : Accounted(f, z, k)'
  BY DEF AppOk, Accounted, Below
<1>2. h \in DOMAIN files /\ files'[h] = files[h] /\ g \notin abandoned
  <2>1. h # HelperPath(app) /\ h[1] = "bin"
    BY DEF HelperPath
  <2>2. QED
    BY <1>1, <2>1 DEF OthersUntouched
<1>3. /\ \A p \in DOMAIN files : Len(p) = 3 /\ p[2] = g => files[p].from = f
      /\ \A k \in Wanted(z) : Accounted(f, z, k)
  BY <1>1, <1>2 DEF AppOk, Below
<1>4. \A p \in DOMAIN files' : Len(p) = 3 /\ p[2] = g => files'[p].from = f
  BY <1>3 DEF Below, OthersUntouched
<1>5. ASSUME NEW k \in Wanted(z) PROVE Accounted(f, z, k)'
  <2> DEFINE p == PathOf(g, z.entries[k])
  <2>1. p \notin Below(app) /\ p[1] # "bin"
    BY DEF PathOf, LibPath, ScriptPath, AppPath, Below
  <2>2. StillAccounted(f, z, k)
    <3> HIDE DEF p
    <3>1. p \in DOMAIN files => /\ p \in DOMAIN files'
                                /\ files'[p] = files[p] \/ ExtractAppName(files'[p].from) # g
      BY <2>1 DEF OthersUntouched
    <3>2. QED
      BY <3>1 DEF StillAccounted, p
  <2>3. QED
    BY <1>3, <2>2, AccountedStays
<1>6. QED
  BY <1>4, <1>5


LEMMA UntouchedStaysOk ==
  ASSUME NEW f, AppOk(f), UNCHANGED <<files, reported, abandoned>>
  PROVE  AppOk(f)'
BY DEF AppOk, Accounted, Below

\* While nupkg reads a package: what it works on.
LEMMA WhileReading ==
  ASSUME PackInv, HelperInv, Reading
  PROVE  /\ job = [file |-> job.file, step |-> job.step, reader |-> job.reader]
         /\ Image \in Archives /\ job.file \in Packages
         /\ ReaderAt(Image, job.reader, Entry)
         /\ DOMAIN Image.entries = 1..Len(Image.entries) /\ Len(Image.entries) \in Nat
         /\ Entry \in DOMAIN Image.entries /\ Current \in Entries
<1>1. job # NoJob
  BY DEF Reading, Installing, NoJob
<1>2. job = [file |-> job.file, step |-> job.step, reader |-> job.reader]
      /\ job.file \in Packages /\ card[job.file] # None
  BY <1>1 DEF PackInv, JobInv
<1>3. Image \in Archives
  BY <1>2 DEF PackInv, CardInv, Held, Image, Names
<1>4. PICK j : ReaderAt(Image, job.reader, j)
  BY DEF HelperInv, ProgressInv
<1>5. Entry = j /\ j \in DOMAIN Image.entries
  BY <1>4 DEF ReaderAt, Entry
<1>6. Image.entries \in Seq(Entries)
  BY <1>3 DEF Archives
<1>7. DOMAIN Image.entries = 1..Len(Image.entries) /\ Len(Image.entries) \in Nat
      /\ Current \in Entries
  BY <1>5, <1>6 DEF Current
<1>8. QED
  BY <1>2, <1>3, <1>4, <1>5, <1>7

LEMMA OpenHelperInv ==
  ASSUME PackInv, HelperInv, OpenPackage, UNCHANGED card
  PROVE  HelperInv'
<1>1. job.step = "open" /\ UNCHANGED <<files, reported, abandoned>>
  BY DEF OpenPackage
<1>2. job # NoJob /\ job.file \in Packages /\ card[job.file] # None
      /\ job = [file |-> job.file, step |-> job.step, reader |-> job.reader]
  BY <1>1 DEF PackInv, JobInv, NoJob
<1>3. Image \in Archives
  BY <1>2 DEF PackInv, CardInv, Held, Image, Names
<1>4. AppsInv'
  BY <1>1, UntouchedStaysOk DEF HelperInv, AppsInv, AtWork, Installing
<1>5. ProgressInv'
  <2>1. CASE UnzOpen(Image).open /\ UnzOpen(Image).ok
    <3>1. job' = [file |-> job.file, step |-> "mkdir", reader |-> UnzOpen(Image)]
      BY <1>2, <2>1 DEF OpenPackage
    <3>2. Image' = Image
      BY <3>1 DEF Image
    <3>3. ReaderAt(Image, UnzOpen(Image), 1)
      BY <1>3, <2>1, OpensAtFirst
    <3>4. CurrentFileInfo(Image, UnzOpen(Image)) = 1
      BY <3>3 DEF ReaderAt
    <3>5. Entry' = 1 /\ job'.step = "mkdir" /\ job'.reader = UnzOpen(Image)
      BY <3>1, <3>2, <3>4 DEF Entry
    <3>6. (\E j : ReaderAt(Image, job.reader, j))'
      BY <3>2, <3>3, <3>5 DEF ReaderAt, CurrentFileInfo, CentralHeaderAt, ItemOffset,
                              CentralOffset, Before
    <3>7. QED
      BY <3>5, <3>6 DEF ProgressInv, Installing
  <2>2. CASE ~(UnzOpen(Image).open /\ UnzOpen(Image).ok)
    <3>1. job' = NoJob
      BY <2>2 DEF OpenPackage
    <3>2. QED
      BY <3>1 DEF ProgressInv, Reading, Installing, NoJob
  <2>3. QED
    BY <2>1, <2>2
<1>6. QED
  BY <1>4, <1>5 DEF HelperInv

LEMMA MkdirHelperInv ==
  ASSUME PackInv, HelperInv, CreateDestinationDirectory, UNCHANGED card
  PROVE  HelperInv'
<1>1. job.step = "mkdir" /\ Reading
  BY DEF CreateDestinationDirectory, Reading
<1>2. job = [file |-> job.file, step |-> job.step, reader |-> job.reader]
      /\ ReaderAt(Image, job.reader, Entry)
      /\ DOMAIN Image.entries = 1..Len(Image.entries)
  BY <1>1, WhileReading
<1>3. DOMAIN files' = DOMAIN files \ Below(App)
      /\ (\A p \in DOMAIN files' : files'[p] = files[p]) /\ reported' = reported
  BY DEF CreateDestinationDirectory, Restrict
<1>4. \/ GoTo("lib")
      \/ GiveUp
  BY DEF CreateDestinationDirectory
<1>5. abandoned \cup {App} = abandoned' \cup {App}
  BY <1>4 DEF GoTo, GiveUp
<1>6. OthersUntouched(App)
  BY <1>3 DEF OthersUntouched, Below
<1>7. PICK app : app = App
  OBVIOUS
<1>8. ASSUME NEW f \in Packages, ExtractAppName(f) # app PROVE AppOk(f)'
  BY <1>1, <1>3, <1>5, <1>6, <1>7, <1>8, OthersStayOk
     DEF HelperInv, AppsInv, AtWork, Installing
<1>9. CASE GoTo("lib")
  <2>1. job' = [file |-> job.file, step |-> "lib", reader |-> job.reader]
    BY <1>2, <1>9 DEF GoTo
  <2>2. Image' = Image /\ App' = app /\ job'.step = "lib" /\ job'.reader = job.reader
    BY <1>7, <2>1 DEF Image, App
  <2>3. Entry' = Entry /\ Entry = 1
    BY <1>1, <2>2 DEF Entry, HelperInv, ProgressInv
  <2>4. AppsInv'
    BY <1>8, <2>2 DEF AppsInv, AtWork, Installing
  <2>5. (\E j : ReaderAt(Image, job.reader, j))'
    BY <1>2, <2>2, <2>3 DEF ReaderAt
  <2>6. ~\E p : p \in Below(App)'
    BY <1>3, <1>7, <2>2 DEF Below
  <2>7. ~\E k : k \in Wanted(Image') /\ k < Entry'
    BY <1>2, <2>2, <2>3 DEF Wanted
  <2>8. ~DoneAt(Current', "lib")
    BY DEF DoneAt
  <2>9. ProgressInv'
    BY <2>2, <2>3, <2>5, <2>6, <2>7, <2>8 DEF ProgressInv
  <2>10. QED
    BY <2>4, <2>9 DEF HelperInv
<1>10. CASE GiveUp
  <2>1. job' = NoJob /\ app \in abandoned'
    BY <1>7, <1>10 DEF GiveUp
  <2>2. AppsInv'
    BY <1>8, <2>1 DEF AppsInv, AppOk
  <2>3. ProgressInv'
    BY <2>1 DEF ProgressInv, Reading, Installing, NoJob
  <2>4. QED
    BY <2>2, <2>3 DEF HelperInv
<1>11. QED
  BY <1>4, <1>9, <1>10

\* How a copy of entry k of f may change the files: nothing, or one path that is not
\* a helper script nor in another application's directory.
Copies(f, k) ==
  \/ UNCHANGED files
  \/ \E path, content :
       /\ files' = With(path, content)
       /\ content.from = f /\ content.entry = k
       /\ Len(path) = 3 => path[2] = ExtractAppName(f)
       /\ path[1] # "bin"

\* A copy keeps the invariant if after it the entry is accounted for, should it
\* then be done.
LEMMA CopyKeepsHelperInv ==
  ASSUME PackInv, HelperInv, Reading, job.step # "mkdir", UNCHANGED card,
         NEW step \in Installing \ {"helper"}, GoTo(step),
         reported \subseteq reported', Copies(job.file, Entry),
         NEW f, f = job.file, NEW z, z = Image, NEW k, k = Entry,
         k \in Wanted(z) /\ DoneAt(Current, step) => Accounted(f, z, k)'
  PROVE  HelperInv'
<1>1. job = [file |-> f, step |-> job.step, reader |-> job.reader]
      /\ ReaderAt(z, job.reader, k) /\ DOMAIN z.entries = 1..Len(z.entries)
      /\ k \in DOMAIN z.entries /\ Len(z.entries) \in Nat
      /\ job.step \in Installing
  BY WhileReading DEF Reading
<1>2. job' = [file |-> f, step |-> step, reader |-> job.reader] /\ UNCHANGED abandoned
  BY <1>1 DEF GoTo
<1>3. PICK app : app = App
  OBVIOUS
<1>4. App' = app /\ Image' = z /\ app = ExtractAppName(f) /\ job'.step = step
      /\ job'.reader = job.reader /\ job'.file = f /\ step # "helper" /\ step # "mkdir"
      /\ step \in Installing
  BY <1>2, <1>3 DEF App, Image, Installing
<1>5. Entry' = k /\ Current' = Current
  BY <1>4 DEF Entry, Current
<1>6. OthersUntouched(app)
  <2>1. CASE UNCHANGED files
    BY <2>1 DEF OthersUntouched, Below
  <2>2. ASSUME NEW path, NEW content, files' = With(path, content), content.from = f,
               Len(path) = 3 => path[2] = app, path[1] # "bin"
        PROVE  OthersUntouched(app)
    BY <1>4, <2>2 DEF OthersUntouched, With
  <2>3. QED
    BY <1>4, <2>1, <2>2 DEF Copies
<1>7. AppsInv'
  <2>1. ASSUME NEW g \in Packages, ~AtWork(g)' PROVE AppOk(g)'
    <3>1. ExtractAppName(g) # app
      BY <1>4, <2>1 DEF AtWork
    <3>2. AppOk(g)
      BY <1>3, <3>1 DEF HelperInv, AppsInv, AtWork
    <3>3. QED
      BY <1>2, <1>6, <3>1, <3>2, OthersStayOk
  <2>2. QED
    BY <2>1 DEF AppsInv
<1>8. \A p \in DOMAIN files' : Len(p) = 3 /\ p[2] = app => files'[p].from = f
  <2>1. \A p \in DOMAIN files : Len(p) = 3 /\ p[2] = app => files[p].from = f
    BY <1>1, <1>3 DEF HelperInv, ProgressInv, Below
  <2>2. CASE UNCHANGED files
    BY <2>1, <2>2
  <2>3. ASSUME NEW path, NEW content, files' = With(path, content), content.from = f
        PROVE  \A p \in DOMAIN files' : Len(p) = 3 /\ p[2] = app => files'[p].from = f
    BY <2>1, <2>3 DEF With
  <2>4. QED
    BY <2>2, <2>3 DEF Copies
<1>9. ASSUME NEW i \in Wanted(z), i < k PROVE Accounted(f, z, i)'
  <2>1. Accounted(f, z, i)
    BY <1>1, <1>9 DEF HelperInv, ProgressInv
  <2>2. StillAccounted(f, z, i)
    <3> DEFINE p == PathOf(ExtractAppName(f), z.entries[i])
    <3> HIDE DEF p
    <3>1. p \in DOMAIN files => /\ p \in DOMAIN files'
                                /\ \/ files'[p] = files[p]
                                   \/ files'[p].from = f /\ files'[p].entry > i
      BY <1>9 DEF Copies, With
    <3>2. QED
      BY <3>1 DEF StillAccounted, p
  <2>3. QED
    BY <2>1, <2>2, AccountedStays
<1>10. ProgressInv'
  <2>1. (\E j : ReaderAt(Image, job.reader, j))'
    BY <1>1, <1>4 DEF ReaderAt
  <2>2. \A p \in Below(App)' : files'[p].from = f
    BY <1>4, <1>8 DEF Below
  <2>3. ASSUME NEW i \in Wanted(z), i < k \/ (i = k /\ DoneAt(Current, step))
        PROVE  Accounted(f, z, i)'
    BY <1>9, <2>3
  <2>4. QED
    BY <1>4, <1>5, <2>1, <2>2, <2>3 DEF ProgressInv, Accounted, DoneAt
<1>11. QED
  BY <1>7, <1>10 DEF HelperInv

\* The copy of an entry accounts for it.
LEMMA CopyAccounts ==
  ASSUME NEW f, f = job.file, NEW z \in Archives, z = Image,
         NEW k \in DOMAIN z.entries, k = Entry,
         NEW path, path = PathOf(ExtractAppName(f), z.entries[k]), NEW after,
         CopyTo(path, after)
  PROVE  Accounted(f, z, k)'
<1> DEFINE len == Delivered(z, k)
           content == [from |-> f, of |-> z, entry |-> k,
                       good |-> AsPacked(z, k) /\ len = z.entries[k].usize]
<1>1. CASE Complain
  BY <1>1 DEF Complain, Accounted
<1>2. CASE ~Complain
  <2>1. files' = With(path, content) /\ ~CrcError(z, k, len)
    BY <1>2 DEF CopyTo, Put, Content
  <2>2. CASE Raw(z.entries[k]) \/ Halts(z, k)
    BY <2>2 DEF Accounted, Unseen, Halts, Damaged
  <2>3. CASE AsPacked(z, k) /\ len = z.entries[k].usize
    <3>1. content.from = f /\ content.good
      BY <2>3
    <3> HIDE DEF content
    <3>2. path \in DOMAIN files' /\ files'[path] = content
      BY <2>1 DEF With
    <3>3. QED
      BY <3>1, <3>2 DEF Accounted
  <2>4. QED
    BY <2>1, <2>2, <2>3, NoticedOrHalted
<1>3. QED
  BY <1>1, <1>2

LEMMA CopyToCopies ==
  ASSUME NEW path, NEW after, CopyTo(path, after), path[1] # "bin",
         Len(path) = 3 => path[2] = App
  PROVE  Copies(job.file, Entry) /\ reported \subseteq reported' /\ GoTo(after)
<1>1. UNCHANGED files \/ \E len : Put(path, len)
  BY DEF CopyTo
<1>2. ASSUME NEW len, Put(path, len) PROVE Copies(job.file, Entry)
  <2>1. Content(len).from = job.file /\ Content(len).entry = Entry
    BY DEF Content
  <2>2. files' = With(path, Content(len))
    BY <1>2 DEF Put
  <2> HIDE DEF Content
  <2>3. QED
    BY <2>1, <2>2 DEF Copies, App
<1>3. reported \subseteq reported' /\ GoTo(after)
  BY DEF CopyTo, Complain
<1>4. QED
  BY <1>1, <1>2, <1>3 DEF Copies

LEMMA CopyHelperInv ==
  ASSUME PackInv, HelperInv, UNCHANGED card,
         CopyLibFile \/ CopyStartupScript \/ CopySharedObject
  PROVE  HelperInv'
<1>1. job.step \in {"lib", "script", "so"} /\ Reading
  BY DEF CopyLibFile, CopyStartupScript, CopySharedObject, Reading, Installing
<1>2. PICK f, z, k, app : f = job.file /\ z = Image /\ k = Entry /\ app = ExtractAppName(f)
  OBVIOUS
<1>3. z \in Archives /\ k \in DOMAIN z.entries /\ Current = z.entries[k] /\ app = App
  BY <1>1, <1>2, WhileReading DEF Current, App
<1>4. PICK e : e = z.entries[k]
  OBVIOUS
<1>5. \A path, after : CopyTo(path, after) /\ path = PathOf(app, e) => Accounted(f, z, k)'
  BY <1>2, <1>3, <1>4, CopyAccounts
<1>6. /\ \A path \in {Destination(e), ScriptPath(e.base)} :
           path[1] # "bin" /\ (Len(path) = 3 => path[2] = App)
      /\ e.so => Destination(e) = PathOf(app, e)
      /\ ~e.so /\ e.dir = "rc.d" => ScriptPath(e.base) = PathOf(app, e)
      /\ ~e.so /\ e.dir = "lib/net" => Destination(e) = PathOf(app, e)
  BY <1>3 DEF Destination, ScriptPath, LibPath, AppPath, PathOf
<1>7. k \in Wanted(z) => e.dir \in {"lib/net", "rc.d"} \/ e.so
  BY <1>4 DEF Wanted
<1>8. k \in Wanted(z) /\ DoneAt(e, job.step) => Accounted(f, z, k)
  BY <1>1, <1>2, <1>3, <1>4 DEF HelperInv, ProgressInv, Reading
<1>9. \A after : Skip(after) =>
        /\ Copies(f, k) /\ reported \subseteq reported' /\ GoTo(after)
        /\ Accounted(f, z, k) => Accounted(f, z, k)'
  BY DEF Skip, Copies, Accounted
<1>10. \A path \in {Destination(e), ScriptPath(e.base)} : \A after : CopyTo(path, after) =>
         Copies(f, k) /\ reported \subseteq reported' /\ GoTo(after)
  BY <1>2, <1>6, CopyToCopies
<1>11. \E step \in {"script", "so", "next"} :
         /\ Copies(f, k) /\ reported \subseteq reported' /\ GoTo(step)
         /\ k \in Wanted(z) /\ DoneAt(e, step) => Accounted(f, z, k)'
  <2>1. CASE CopyLibFile
    <3>1. Copies(f, k) /\ reported \subseteq reported' /\ GoTo("script")
      BY <1>3, <1>4, <1>9, <1>10, <2>1 DEF CopyLibFile
    <3>2. DoneAt(e, "script") => Accounted(f, z, k)'
      BY <1>3, <1>4, <1>5, <1>6, <2>1 DEF CopyLibFile, DoneAt
    <3>3. QED
      BY <3>1, <3>2
  <2>2. CASE CopyStartupScript
    <3>1. Copies(f, k) /\ reported \subseteq reported' /\ GoTo("so")
      BY <1>3, <1>4, <1>9, <1>10, <2>2 DEF CopyStartupScript
    <3>2. CASE e.dir = "rc.d"
      <4>1. DoneAt(e, "so") => Accounted(f, z, k)'
        BY <1>3, <1>4, <1>5, <1>6, <2>2, <3>2 DEF CopyStartupScript, DoneAt
      <4>2. QED
        BY <3>1, <4>1
    <3>3. CASE e.dir # "rc.d"
      <4>1. Skip("so") /\ job.step = "script"
        BY <1>3, <1>4, <2>2, <3>3 DEF CopyStartupScript
      <4>2. k \in Wanted(z) /\ DoneAt(e, "so") => DoneAt(e, "script")
        BY <1>7, <3>3 DEF DoneAt
      <4>3. QED
        BY <1>8, <1>9, <3>1, <4>1, <4>2
    <3>4. QED
      BY <3>2, <3>3
  <2>3. CASE CopySharedObject
    <3>1. Copies(f, k) /\ reported \subseteq reported' /\ GoTo("next")
      BY <1>3, <1>4, <1>9, <1>10, <2>3 DEF CopySharedObject
    <3>2. CASE e.so
      <4>1. Accounted(f, z, k)'
        BY <1>3, <1>4, <1>5, <1>6, <2>3, <3>2 DEF CopySharedObject
      <4>2. QED
        BY <3>1, <4>1
    <3>3. CASE ~e.so
      <4>1. Skip("next") /\ job.step = "so"
        BY <1>3, <1>4, <2>3, <3>3 DEF CopySharedObject
      <4>2. DoneAt(e, "so")
        BY <3>3 DEF DoneAt
      <4>3. QED
        BY <1>8, <1>9, <3>1, <4>1, <4>2
    <3>4. QED
      BY <3>2, <3>3
  <2>4. QED
    BY <2>1, <2>2, <2>3
<1>12. PICK step \in {"script", "so", "next"} :
         /\ Copies(f, k) /\ reported \subseteq reported' /\ GoTo(step)
         /\ k \in Wanted(z) /\ DoneAt(e, step) => Accounted(f, z, k)'
  BY <1>11
<1>13. step \in Installing \ {"helper"} /\ job.step # "mkdir"
  BY <1>1 DEF Installing
<1>14. QED
  BY <1>1, <1>2, <1>3, <1>4, <1>12, <1>13, CopyKeepsHelperInv


LEMMA NextFileHelperInv ==
  ASSUME PackInv, HelperInv, NextFile, UNCHANGED card
  PROVE  HelperInv'
<1>1. job.step = "next" /\ Reading /\ UNCHANGED <<files, reported>>
  BY DEF NextFile, Reading, Installing
<1>2. PICK f, z, k, app, r :
        f = job.file /\ z = Image /\ k = Entry /\ app = App /\ r = job.reader
  OBVIOUS
<1>3. /\ job = [file |-> f, step |-> "next", reader |-> r]
      /\ ReaderAt(z, r, k) /\ z \in Archives /\ k \in DOMAIN z.entries
      /\ DOMAIN z.entries = 1..Len(z.entries) /\ Len(z.entries) \in Nat
  BY <1>1, <1>2, WhileReading
<1>4. /\ \A p \in Below(app) : files[p].from = f
      /\ \A i \in Wanted(z) : i < k \/ i = k => Accounted(f, z, i)
  BY <1>1, <1>2 DEF HelperInv, ProgressInv, Installing, DoneAt
<1>5. ASSUME NEW g \in Packages, ExtractAppName(g) # app, app = App,
             abandoned \cup {app} = abandoned' \cup {app}
      PROVE  AppOk(g)'
  <2>1. AppOk(g)
    BY <1>5 DEF HelperInv, AppsInv, AtWork
  <2>2. OthersUntouched(app)
    BY <1>1 DEF OthersUntouched, Below
  <2>3. QED
    BY <1>1, <1>5, <2>1, <2>2, OthersStayOk
<1> DEFINE n == GoToNextFile(z, r)
<1>6. \/ n.status = "ok" /\ job' = [job EXCEPT !.step = "lib", !.reader = n.reader]
         /\ UNCHANGED abandoned
      \/ n.status = "end of list" /\ GoTo("helper")
      \/ GiveUp
  BY <1>2 DEF NextFile
<1>7. /\ n.status = "end of list" => k = Len(z.entries)
      /\ n.status = "ok" => ReaderAt(z, n.reader, k + 1)
  BY <1>3, NextFollows
<1> HIDE DEF n
<1>8. CASE GiveUp
  <2>1. job' = NoJob /\ app \in abandoned' /\ abandoned \cup {app} = abandoned' \cup {app}
    BY <1>2, <1>8 DEF GiveUp
  <2>2. AppsInv'
    BY <1>2, <1>5, <2>1 DEF AppsInv, AppOk
  <2>3. ProgressInv'
    BY <2>1 DEF ProgressInv, Reading, Installing, NoJob
  <2>4. QED
    BY <2>2, <2>3 DEF HelperInv
<1>9. ASSUME NEW step, NEW s, NEW j,
             job' = [file |-> f, step |-> step, reader |-> s],
             UNCHANGED abandoned, ReaderAt(z, s, j),
             \/ step = "lib" /\ j = k + 1
             \/ step = "helper" /\ j = k /\ k = Len(z.entries)
      PROVE  HelperInv'
  <2>1. Image' = z /\ App' = app /\ job'.step = step /\ job'.file = f /\ job'.reader = s
        /\ step \in Installing /\ step # "mkdir"
    BY <1>2, <1>9 DEF Image, App, Installing
  <2>2. Entry' = j /\ j \in 1..Len(z.entries)
    BY <1>3, <1>9, <2>1 DEF Entry, ReaderAt
  <2>3. AppsInv'
    BY <1>2, <1>5, <1>9, <2>1 DEF AppsInv, AtWork
  <2>4. (\E i : ReaderAt(Image, job.reader, i))'
    BY <1>9, <2>1 DEF ReaderAt
  <2>5. Below(App)' = Below(app)
    BY <1>1, <2>1 DEF Below
  <2>6. ASSUME NEW i \in Wanted(z), i < j \/ (i = j /\ DoneAt(Current', step))
        PROVE  Accounted(f, z, i)'
    <3>1. i \in 1..Len(z.entries)
      BY <1>3 DEF Wanted
    <3>2. i < k \/ i = k
      BY <1>3, <1>9, <2>2, <2>6, <3>1 DEF DoneAt
    <3>3. QED
      BY <1>1, <1>4, <3>2 DEF Accounted
  <2>7. ProgressInv'
    <3>1. \A p \in Below(App)' : files'[p].from = job'.file
      BY <1>1, <1>4, <2>1, <2>5
    <3>2. \A i \in Wanted(Image') :
            i < Entry' \/ (i = Entry' /\ DoneAt(Current', step)) => Accounted(f, z, i)'
      BY <2>1, <2>2, <2>6
    <3>3. step = "helper" => Entry' = Len(Image'.entries)
      BY <1>9, <2>1, <2>2
    <3>4. QED
      BY <2>1, <2>4, <3>1, <3>2, <3>3 DEF ProgressInv, Accounted
  <2>8. QED
    BY <2>3, <2>7 DEF HelperInv
<1>10. CASE n.status = "ok" /\ job' = [job EXCEPT !.step = "lib", !.reader = n.reader]
            /\ UNCHANGED abandoned
  <2>1. job' = [file |-> f, step |-> "lib", reader |-> n.reader]
    BY <1>3, <1>10
  <2>2. QED
    BY <1>7, <1>9, <1>10, <2>1
<1>11. CASE n.status = "end of list" /\ GoTo("helper")
  <2>1. job' = [file |-> f, step |-> "helper", reader |-> r] /\ UNCHANGED abandoned
    BY <1>3, <1>11 DEF GoTo
  <2>2. QED
    BY <1>3, <1>7, <1>9, <1>11, <2>1
<1>12. QED
  BY <1>6, <1>8, <1>10, <1>11

\* The helper script comes last, and then all the package has is accounted for.
LEMMA ScriptHelperInv ==
  ASSUME PackInv, HelperInv, CreateHelperScript
  PROVE  HelperInv'
<1>1. job.step = "helper" /\ Reading /\ UNCHANGED reported
  BY DEF CreateHelperScript, Reading, Installing
<1>2. PICK f, z, k, app : f = job.file /\ z = Image /\ k = Entry /\ app = App
  OBVIOUS
<1>3. /\ DOMAIN z.entries = 1..Len(z.entries) /\ Len(z.entries) \in Nat
      /\ app = ExtractAppName(f)
  BY <1>1, <1>2, WhileReading DEF App
<1>4. /\ \A p \in DOMAIN files : Len(p) = 3 /\ p[2] = app => files[p].from = f
      /\ \A i \in Wanted(z) : Accounted(f, z, i)
  <2>1. k = Len(z.entries)
    BY <1>1, <1>2 DEF HelperInv, ProgressInv
  <2>2. \A i \in Wanted(z) : i < k \/ i = k
    BY <1>3, <2>1 DEF Wanted
  <2>3. DoneAt(Current, "helper")
    BY DEF DoneAt
  <2>4. QED
    BY <1>1, <1>2, <2>2, <2>3 DEF HelperInv, ProgressInv, Installing, Below
<1>5. job' = NoJob /\ abandoned \cup {app} = abandoned' \cup {app}
  BY <1>2 DEF CreateHelperScript, Exit, GiveUp
<1> DEFINE h == HelperPath(app)
<1>6. Len(h) = 2 /\ h[1] = "bin"
  BY DEF HelperPath
<1>7. \/ UNCHANGED files
      \/ \E script : script.from = f /\ script.of = z /\ files' = With(h, script)
  <2>1. UNCHANGED files \/ \E len : files' = Helper(len)
    BY DEF CreateHelperScript
  <2>2. \A len : \E script : script.from = f /\ script.of = z
                             /\ Helper(len) = With(h, script)
    <3>1. ASSUME NEW len
          PROVE  \E script : script.from = f /\ script.of = z
                             /\ Helper(len) = With(h, script)
      <4> DEFINE script == [from |-> f, of |-> z, entry |-> 0, good |-> len = 1]
      <4>1. Helper(len) = With(h, script)
        BY <1>2 DEF Helper
      <4>2. script.from = f /\ script.of = z
        OBVIOUS
      <4> HIDE DEF script
      <4>3. QED
        BY <4>1, <4>2
    <3>2. QED
      BY <3>1
  <2>3. QED
    BY <2>1, <2>2
<1>8. \/ app \in abandoned'
      \/ \E script : script.from = f /\ script.of = z /\ files' = With(h, script)
  <2>1. CASE GiveUp
    BY <1>2, <2>1 DEF GiveUp
  <2>2. CASE files' = Helper(1)
    <3> DEFINE script == [from |-> f, of |-> z, entry |-> 0, good |-> 1 = 1]
    <3>1. files' = With(h, script)
      BY <1>2, <2>2 DEF Helper
    <3>2. script.from = f /\ script.of = z
      OBVIOUS
    <3> HIDE DEF script
    <3>3. QED
      BY <3>1, <3>2
  <2>3. QED
    BY <2>1, <2>2 DEF CreateHelperScript
<1> HIDE DEF h
<1>9. OthersUntouched(app)
  <2>1. CASE UNCHANGED files
    BY <2>1 DEF OthersUntouched, Below
  <2>2. ASSUME NEW script, script.from = f, files' = With(h, script)
        PROVE  OthersUntouched(app)
    <3>1. DOMAIN files' = DOMAIN files \cup {h} /\ files'[h] = script
          /\ \A p \in DOMAIN files : p # h => files'[p] = files[p]
      BY <2>2 DEF With
    <3>2. h = HelperPath(app)
      BY DEF h
    <3>3. ExtractAppName(files'[h].from) = app
      BY <1>3, <2>2, <3>1
    <3>4. QED
      BY <1>6, <3>1, <3>2, <3>3 DEF OthersUntouched
  <2>3. QED
    BY <1>7, <2>1, <2>2
<1>10. ASSUME NEW g \in Packages PROVE AppOk(g)'
  <2>1. CASE ExtractAppName(g) # app
    <3>1. AppOk(g)
      BY <1>2, <2>1 DEF HelperInv, AppsInv, AtWork
    <3>2. QED
      BY <1>1, <1>5, <1>9, <2>1, <3>1, OthersStayOk
  <2>2. CASE ExtractAppName(g) = app /\ app \in abandoned'
    BY <2>2 DEF AppOk
  <2>3. ASSUME ExtractAppName(g) = app, NEW script, script.from = f, script.of = z,
               files' = With(h, script)
        PROVE  AppOk(g)'
    <3>1. DOMAIN files' = DOMAIN files \cup {h} /\ files'[h] = script
          /\ \A p \in DOMAIN files : p # h => files'[p] = files[p]
      BY <2>3 DEF With
    <3>2. CASE g # f
      BY <2>3, <3>1, <3>2 DEF AppOk, h
    <3>3. CASE g = f
      <4>1. \A p \in DOMAIN files' : Len(p) = 3 /\ p[2] = app => files'[p].from = f
        BY <1>4, <1>6, <3>1
      <4>2. ASSUME NEW i \in Wanted(z) PROVE Accounted(f, z, i)'
        <5>1. PathOf(ExtractAppName(f), z.entries[i]) # h
          BY <1>6 DEF PathOf, LibPath, ScriptPath, AppPath
        <5>2. StillAccounted(f, z, i)
          BY <3>1, <5>1 DEF StillAccounted
        <5>3. QED
          BY <1>1, <1>4, <5>2, AccountedStays
      <4>3. QED
        BY <2>3, <3>1, <3>3, <4>1, <4>2 DEF AppOk, Accounted, Below, h
    <3>4. QED
      BY <3>2, <3>3
  <2>4. QED
    BY <1>8, <2>1, <2>2, <2>3
<1>11. AppsInv' /\ ProgressInv'
  BY <1>5, <1>10 DEF AppsInv, ProgressInv, Reading, Installing, NoJob
<1>12. QED
  BY <1>11 DEF HelperInv

\* The invariant looks at no more than this.
installVars == <<files, reported, abandoned, job>>

\* Without an nupkg the card may change.
LEMMA OthersKeepHelperInv ==
  ASSUME HelperInv, UNCHANGED installVars, UNCHANGED card \/ job = NoJob
  PROVE  HelperInv'
<1>1. AppsInv'
  BY UntouchedStaysOk DEF HelperInv, AppsInv, AtWork, installVars, App
<1>2. ProgressInv'
  <2>1. CASE job = NoJob
    BY <2>1 DEF installVars, ProgressInv, Reading, Installing, NoJob
  <2>2. CASE UNCHANGED card
    BY <2>2 DEF HelperInv, installVars, ProgressInv, Reading, Image, App, Entry, Current,
                Below, Accounted, ReaderAt, CurrentFileInfo
  <2>3. QED
    BY <2>1, <2>2
<1>3. QED
  BY <1>1, <1>2 DEF HelperInv

LEMMA NextHelperInv ==
  ASSUME PackInv, HelperInv, [Next]_vars
  PROVE  HelperInv'
<1>1. CASE Rc
  <2>1. CASE InstallExtension /\ ~UNCHANGED installVars
    <3>1. /\ job = NoJob /\ job'.step = "open"
          /\ UNCHANGED <<files, reported, abandoned>>
      BY <2>1 DEF InstallExtension, NupkgStart, installVars, NoJob, nupkgVars
    <3>2. AppsInv' /\ ProgressInv'
      BY <3>1, UntouchedStaysOk DEF HelperInv, AppsInv, AtWork, ProgressInv, Reading,
                                    Installing, NoJob
    <3>3. QED
      BY <3>2 DEF HelperInv
  <2>2. CASE ~(InstallExtension /\ ~UNCHANGED installVars)
    <3>1. UNCHANGED installVars /\ UNCHANGED card
      BY <1>1, <2>2 DEF Rc, StartMdev, WritePlatform, MountBoot, InstallExtension,
                        LoadModule, WaitForNetIF, Prod, Startup, nupkgVars, diskVars,
                        installVars
    <3>2. QED
      BY <3>1, OthersKeepHelperInv
  <2>3. QED
    BY <2>1, <2>2
<1>2. CASE Nupkg
  <2>1. UNCHANGED card
    BY <1>2 DEF Nupkg, diskVars
  <2>2. QED
    BY <1>2, <2>1, OpenHelperInv, MkdirHelperInv, CopyHelperInv, NextFileHelperInv,
       ScriptHelperInv DEF Nupkg, NupkgStep
<1>3. CASE Sysconfig
  <2>1. UNCHANGED installVars
    BY <1>3 DEF Sysconfig, StartDownload, EndDownload, MoveDownload, UmountBoot,
                updateRest, nupkgVars, installVars
  <2>2. rc = "up"
    BY <1>3 DEF Sysconfig, StartDownload, EndDownload, MoveDownload, UmountBoot, PackInv,
                UpdateInv, NoUpdate
  <2>3. job = NoJob
    BY <2>2 DEF PackInv, JobInv
  <2>4. QED
    BY <2>1, <2>3, OthersKeepHelperInv
<1>4. CASE PowerCut
  <2>1. files' = <<>> /\ job' = NoJob
    BY <1>4 DEF PowerCut
  <2>2. \A f \in Packages : AppOk(f)'
    BY <2>1 DEF AppOk
  <2>3. AppsInv' /\ ProgressInv'
    BY <2>1, <2>2 DEF AppsInv, ProgressInv, Reading, Installing, NoJob
  <2>4. QED
    BY <2>3 DEF HelperInv
<1>5. ASSUME NEW A, HotPlug(A) PROVE HelperInv'
  BY <1>5, OthersKeepHelperInv DEF HotPlug, nupkgVars, diskVars, installVars
<1>6. CASE UNCHANGED vars
  BY <1>6, OthersKeepHelperInv DEF vars, nupkgVars, diskVars, installVars
<1>7. QED
  BY <1>1, <1>2, <1>3, <1>4, <1>5, <1>6 DEF Next

\* nupkg and unzip.c: an application that has a helper script has all that its
\* package has for it, but for what an error message named, what was read short
\* without a word and what a later file took the place of.
THEOREM HelperAlwaysMeansComplete == Spec => []HelperMeansComplete
<1>1. Init => HelperInv
  BY DEF Init, NupkgInit, HelperInv, AppsInv, AppOk, ProgressInv, Reading, Installing,
         NoJob
<1>2. BootInv /\ HelperInv /\ [Next]_vars => HelperInv'
  BY NextHelperInv DEF BootInv
<1>3. HelperInv => HelperMeansComplete
  BY DEF HelperInv, AppsInv, AppOk, AtWork, HelperMeansComplete, Installing, NoJob
<1>4. QED
  BY <1>1, <1>2, <1>3, BootInvAlways, PTL DEF Spec

----------------------------------------------------------------------------
(* What the helper has been told, and what it has made of it. *)

Unqueued(i, q) == \A k \in DOMAIN q : q[k][2] # i

\* The last event of an interface in q tells whether it is in S.
Tells(q, S) ==
  \A k \in DOMAIN q :
    (\A j \in DOMAIN q : j > k => q[j][2] # q[k][2]) => (q[k][1] = "add" <=> q[k][2] \in S)

\* S and T are the same but for x.
SameBut(S, T, x) == \A i : i # x => (i \in S <=> i \in T)

AddSteps == {"ifplugd", "await ifplugd", "wpa_supplicant", "await wpa_supplicant"}
KillSteps == {"kill wpa_supplicant", "kill ifplugd"}

\* What works only from some step of rc on.
PowerInv ==
  /\ listening <=> rc # "off"
  /\ platform <=> rc \notin {"off", "platform"}
  /\ listening \/ uevents = <<>>
  /\ \/ platform
     \/ helper.step = "idle" /\ \A i \in AllInterfaces : Watching(i) = {}

\* The event at hand, if no other is to come, tells whether the interface is there.
TellsInv ==
  /\ Tells(uevents, present)
  /\ helper.step # "idle" =>
       /\ \/ helper.action = "add" /\ helper.step \in AddSteps
          \/ helper.action = "remove" /\ helper.step \in KillSteps
       /\ Unqueued(helper.interface, uevents) =>
            (helper.action = "add" <=> helper.interface \in present)

NamedIsRunning ==
  \A d \in Daemons : pidfile[d] # NoPid =>
    procs[pidfile[d]].daemon = d /\ procs[pidfile[d]].state = "running"

\* Past its first step the helper for an interface that came has it watched.
AddedIsWatched ==
  helper.step \in AddSteps \ {"ifplugd"} /\ spoiled = {} => Watching(helper.interface) # {}

FollowInv == PowerInv /\ TellsInv /\ NamedIsRunning /\ AddedIsWatched /\ WatchedWhenHandled

\* What the proofs below go by.
FollowBase == WatchInv /\ PlugInv /\ FollowInv

LEMMA QueuedOne ==
  ASSUME NEW q \in Seq(EventType), NEW e \in EventType
  PROVE  /\ Append(q, e) \in Seq(EventType)
         /\ DOMAIN Append(q, e) = 1..(Len(q) + 1) /\ DOMAIN q = 1..Len(q) /\ Len(q) \in Nat
         /\ \A k \in 1..Len(q) : Append(q, e)[k] = q[k]
         /\ Append(q, e)[Len(q) + 1] = e
OBVIOUS

\* One more event of an interface is one more to handle.
LEMMA AppendQueues ==
  ASSUME NEW q \in Seq(EventType), NEW e \in EventType, NEW i
  PROVE  Unqueued(i, Append(q, e)) <=> Unqueued(i, q) /\ e[2] # i
<1> DEFINE n == Len(q)  r == Append(q, e)
<1>1. /\ DOMAIN r = 1..(n + 1) /\ DOMAIN q = 1..n /\ n \in Nat
      /\ \A k \in 1..n : r[k] = q[k]
      /\ r[n + 1] = e
  BY QueuedOne
<1> HIDE DEF n, r
<1>2. Unqueued(i, r) <=> Unqueued(i, q) /\ e[2] # i
  <2>1. \A k \in 1..(n + 1) : k \in 1..n \/ k = n + 1
    BY <1>1
  <2>2. \A k \in 1..n : k \in 1..(n + 1)
    BY <1>1
  <2>3. n + 1 \in 1..(n + 1)
    BY <1>1
  <2>4. QED
    BY <1>1, <2>1, <2>2, <2>3 DEF Unqueued
<1>3. QED
  BY <1>2 DEF r

\* And if it tells what has become of the interface, the queue still does.
LEMMA AppendTells ==
  ASSUME NEW q \in Seq(EventType), NEW e \in EventType, NEW S, NEW T,
         Tells(q, S), SameBut(S, T, e[2]), e[1] = "add" <=> e[2] \in T
  PROVE  Tells(Append(q, e), T)
<1> DEFINE n == Len(q)  r == Append(q, e)
<1>1. /\ DOMAIN r = 1..(n + 1) /\ DOMAIN q = 1..n /\ n \in Nat
      /\ \A k \in 1..n : r[k] = q[k]
      /\ r[n + 1] = e
  BY QueuedOne
<1> HIDE DEF n, r
<1>2. SUFFICES ASSUME NEW k \in DOMAIN r, \A j \in DOMAIN r : j > k => r[j][2] # r[k][2]
               PROVE  r[k][1] = "add" <=> r[k][2] \in T
  BY DEF Tells, r
<1>3. CASE k = n + 1
  BY <1>1, <1>3
<1>4. CASE k # n + 1
  <2>1. k \in 1..n /\ n + 1 \in DOMAIN r /\ n + 1 > k
    BY <1>1, <1>4
  <2>2. r[k] = q[k] /\ q[k][2] # e[2]
    BY <1>1, <1>2, <2>1
  <2>3. \A j \in 1..n : j \in DOMAIN r
    BY <1>1
  <2>4. \A j \in DOMAIN q : j > k => q[j][2] # q[k][2]
    BY <1>1, <1>2, <2>2, <2>3
  <2>5. q[k][1] = "add" <=> q[k][2] \in S
    BY <1>1, <2>1, <2>4 DEF Tells
  <2>6. QED
    BY <2>2, <2>5 DEF SameBut
<1>5. QED
  BY <1>3, <1>4

\* Taking the first event leaves the last of each interface.
LEMMA TailTells ==
  ASSUME NEW q \in Seq(EventType), q # <<>>, NEW S, Tells(q, S)
  PROVE  /\ Tells(Tail(q), S)
         /\ \A i : Unqueued(i, q) <=> Unqueued(i, Tail(q)) /\ Head(q)[2] # i
         /\ Unqueued(Head(q)[2], Tail(q)) => (Head(q)[1] = "add" <=> Head(q)[2] \in S)
<1> DEFINE n == Len(q)  t == Tail(q)
<1>1. /\ DOMAIN q = 1..n /\ n \in Nat /\ n >= 1 /\ DOMAIN t = 1..(n - 1)
      /\ \A k \in 1..(n - 1) : t[k] = q[k + 1]
      /\ Head(q) = q[1]
  OBVIOUS
<1> HIDE DEF n, t
<1>2. \A k \in 1..(n - 1) : k + 1 \in 1..n
  BY <1>1
<1>3. \A k \in 1..n : k = 1 \/ (k - 1 \in 1..(n - 1) /\ (k - 1) + 1 = k)
  BY <1>1
<1>4. 1 \in 1..n
  BY <1>1
<1>5. Tells(t, S)
  <2>1. SUFFICES ASSUME NEW k \in DOMAIN t, \A j \in DOMAIN t : j > k => t[j][2] # t[k][2]
                 PROVE  t[k][1] = "add" <=> t[k][2] \in S
    BY DEF Tells
  <2>2. k + 1 \in 1..n /\ t[k] = q[k + 1]
    BY <1>1, <1>2
  <2>3. ASSUME NEW j \in 1..n, j > k + 1 PROVE q[j][2] # q[k + 1][2]
    <3>1. j - 1 \in 1..(n - 1) /\ (j - 1) + 1 = j /\ j - 1 > k
      BY <1>1, <2>2, <2>3
    <3>2. t[j - 1] = q[j]
      BY <1>1, <3>1
    <3>3. t[j - 1][2] # t[k][2]
      BY <1>1, <2>1, <3>1
    <3>4. QED
      BY <2>2, <3>2, <3>3
  <2>4. q[k + 1][1] = "add" <=> q[k + 1][2] \in S
    BY <1>1, <2>2, <2>3 DEF Tells
  <2>5. QED
    BY <2>2, <2>4
<1>6. ASSUME NEW i PROVE Unqueued(i, q) <=> Unqueued(i, t) /\ Head(q)[2] # i
  <2>1. ASSUME Unqueued(i, q) PROVE Unqueued(i, t) /\ Head(q)[2] # i
    BY <1>1, <1>2, <1>4, <2>1 DEF Unqueued
  <2>2. ASSUME Unqueued(i, t), Head(q)[2] # i PROVE Unqueued(i, q)
    <3>1. SUFFICES ASSUME NEW k \in 1..n PROVE q[k][2] # i
      BY <1>1 DEF Unqueued
    <3>2. CASE k = 1
      BY <1>1, <2>2, <3>2
    <3>3. CASE k # 1
      <4>1. k - 1 \in 1..(n - 1) /\ (k - 1) + 1 = k
        BY <1>3, <3>3
      <4>2. t[k - 1] = q[k]
        BY <1>1, <4>1
      <4>3. QED
        BY <1>1, <2>2, <4>1, <4>2 DEF Unqueued
    <3>4. QED
      BY <3>2, <3>3
  <2>3. QED
    BY <2>1, <2>2
<1>7. ASSUME Unqueued(Head(q)[2], t) PROVE Head(q)[1] = "add" <=> Head(q)[2] \in S
  <2>1. ASSUME NEW j \in 1..n, j > 1 PROVE q[j][2] # q[1][2]
    <3>1. j - 1 \in 1..(n - 1) /\ (j - 1) + 1 = j
      BY <1>3, <2>1
    <3>2. t[j - 1] = q[j]
      BY <1>1, <3>1
    <3>3. QED
      BY <1>1, <1>7, <3>1, <3>2 DEF Unqueued
  <2>2. q[1][1] = "add" <=> q[1][2] \in S
    BY <1>1, <1>4, <2>1 DEF Tells
  <2>3. QED
    BY <1>1, <2>2
<1>8. QED
  BY <1>5, <1>6, <1>7 DEF t

\* Once rc has prodded them, an event is queued for every interface that is there.
LEMMA ProdTells ==
  ASSUME uevents \in Seq(EventType), Tells(uevents, present), ProdInterfaces
  PROVE  /\ Tells(uevents', present)
         /\ \A i \in AllInterfaces :
              Unqueued(i, uevents') => Unqueued(i, uevents) /\ i \notin present
<1>1. PICK sent : Prodded(sent)
  BY ProdFunction
<1>2. PICK N : N = Len(Interfaces)
  OBVIOUS
<1>3. /\ sent[0] = uevents /\ uevents' = sent[N]
      /\ \A k \in 1..N : sent[k] = IF Interfaces[k] \in present
           THEN Append(sent[k - 1], <<"add", Interfaces[k]>>) ELSE sent[k - 1]
  BY <1>1, <1>2 DEF Prodded
<1>4. /\ N \in Nat /\ \A k \in 1..N : Interfaces[k] \in AllInterfaces
      /\ \A i \in AllInterfaces : \E k \in 1..N : Interfaces[k] = i
  BY <1>2, InterfacesInOrder
<1> DEFINE Passed(n) == {Interfaces[k] : k \in 1..n}
           Fine(n) == /\ sent[n] \in Seq(EventType) /\ Tells(sent[n], present)
                      /\ \A i : Unqueued(i, sent[n]) =>
                           Unqueued(i, uevents) /\ i \notin present \cap Passed(n)
           Good == {n \in Nat : Fine(n)}
<1>5. 0 \in Good
  BY <1>3
<1>6. ASSUME NEW n \in Nat, n < N, n \in Good PROVE n + 1 \in Good
  <2>1. n + 1 \in 1..N /\ (n + 1) - 1 = n
    BY <1>4, <1>6
  <2> DEFINE x == Interfaces[n + 1]  e == <<"add", x>>
  <2>2. x \in AllInterfaces /\ e \in EventType /\ e[1] = "add" /\ e[2] = x
    BY <1>4, <2>1 DEF EventType
  <2>3. sent[n + 1] = IF x \in present THEN Append(sent[n], e) ELSE sent[n]
    BY <1>3, <2>1
  <2>4. Passed(n + 1) = Passed(n) \cup {x}
    <3>1. 1..(n + 1) = 1..n \cup {n + 1}
      BY <1>6
    <3>2. QED
      BY <3>1
  <2>5. /\ sent[n] \in Seq(EventType) /\ Tells(sent[n], present)
        /\ \A i : Unqueued(i, sent[n]) => Unqueued(i, uevents) /\ i \notin present \cap Passed(n)
    BY <1>6
  <2> HIDE DEF Passed, x, e
  <2>6. CASE x \in present
    <3>1. sent[n + 1] = Append(sent[n], e)
      BY <2>3, <2>6
    <3>2. SameBut(present, present, e[2])
      BY DEF SameBut
    <3>3. Tells(Append(sent[n], e), present)
      BY <2>2, <2>5, <2>6, <3>2, AppendTells
    <3>4. \A i : Unqueued(i, Append(sent[n], e)) <=> Unqueued(i, sent[n]) /\ e[2] # i
      BY <2>2, <2>5, AppendQueues
    <3>5. Append(sent[n], e) \in Seq(EventType)
      BY <2>2, <2>5, QueuedOne
    <3>6. \A i : Unqueued(i, sent[n + 1]) =>
            Unqueued(i, uevents) /\ i \notin present \cap Passed(n + 1)
      BY <2>2, <2>4, <2>5, <3>1, <3>4
    <3>7. Fine(n + 1)
      BY <3>1, <3>3, <3>5, <3>6
    <3>8. QED
      BY <3>7
  <2>7. CASE x \notin present
    <3>1. present \cap Passed(n + 1) = present \cap Passed(n)
      BY <2>4, <2>7
    <3>2. Fine(n + 1)
      BY <2>3, <2>5, <2>7, <3>1
    <3>3. QED
      BY <3>2
  <2>8. QED
    BY <2>6, <2>7
<1>7. \A n \in Nat : n < N /\ n \in Good => n + 1 \in Good
  BY <1>6
<1>8. N \in Good
  <2> HIDE DEF Good
  <2>1. N \in 0..N
    BY <1>4
  <2>2. QED
    BY <1>4, <1>5, <1>7, <2>1, InductionUpTo
<1>9. \A i \in AllInterfaces : i \in Passed(N)
  BY <1>4
<1> HIDE DEF Passed
<1>10. QED
  BY <1>3, <1>8, <1>9

\* The pid a process gets was free.
LEMMA FreePidIsFree ==
  ASSUME \E p \in Pids : procs[p] = Gone
  PROVE  FreePid \in Pids /\ procs[FreePid] = Gone
<1> DEFINE R == {ss \in Nat \X Nat : ss[1] < ss[2]}
           Free == {p \in Pids : procs[p] = Gone}
<1>1. OpToRel(<, Nat) = R
  BY DEF OpToRel
<1>2. IsWellFoundedOn(R, Nat)
  BY <1>1, NatLessThanWellFounded
<1>3. Free \subseteq Nat /\ Free # {}
  BY PidsAssumption
<1> HIDE DEF R, Free
<1>4. PICK x \in Free : \A y \in Free : ~(<<y, x>> \in R)
  BY <1>2, <1>3, WFMin
<1>5. \A y \in Free : x <= y
  <2>1. SUFFICES ASSUME NEW y \in Free PROVE x <= y
    OBVIOUS
  <2>2. x \in Nat /\ y \in Nat
    BY <1>3
  <2>3. ~(y < x)
    BY <1>4, <2>2 DEF R
  <2>4. QED
    BY <2>2, <2>3
<1>6. x \in Pids /\ procs[x] = Gone /\ \A q \in Pids : procs[q] = Gone => x <= q
  BY <1>4, <1>5 DEF Free
<1>7. QED
  BY <1>6 DEF FreePid

----------------------------------------------------------------------------
\* Who watches depends on the daemons only.
LEMMA WatchersAre ==
  ASSUME NEW i
  PROVE  \A p : p \in Watching(i) <=>
           p \in Pids /\ (Ifplugd(p, i, "starting") \/ Ifplugd(p, i, "running"))
BY DEF Watching, Ifplugd

SameWatchers(i) == Watching(i)' = Watching(i)

AllSame == \A i \in AllInterfaces : SameWatchers(i)

\* Everybody but those of the interface the helper is at work on.
OthersSame == \A i \in AllInterfaces : i # helper.interface => SameWatchers(i)

LEMMA SameProcs ==
  ASSUME procs' = procs
  PROVE  AllSame
BY DEF AllSame, SameWatchers, Watching

\* What tells what is switched on, what is there and what is still to be handled.
plugVars == <<rc, listening, platform, present, uevents>>

\* Power comes: nothing is there, and nobody looks.
LEMMA RamInitFollowInv == RamInit /\ rc = "off" => FollowInv
<1> SUFFICES ASSUME RamInit, rc = "off" PROVE FollowInv
  OBVIOUS
<1>1. \A i \in AllInterfaces : Watching(i) = {}
  BY DEF RamInit, Watching, Gone
<1>2. uevents = <<>> /\ DOMAIN uevents = {} /\ helper.step = "idle"
  BY DEF RamInit, Idle
<1>3. PowerInv
  BY <1>1, <1>2 DEF RamInit, PowerInv
<1>4. TellsInv
  BY <1>2 DEF TellsInv, Tells
<1>5. NamedIsRunning
  BY DEF RamInit, NamedIsRunning
<1>6. AddedIsWatched
  BY <1>2 DEF AddedIsWatched, AddSteps
<1>7. WatchedWhenHandled
  BY <1>1 DEF WatchedWhenHandled
<1>8. QED
  BY <1>3, <1>4, <1>5, <1>6, <1>7 DEF FollowInv

\* rc may go on, as long as it keeps what it has switched on.
RcGoesOn ==
  /\ listening' <=> rc' # "off"
  /\ platform' <=> rc' \notin {"off", "platform"}
  /\ listening => listening'
  /\ platform => platform'
  /\ rc' \in {"startup", "up"} => rc \in {"startup", "up"}

LEMMA StaysFollowInv ==
  ASSUME FollowInv, UNCHANGED watchVars, UNCHANGED <<present, uevents>>, RcGoesOn
  PROVE  FollowInv'
<1>1. UNCHANGED <<procs, pidfile, helper, spoiled>>
  BY DEF watchVars
<1>2. \A i \in AllInterfaces : Watching(i)' = Watching(i)
  BY <1>1, SameProcs DEF AllSame, SameWatchers
<1>3. PowerInv'
  BY <1>1, <1>2 DEF FollowInv, PowerInv, RcGoesOn
<1>4. TellsInv'
  BY <1>1 DEF FollowInv, TellsInv
<1>5. NamedIsRunning'
  BY <1>1 DEF FollowInv, NamedIsRunning
<1>6. AddedIsWatched'
  BY <1>1 DEF FollowInv, AddedIsWatched, Watching
<1>7. WatchedWhenHandled'
  BY <1>1, <1>2 DEF FollowInv, WatchedWhenHandled, Settled, RcGoesOn
<1>8. QED
  BY <1>3, <1>4, <1>5, <1>6, <1>7 DEF FollowInv

\* rc prods: nothing that is there is settled now.
LEMMA ProdFollowInv ==
  ASSUME FollowBase, Prod
  PROVE  FollowInv'
<1>1. UNCHANGED <<procs, pidfile, helper, spoiled, present, listening, platform>>
      /\ rc = "prod" /\ rc' = "startup"
  BY DEF Prod, Step, kernelVars
<1>2. \A i \in AllInterfaces : Watching(i)' = Watching(i)
  BY <1>1, SameProcs DEF AllSame, SameWatchers
<1>3. /\ Tells(uevents', present)
      /\ \A i \in AllInterfaces :
           Unqueued(i, uevents') => Unqueued(i, uevents) /\ i \notin present
  BY ProdTells DEF Prod, FollowBase, PlugInv, FollowInv, TellsInv
<1>4. listening /\ platform
  BY <1>1 DEF FollowBase, FollowInv, PowerInv
<1>5. PowerInv'
  BY <1>1, <1>4 DEF PowerInv
<1>6. TellsInv'
  BY <1>1, <1>3 DEF FollowBase, PlugInv, FollowInv, TellsInv
<1>7. NamedIsRunning' /\ AddedIsWatched'
  BY <1>1 DEF FollowBase, FollowInv, NamedIsRunning, AddedIsWatched, Watching
<1>8. WatchedWhenHandled'
  BY <1>1, <1>2, <1>3 DEF FollowBase, FollowInv, WatchedWhenHandled, Settled, Unqueued
<1>9. QED
  BY <1>5, <1>6, <1>7, <1>8 DEF FollowInv

\* The kernel adds or removes an interface, and mdev, if it listens, is told.
LEMMA KernelFollowInv ==
  ASSUME FollowBase, NEW i \in AllInterfaces, HotPlug(KernelAdds(i)) \/ HotPlug(Unplug(i))
  PROVE  FollowInv'
<1>1. UNCHANGED <<procs, pidfile, helper, spoiled, rc, listening, platform>>
  BY DEF HotPlug, KernelAdds, Unplug, rcVars
<1>2. \A j \in AllInterfaces : Watching(j)' = Watching(j)
  BY <1>1, SameProcs DEF AllSame, SameWatchers
<1>3. PICK e \in EventType : /\ uevents' = IF listening THEN Append(uevents, e) ELSE uevents
                             /\ e[2] = i /\ (e[1] = "add" <=> i \in present')
                             /\ SameBut(present, present', i)
  <2>1. CASE HotPlug(KernelAdds(i))
    <3> DEFINE e == <<"add", i>>
    <3>1. e \in EventType /\ e[2] = i /\ e[1] = "add"
      BY DEF EventType
    <3>2. uevents' = IF listening THEN Append(uevents, e) ELSE uevents
      BY <2>1 DEF HotPlug, KernelAdds, Uevent
    <3>3. i \in present' /\ SameBut(present, present', i)
      BY <2>1 DEF HotPlug, KernelAdds, SameBut
    <3>4. QED
      BY <3>1, <3>2, <3>3
  <2>2. CASE HotPlug(Unplug(i))
    <3> DEFINE e == <<"remove", i>>
    <3>1. e \in EventType /\ e[2] = i /\ e[1] # "add"
      BY DEF EventType
    <3>2. uevents' = IF listening THEN Append(uevents, e) ELSE uevents
      BY <2>2 DEF HotPlug, Unplug, Uevent
    <3>3. i \notin present' /\ SameBut(present, present', i)
      BY <2>2 DEF HotPlug, Unplug, SameBut
    <3>4. QED
      BY <3>1, <3>2, <3>3
  <2>3. QED
    BY <2>1, <2>2
<1>4. NamedIsRunning' /\ AddedIsWatched'
  BY <1>1 DEF FollowBase, FollowInv, NamedIsRunning, AddedIsWatched, Watching
<1>5. PowerInv'
  BY <1>1, <1>2, <1>3 DEF FollowBase, FollowInv, PowerInv
<1>6. CASE listening
  <2>1. uevents \in Seq(EventType) /\ Tells(uevents, present)
    BY DEF FollowBase, PlugInv, FollowInv, TellsInv
  <2>2. uevents' = Append(uevents, e)
    BY <1>3, <1>6
  <2>3. Tells(uevents', present')
    BY <1>3, <2>1, <2>2, AppendTells
  <2>4. \A j : Unqueued(j, uevents') => Unqueued(j, uevents) /\ j # i
    BY <1>3, <2>1, <2>2, AppendQueues
  <2>5. TellsInv'
    BY <1>1, <1>3, <2>3, <2>4 DEF FollowBase, FollowInv, TellsInv, SameBut
  <2>6. WatchedWhenHandled'
    BY <1>1, <1>2, <1>3, <2>4 DEF FollowBase, FollowInv, WatchedWhenHandled, Settled, Unqueued, SameBut
  <2>7. QED
    BY <1>4, <1>5, <2>5, <2>6 DEF FollowInv
<1>7. CASE ~listening
  <2>1. uevents' = <<>> /\ DOMAIN uevents' = {} /\ rc = "off" /\ ~platform
        /\ helper.step = "idle" /\ \A j \in AllInterfaces : Watching(j) = {}
    BY <1>3, <1>7 DEF FollowBase, FollowInv, PowerInv
  <2>2. TellsInv'
    BY <1>1, <2>1 DEF TellsInv, Tells
  <2>3. WatchedWhenHandled'
    BY <1>1, <1>2, <2>1 DEF WatchedWhenHandled
  <2>4. QED
    BY <1>4, <1>5, <2>2, <2>3 DEF FollowInv
<1>8. QED
  BY <1>6, <1>7

----------------------------------------------------------------------------
\* mdev takes an event; without /etc/platform it comes to nothing.
LEMMA TakeEventFollowInv ==
  ASSUME FollowBase, TakeEvent, UNCHANGED rc
  PROVE  FollowInv'
<1>1. UNCHANGED <<procs, pidfile, spoiled, present, listening, platform>>
      /\ helper = Idle /\ helper.step = "idle" /\ uevents # <<>>
  BY DEF TakeEvent, helperRest, kernelVars, Idle
<1>2. \A i \in AllInterfaces : Watching(i)' = Watching(i)
  BY <1>1, SameProcs DEF AllSame, SameWatchers
<1>3. uevents \in Seq(EventType) /\ Tells(uevents, present)
  BY DEF FollowBase, PlugInv, FollowInv, TellsInv
<1> DEFINE x == Head(uevents)[2]
<1>4. /\ uevents' = Tail(uevents) /\ Tells(uevents', present)
      /\ \A i : Unqueued(i, uevents) <=> Unqueued(i, uevents') /\ x # i
      /\ Unqueued(x, uevents') => (Head(uevents)[1] = "add" <=> x \in present)
  BY <1>1, <1>3, TailTells DEF TakeEvent
<1>5. Head(uevents)[1] \in {"add", "remove"}
  <2>1. Head(uevents) \in EventType
    BY <1>1, <1>3
  <2>2. QED
    BY <2>1 DEF EventType
<1>6. NamedIsRunning'
  BY <1>1 DEF FollowBase, FollowInv, NamedIsRunning
<1>7. CASE ~platform
  <2>1. helper' = Idle /\ helper'.step = "idle"
    BY <1>7 DEF TakeEvent, Idle
  <2>2. \A i \in AllInterfaces : Watching(i) = {}
    BY <1>7 DEF FollowBase, FollowInv, PowerInv
  <2>3. rc \notin {"startup", "up"}
    BY <1>7 DEF FollowBase, FollowInv, PowerInv
  <2>4. PowerInv'
    BY <1>1, <1>2, <2>1, <2>2 DEF TakeEvent, FollowBase, FollowInv, PowerInv
  <2>5. TellsInv'
    BY <1>1, <1>4, <2>1 DEF TellsInv
  <2>6. AddedIsWatched'
    BY <2>1 DEF AddedIsWatched, AddSteps
  <2>7. WatchedWhenHandled'
    BY <1>1, <1>2, <2>2, <2>3 DEF WatchedWhenHandled
  <2>8. QED
    BY <1>6, <2>4, <2>5, <2>6, <2>7 DEF FollowInv
<1>8. CASE platform
  <2>1. /\ helper'.action = Head(uevents)[1] /\ helper'.interface = x
        /\ helper'.step = IF Head(uevents)[1] = "add" THEN "ifplugd" ELSE "kill wpa_supplicant"
    BY <1>8 DEF TakeEvent
  <2> HIDE DEF x
  <2>2. PowerInv'
    BY <1>1, <1>8 DEF TakeEvent, FollowBase, FollowInv, PowerInv
  <2>3. TellsInv'
    BY <1>1, <1>4, <1>5, <2>1 DEF TellsInv, AddSteps, KillSteps
  <2>4. AddedIsWatched'
    BY <2>1 DEF AddedIsWatched, AddSteps
  <2>5. WatchedWhenHandled'
    <3>1. \A i \in AllInterfaces : Settled(i)' => Settled(i)
      BY <1>1, <1>4, <2>1 DEF Settled, Unqueued
    <3>2. QED
      BY <1>1, <1>2, <3>1 DEF FollowBase, FollowInv, WatchedWhenHandled
  <2>6. QED
    BY <1>6, <2>2, <2>3, <2>4, <2>5 DEF FollowInv
<1>9. QED
  BY <1>7, <1>8

\* The helper goes on with an event.
LEMMA GoesOnFollowInv ==
  ASSUME FollowBase, helper.step # "idle", UNCHANGED plugVars, spoiled' = spoiled,
         NamedIsRunning', OthersSame, NEW step, HelperAt(step),
         NEW h, h = helper.interface,
         \/ /\ helper.action = "add" /\ step \in AddSteps \ {"ifplugd"}
            /\ spoiled = {} => Watching(h)' # {}
         \/ helper.action = "remove" /\ step \in KillSteps
  PROVE  FollowInv'
<1>1. UNCHANGED <<rc, listening, platform, present, uevents>>
  BY DEF plugVars
<1>2. /\ helper'.action = helper.action /\ helper'.interface = helper.interface
      /\ helper'.step = step
  BY DEF HelperAt
<1>3. platform
  BY DEF FollowBase, FollowInv, PowerInv
<1>4. PowerInv'
  BY <1>1, <1>3 DEF FollowBase, FollowInv, PowerInv
<1>5. TellsInv'
  BY <1>1, <1>2 DEF FollowBase, FollowInv, TellsInv
<1>6. AddedIsWatched'
  <2>1. CASE helper.action = "add"
    <3>1. spoiled = {} => Watching(h)' # {}
      BY <2>1 DEF KillSteps
    <3>2. QED
      BY <1>2, <3>1 DEF AddedIsWatched, Watching
  <2>2. CASE helper.action # "add"
    BY <1>2, <2>2 DEF AddedIsWatched, AddSteps, KillSteps
  <2>3. QED
    BY <2>1, <2>2
<1>7. WatchedWhenHandled'
  <2>1. \A i \in AllInterfaces : Settled(i)' => Settled(i) /\ i # helper.interface
    BY <1>1, <1>2 DEF Settled, AddSteps, KillSteps
  <2>2. \A i \in AllInterfaces : i # helper.interface => Watching(i)' = Watching(i)
    BY DEF OthersSame, SameWatchers
  <2>3. QED
    BY <1>1, <2>1, <2>2 DEF FollowBase, FollowInv, WatchedWhenHandled
<1>8. QED
  BY <1>4, <1>5, <1>6, <1>7 DEF FollowInv

\* The helper is through with an event.  If it was the last, the interface is
\* watched, or not, as it should be.
LEMMA EndsFollowInv ==
  ASSUME FollowBase, helper.step # "idle", UNCHANGED plugVars, spoiled' = spoiled,
         NamedIsRunning', OthersSame, helper' = Idle,
         NEW h, h = helper.interface,
         \/ /\ helper.action = "add"
            /\ spoiled = {} => Watching(h)' # {}
         \/ /\ helper.action = "remove"
            /\ spoiled = {} => Watching(h)' = {}
  PROVE  FollowInv'
<1>1. UNCHANGED <<rc, listening, platform, present, uevents>>
  BY DEF plugVars
<1>2. helper'.step = "idle"
  BY DEF Idle
<1>3. platform
  BY DEF FollowBase, FollowInv, PowerInv
<1>4. PowerInv'
  BY <1>1, <1>3 DEF FollowBase, FollowInv, PowerInv
<1>5. TellsInv'
  BY <1>1, <1>2 DEF FollowBase, FollowInv, TellsInv
<1>6. AddedIsWatched'
  BY <1>2 DEF AddedIsWatched, AddSteps
<1>7. WatchedWhenHandled'
  <2>1. SUFFICES ASSUME spoiled = {}, NEW i \in AllInterfaces, Settled(i)'
                 PROVE  /\ i \notin present => Watching(i)' = {}
                        /\ i \in present /\ rc \in {"startup", "up"} => Watching(i)' # {}
    BY <1>1 DEF WatchedWhenHandled
  <2>2. Unqueued(i, uevents)
    BY <1>1, <2>1 DEF Settled, Unqueued
  <2>3. CASE i = helper.interface
    <3>1. helper.action = "add" <=> i \in present
      BY <2>2, <2>3 DEF FollowBase, FollowInv, TellsInv
    <3>2. QED
      BY <2>1, <2>3, <3>1
  <2>4. CASE i # helper.interface
    <3>1. Watching(i)' = Watching(i)
      BY <2>4 DEF OthersSame, SameWatchers
    <3>2. Settled(i)
      BY <2>2, <2>4 DEF Settled, Unqueued
    <3>3. QED
      BY <2>1, <3>1, <3>2 DEF FollowBase, FollowInv, WatchedWhenHandled
  <2>5. QED
    BY <2>3, <2>4
<1>8. QED
  BY <1>4, <1>5, <1>6, <1>7 DEF FollowInv

\* A new process adds itself to whom it watches for.
LEMMA SpawnFollows ==
  ASSUME FollowBase, NEW d, Spawn(d), pidfile' = pidfile
  PROVE  /\ NamedIsRunning'
         /\ \A i : Watching(i)' = IF d = <<"ifplugd", i>> THEN Watching(i) \cup {FreePid}
                                  ELSE Watching(i)
         /\ FreePid \in Pids
<1>1. FreePid \in Pids /\ procs[FreePid] = Gone
  BY FreePidIsFree DEF Spawn
<1>2. \A p \in Pids : procs'[p] = IF p = FreePid
                        THEN [daemon |-> d, state |-> "starting"] ELSE procs[p]
  BY <1>1 DEF Spawn, FollowBase, WatchInv, Shapes
<1>3. procs[FreePid].state = "gone"
  BY <1>1 DEF Gone
<1> HIDE DEF FreePid
<1>4. NamedIsRunning'
  <2>1. SUFFICES ASSUME NEW e \in Daemons, pidfile[e] # NoPid
                 PROVE  procs'[pidfile[e]].daemon = e /\ procs'[pidfile[e]].state = "running"
    BY DEF NamedIsRunning
  <2>2. pidfile[e] \in Pids
    BY <2>1 DEF FollowBase, PlugInv
  <2>3. procs[pidfile[e]].daemon = e /\ procs[pidfile[e]].state = "running"
    BY <2>1 DEF FollowBase, FollowInv, NamedIsRunning
  <2>4. QED
    BY <1>2, <1>3, <2>2, <2>3
<1>5. ASSUME NEW i
      PROVE  Watching(i)' = IF d = <<"ifplugd", i>> THEN Watching(i) \cup {FreePid}
                            ELSE Watching(i)
  <2>1. \A p \in Pids : p # FreePid => (p \in Watching(i)' <=> p \in Watching(i))
    BY <1>2 DEF Watching
  <2>2. FreePid \notin Watching(i)
    BY <1>3 DEF Watching
  <2>3. FreePid \in Watching(i)' <=> d = <<"ifplugd", i>>
    <3>1. procs'[FreePid].daemon = d /\ procs'[FreePid].state = "starting"
      BY <1>1, <1>2
    <3>2. QED
      BY <1>1, <3>1 DEF Watching
  <2>4. Watching(i)' \subseteq Pids /\ Watching(i) \subseteq Pids
    BY DEF Watching
  <2>5. QED
    BY <1>1, <2>1, <2>2, <2>3, <2>4
<1>6. QED
  BY <1>1, <1>4, <1>5

LEMMA HelperGoesOn ==
  ASSUME FollowBase, NEW step, step # "idle", GoOn(step)
  PROVE  HelperAt(step)
BY DEF GoOn, HelperAt, FollowBase, WatchInv, Shapes

\* An add: an ifplugd is started, or there is one already.
LEMMA StartIfplugdFollowInv ==
  ASSUME FollowBase, StartIfplugd, UNCHANGED rc
  PROVE  FollowInv'
<1>1. /\ helper.step = "ifplugd" /\ helper.step # "idle" /\ helper.action = "add"
      /\ spoiled' = spoiled /\ pidfile' = pidfile /\ UNCHANGED plugVars
  BY DEF StartIfplugd, helperRest, kernelVars, plugVars, FollowBase, FollowInv, TellsInv, KillSteps
<1>2. PICK h : h = helper.interface
  OBVIOUS
<1>3. h \in AllInterfaces
  BY <1>1, <1>2 DEF FollowBase, PlugInv
<1>4. PICK d : d = <<"ifplugd", h>>
  OBVIOUS
<1>5. d \in Daemons
  BY <1>3, <1>4 DEF Daemons
<1>6. CASE pidfile[d] = NoPid
  <2>1. Spawn(d) /\ HelperAt("await ifplugd")
    BY <1>2, <1>4, <1>6, HelperGoesOn DEF StartIfplugd
  <2>2. /\ NamedIsRunning'
        /\ \A i : Watching(i)' = IF d = <<"ifplugd", i>> THEN Watching(i) \cup {FreePid}
                                 ELSE Watching(i)
    BY <1>1, <2>1, SpawnFollows
  <2>3. Watching(h)' # {}
    BY <1>4, <2>2
  <2>4. OthersSame
    BY <1>2, <1>4, <2>2 DEF OthersSame, SameWatchers
  <2>5. "await ifplugd" \in AddSteps \ {"ifplugd"}
    BY DEF AddSteps
  <2>6. QED
    BY <1>1, <1>2, <2>1, <2>2, <2>3, <2>4, <2>5, GoesOnFollowInv
<1>7. CASE pidfile[d] # NoPid
  <2>1. procs' = procs /\ HelperAt("wpa_supplicant")
    BY <1>2, <1>4, <1>7, HelperGoesOn DEF StartIfplugd
  <2>2. AllSame
    BY <2>1, SameProcs
  <2>3. OthersSame /\ Watching(h)' = Watching(h)
    BY <1>3, <2>2 DEF AllSame, OthersSame, SameWatchers
  <2>4. pidfile[d] \in Watching(h)
    BY <1>4, <1>5, <1>7 DEF FollowBase, PlugInv, FollowInv, NamedIsRunning, Watching
  <2>5. NamedIsRunning'
    BY <1>1, <2>1 DEF FollowBase, FollowInv, NamedIsRunning
  <2>6. "wpa_supplicant" \in AddSteps \ {"ifplugd"}
    BY DEF AddSteps
  <2>7. QED
    BY <1>1, <1>2, <2>1, <2>3, <2>4, <2>5, <2>6, GoesOnFollowInv
<1>8. QED
  BY <1>6, <1>7

\* An add past the start: whatever else the helper does, the interface stays watched.
LEMMA AddedFollowInv ==
  ASSUME FollowBase, helper.step \in AddSteps \ {"ifplugd"}, UNCHANGED plugVars,
         spoiled' = spoiled, NamedIsRunning', AllSame, NEW step, GoOn(step),
         step \in (AddSteps \cup {"idle"}) \ {"ifplugd"}
  PROVE  FollowInv'
<1>1. helper.step # "idle" /\ helper.action = "add"
  BY DEF AddSteps, KillSteps, FollowBase, FollowInv, TellsInv
<1>2. PICK h : h = helper.interface
  OBVIOUS
<1>3. OthersSame /\ Watching(h)' = Watching(h)
  BY <1>1, <1>2 DEF AllSame, OthersSame, SameWatchers, FollowBase, PlugInv
<1>4. spoiled = {} => Watching(h)' # {}
  BY <1>2, <1>3 DEF FollowBase, FollowInv, AddedIsWatched
<1>5. CASE step = "idle"
  <2>1. helper' = Idle
    BY <1>5 DEF GoOn
  <2>2. QED
    BY <1>1, <1>2, <1>3, <1>4, <2>1, EndsFollowInv
<1>6. CASE step # "idle"
  <2>1. HelperAt(step)
    BY <1>6, HelperGoesOn
  <2>2. step \in AddSteps \ {"ifplugd"}
    BY <1>6
  <2>3. QED
    BY <1>1, <1>2, <1>3, <1>4, <2>1, <2>2, GoesOnFollowInv
<1>7. QED
  BY <1>5, <1>6

LEMMA StartWpaSupplicantFollowInv ==
  ASSUME FollowBase, StartWpaSupplicant, UNCHANGED rc
  PROVE  FollowInv'
<1>1. /\ helper.step \in AddSteps \ {"ifplugd"}
      /\ spoiled' = spoiled /\ pidfile' = pidfile /\ UNCHANGED plugVars
  BY DEF StartWpaSupplicant, helperRest, kernelVars, plugVars, AddSteps
<1>2. PICK d : d = <<"wpa_supplicant", helper.interface>>
  OBVIOUS
<1>3. CASE Spawn(d) /\ GoOn("await wpa_supplicant")
  <2>1. /\ NamedIsRunning'
        /\ \A i : Watching(i)' = IF d = <<"ifplugd", i>> THEN Watching(i) \cup {FreePid}
                                 ELSE Watching(i)
    BY <1>1, <1>3, SpawnFollows
  <2>2. AllSame
    BY <1>2, <2>1 DEF AllSame, SameWatchers
  <2>3. "await wpa_supplicant" \in (AddSteps \cup {"idle"}) \ {"ifplugd"}
    BY DEF AddSteps
  <2>4. QED
    BY <1>1, <1>3, <2>1, <2>2, <2>3, AddedFollowInv
<1>4. CASE procs' = procs /\ GoOn("idle")
  <2>1. AllSame
    BY <1>4, SameProcs
  <2>2. NamedIsRunning'
    BY <1>1, <1>4 DEF FollowBase, FollowInv, NamedIsRunning
  <2>3. "idle" \in (AddSteps \cup {"idle"}) \ {"ifplugd"}
    OBVIOUS
  <2>4. QED
    BY <1>1, <1>4, <2>1, <2>2, <2>3, AddedFollowInv
<1>5. QED
  BY <1>2, <1>3, <1>4 DEF StartWpaSupplicant

LEMMA AwaitPidFileFollowInv ==
  ASSUME FollowBase, AwaitPidFile, UNCHANGED rc
  PROVE  FollowInv'
<1>1. /\ helper.step \in AddSteps \ {"ifplugd"} /\ procs' = procs
      /\ spoiled' = spoiled /\ pidfile' = pidfile /\ UNCHANGED plugVars
  BY DEF AwaitPidFile, helperRest, kernelVars, plugVars, AddSteps
<1>2. AllSame
  BY <1>1, SameProcs
<1>3. NamedIsRunning'
  BY <1>1 DEF FollowBase, FollowInv, NamedIsRunning
<1>4. PICK step \in {"wpa_supplicant", "idle"} : GoOn(step)
  BY DEF AwaitPidFile
<1>5. step \in (AddSteps \cup {"idle"}) \ {"ifplugd"}
  BY <1>4 DEF AddSteps
<1>6. QED
  BY <1>1, <1>2, <1>3, <1>4, <1>5, AddedFollowInv

\* A kill leaves the other daemons alone, and no pid file names the one that ends.
LEMMA KillFollows ==
  ASSUME FollowBase, NEW d, Kill(d)
  PROVE  /\ NamedIsRunning'
         /\ \A i \in AllInterfaces : d # <<"ifplugd", i>> => Watching(i)' = Watching(i)
<1>1. CASE d \in Daemons /\ pidfile[d] # NoPid
  <2>1. \A p \in Pids : procs'[p] = IF p = pidfile[d] /\ procs[p].daemon = d
                                    THEN [daemon |-> d, state |-> "ending"] ELSE procs[p]
    BY <1>1 DEF Kill
  <2>2. \A e \in Daemons : pidfile'[e] = IF e = d THEN NoPid ELSE pidfile[e]
    BY <1>1 DEF Kill, FollowBase, WatchInv, Shapes
  <2>3. NamedIsRunning'
    <3>1. SUFFICES ASSUME NEW e \in Daemons, pidfile'[e] # NoPid
                   PROVE  procs'[pidfile'[e]].daemon = e /\ procs'[pidfile'[e]].state = "running"
      BY DEF NamedIsRunning
    <3>2. e # d /\ pidfile'[e] = pidfile[e]
      BY <2>2, <3>1
    <3>3. pidfile[e] \in Pids
      BY <3>1, <3>2 DEF FollowBase, PlugInv
    <3>4. procs[pidfile[e]].daemon = e /\ procs[pidfile[e]].state = "running"
      BY <3>1, <3>2 DEF FollowBase, FollowInv, NamedIsRunning
    <3>5. QED
      BY <2>1, <3>2, <3>3, <3>4
  <2>4. ASSUME NEW i \in AllInterfaces, d # <<"ifplugd", i>>
        PROVE  Watching(i)' = Watching(i)
    <3>1. ASSUME NEW p \in Pids PROVE p \in Watching(i)' <=> p \in Watching(i)
      <4>1. CASE p = pidfile[d] /\ procs[p].daemon = d
        <5>1. procs'[p] = [daemon |-> d, state |-> "ending"]
          BY <2>1, <4>1
        <5>2. procs'[p].daemon # <<"ifplugd", i>> /\ procs[p].daemon # <<"ifplugd", i>>
          BY <2>4, <4>1, <5>1
        <5>3. QED
          BY <5>2 DEF Watching
      <4>2. CASE ~(p = pidfile[d] /\ procs[p].daemon = d)
        <5>1. procs'[p] = procs[p]
          BY <2>1, <4>2
        <5>2. QED
          BY <5>1 DEF Watching
      <4>3. QED
        BY <4>1, <4>2
    <3>2. Watching(i)' \subseteq Pids /\ Watching(i) \subseteq Pids
      BY DEF Watching
    <3>3. QED
      BY <3>1, <3>2
  <2>5. QED
    BY <2>3, <2>4
<1>2. CASE ~(d \in Daemons /\ pidfile[d] # NoPid)
  <2>1. procs' = procs /\ pidfile' = pidfile
    BY <1>2 DEF Kill
  <2>2. QED
    BY <2>1 DEF FollowBase, FollowInv, NamedIsRunning, Watching
<1>3. QED
  BY <1>1, <1>2

LEMMA KillWpaSupplicantFollowInv ==
  ASSUME FollowBase, KillWpaSupplicant, UNCHANGED rc
  PROVE  FollowInv'
<1>1. /\ helper.step = "kill wpa_supplicant" /\ helper.step # "idle"
      /\ helper.action = "remove" /\ spoiled' = spoiled /\ UNCHANGED plugVars
  BY DEF KillWpaSupplicant, helperRest, kernelVars, plugVars, FollowBase, FollowInv,
         TellsInv, AddSteps
<1>2. PICK d : d = <<"wpa_supplicant", helper.interface>>
  OBVIOUS
<1>3. Kill(d)
  BY <1>2 DEF KillWpaSupplicant
<1>4. /\ NamedIsRunning'
      /\ \A i \in AllInterfaces : d # <<"ifplugd", i>> => Watching(i)' = Watching(i)
  BY <1>3, KillFollows
<1>5. OthersSame
  BY <1>2, <1>4 DEF OthersSame, SameWatchers
<1>6. HelperAt("kill ifplugd")
  BY HelperGoesOn DEF KillWpaSupplicant
<1>7. "kill ifplugd" \in KillSteps
  BY DEF KillSteps
<1>8. PICK h : h = helper.interface
  OBVIOUS
<1>9. QED
  BY <1>1, <1>4, <1>5, <1>6, <1>7, <1>8, GoesOnFollowInv

\* The kill of an ifplugd leaves nobody to watch the interface.
LEMMA KillIfplugdFollowInv ==
  ASSUME FollowBase, KillIfplugd, UNCHANGED rc
  PROVE  FollowInv'
<1>1. /\ helper.step = "kill ifplugd" /\ helper.step # "idle"
      /\ helper.action = "remove" /\ spoiled' = spoiled /\ UNCHANGED plugVars
      /\ helper' = Idle
  BY DEF KillIfplugd, helperRest, kernelVars, plugVars, FollowBase, FollowInv,
         TellsInv, AddSteps, GoOn
<1>2. PICK h : h = helper.interface
  OBVIOUS
<1>3. h \in AllInterfaces
  BY <1>1, <1>2 DEF FollowBase, PlugInv
<1>4. PICK d : d = <<"ifplugd", h>>
  OBVIOUS
<1>5. Kill(d) /\ d \in Daemons
  BY <1>2, <1>3, <1>4 DEF KillIfplugd, Daemons
<1>6. /\ NamedIsRunning'
      /\ \A i \in AllInterfaces : d # <<"ifplugd", i>> => Watching(i)' = Watching(i)
  BY <1>5, KillFollows
<1>7. OthersSame
  BY <1>2, <1>4, <1>6 DEF OthersSame, SameWatchers
<1>8. ASSUME spoiled = {} PROVE Watching(h)' = {}
  <2>1. SUFFICES ASSUME NEW p \in Pids, procs'[p].daemon = d,
                        procs'[p].state \in {"starting", "running"}
                 PROVE  FALSE
    BY <1>4 DEF Watching
  <2>2. procs'[p] = procs[p]
    BY <1>5, <2>1 DEF Kill
  <2>3. ~Ifplugd(p, h, "starting")
    BY <1>1, <1>3, NoneStarts DEF FollowBase
  <2>4. Ifplugd(p, h, "running")
    BY <1>4, <2>1, <2>2, <2>3 DEF Ifplugd
  <2>5. pidfile[d] = p
    BY <1>3, <1>4, <1>8, <2>4 DEF FollowBase, WatchInv, RunningIsNamed
  <2>6. pidfile[d] # NoPid
    BY <2>5, PidsAssumption
  <2>7. procs'[p] = [daemon |-> d, state |-> "ending"]
    BY <1>5, <2>1, <2>2, <2>5, <2>6 DEF Kill
  <2>8. QED
    BY <2>1, <2>7
<1>9. QED
  BY <1>1, <1>2, <1>6, <1>7, <1>8, EndsFollowInv

----------------------------------------------------------------------------
\* What a daemon does by itself changes who watches only if one fails to start.
LEMMA DaemonsFollow ==
  ASSUME FollowBase, UNCHANGED plugVars, helper' = helper, NamedIsRunning',
         \A i : Watching(i)' \subseteq Watching(i),
         spoiled' = {} => spoiled = {} /\ \A i : Watching(i)' = Watching(i)
  PROVE  FollowInv'
<1>1. UNCHANGED <<rc, listening, platform, present, uevents>>
  BY DEF plugVars
<1>2. PowerInv'
  BY <1>1 DEF FollowBase, FollowInv, PowerInv
<1>3. TellsInv'
  BY <1>1 DEF FollowBase, FollowInv, TellsInv
<1>4. AddedIsWatched'
  <2>1. PICK h : h = helper.interface
    OBVIOUS
  <2>2. spoiled' = {} /\ helper.step \in AddSteps \ {"ifplugd"} => Watching(h)' # {}
    BY <2>1 DEF FollowBase, FollowInv, AddedIsWatched
  <2>3. QED
    BY <2>1, <2>2 DEF AddedIsWatched, Watching
<1>5. WatchedWhenHandled'
  <2>1. \A i \in AllInterfaces : Settled(i)' => Settled(i)
    BY <1>1 DEF Settled
  <2>2. QED
    BY <1>1, <2>1 DEF FollowBase, FollowInv, WatchedWhenHandled
<1>6. QED
  BY <1>2, <1>3, <1>4, <1>5 DEF FollowInv

LEMMA WritePidFileFollowInv ==
  ASSUME FollowBase, NEW p \in Pids, WritePidFile(p), UNCHANGED rc
  PROVE  FollowInv'
<1>1. UNCHANGED plugVars /\ helper' = helper /\ spoiled' = spoiled /\ procs[p].state = "starting"
  BY DEF WritePidFile, daemonRest, kernelVars, plugVars
<1>2. PICK d : d = procs[p].daemon
  OBVIOUS
<1>3. \A q \in Pids : procs'[q] = IF q = p THEN [daemon |-> d, state |-> "running"] ELSE procs[q]
  BY <1>2 DEF WritePidFile, FollowBase, WatchInv, Shapes
<1>4. \A e \in Daemons : pidfile'[e] = IF e = d THEN p ELSE pidfile[e]
  BY <1>2 DEF WritePidFile, FollowBase, WatchInv, Shapes
<1>5. NamedIsRunning'
  <2>1. SUFFICES ASSUME NEW e \in Daemons, pidfile'[e] # NoPid
                 PROVE  procs'[pidfile'[e]].daemon = e /\ procs'[pidfile'[e]].state = "running"
    BY DEF NamedIsRunning
  <2>2. CASE e = d
    BY <1>3, <1>4, <2>2
  <2>3. CASE e # d
    <3>1. pidfile'[e] = pidfile[e]
      BY <1>4, <2>3
    <3>2. pidfile[e] \in Pids /\ procs[pidfile[e]].daemon = e /\ procs[pidfile[e]].state = "running"
      BY <2>1, <3>1 DEF FollowBase, PlugInv, FollowInv, NamedIsRunning
    <3>3. pidfile[e] # p
      BY <1>1, <3>2
    <3>4. QED
      BY <1>3, <3>1, <3>2, <3>3
  <2>4. QED
    BY <2>2, <2>3
<1>6. \A i : Watching(i)' = Watching(i)
  <2>1. SUFFICES ASSUME NEW i PROVE Watching(i)' = Watching(i)
    OBVIOUS
  <2>2. ASSUME NEW q \in Pids PROVE q \in Watching(i)' <=> q \in Watching(i)
    <3>1. CASE q = p
      <4>1. procs'[q].daemon = procs[q].daemon /\ procs'[q].state = "running"
        BY <1>2, <1>3, <3>1
      <4>2. QED
        BY <1>1, <3>1, <4>1 DEF Watching
    <3>2. CASE q # p
      <4>1. procs'[q] = procs[q]
        BY <1>3, <3>2
      <4>2. QED
        BY <4>1 DEF Watching
    <3>3. QED
      BY <3>1, <3>2
  <2>3. Watching(i)' \subseteq Pids /\ Watching(i) \subseteq Pids
    BY DEF Watching
  <2>4. QED
    BY <2>2, <2>3
<1>7. QED
  BY <1>1, <1>5, <1>6, DaemonsFollow

LEMMA GoneFollowInv ==
  ASSUME FollowBase, NEW p \in Pids, FailToStart(p) \/ EndDaemon(p), UNCHANGED rc
  PROVE  FollowInv'
<1>1. UNCHANGED plugVars /\ helper' = helper /\ procs[p].state \in {"starting", "ending"}
  BY DEF FailToStart, EndDaemon, daemonRest, kernelVars, plugVars
<1>2. \A q \in Pids : procs'[q] = IF q = p THEN Gone ELSE procs[q]
  BY DEF FailToStart, EndDaemon, FollowBase, WatchInv, Shapes
<1>3. \A e \in Daemons : pidfile'[e] = pidfile[e] \/ pidfile'[e] = NoPid
  BY DEF FailToStart, EndDaemon, FollowBase, WatchInv, Shapes
<1>4. NamedIsRunning'
  <2>1. SUFFICES ASSUME NEW e \in Daemons, pidfile'[e] # NoPid
                 PROVE  procs'[pidfile'[e]].daemon = e /\ procs'[pidfile'[e]].state = "running"
    BY DEF NamedIsRunning
  <2>2. pidfile'[e] = pidfile[e]
    BY <1>3, <2>1
  <2>3. pidfile[e] \in Pids /\ procs[pidfile[e]].daemon = e /\ procs[pidfile[e]].state = "running"
    BY <2>1, <2>2 DEF FollowBase, PlugInv, FollowInv, NamedIsRunning
  <2>4. pidfile[e] # p
    BY <1>1, <2>3
  <2>5. QED
    BY <1>2, <2>2, <2>3, <2>4
<1>5. \A i : Watching(i)' \subseteq Watching(i)
  <2>1. SUFFICES ASSUME NEW i, NEW q \in Watching(i)' PROVE q \in Watching(i)
    OBVIOUS
  <2>2. q \in Pids /\ procs'[q].state # "gone"
    BY DEF Watching
  <2>3. procs'[q] = procs[q]
    BY <1>2, <2>2 DEF Gone
  <2>4. QED
    BY <2>3 DEF Watching
<1>6. spoiled' = {} => spoiled = {} /\ \A i : Watching(i)' = Watching(i)
  <2>1. CASE FailToStart(p)
    BY <2>1 DEF FailToStart
  <2>2. CASE EndDaemon(p)
    <3>1. spoiled' = {} => spoiled = {}
      BY <2>2 DEF EndDaemon
    <3>2. procs[p].state = "ending"
      BY <2>2 DEF EndDaemon
    <3>3. ASSUME NEW i PROVE Watching(i) \subseteq Watching(i)'
      <4>1. SUFFICES ASSUME NEW q \in Watching(i) PROVE q \in Watching(i)'
        OBVIOUS
      <4>2. q \in Pids /\ q # p
        BY <3>2 DEF Watching
      <4>3. procs'[q] = procs[q]
        BY <1>2, <4>2
      <4>4. QED
        BY <4>3 DEF Watching
    <3>4. QED
      BY <1>5, <3>1, <3>3
  <2>3. QED
    BY <2>1, <2>2
<1>7. QED
  BY <1>1, <1>4, <1>5, <1>6, DaemonsFollow

----------------------------------------------------------------------------
\* rc's steps but the prodding, nupkg, sysconfig and a device put in.
LEMMA RestFollowInv ==
  ASSUME FollowInv,
         \/ Rc /\ ~Prod
         \/ Nupkg
         \/ Sysconfig
         \/ \E i \in AllInterfaces : HotPlug(Plug(i))
         \/ UNCHANGED vars
  PROVE  FollowInv'
<1>1. UNCHANGED watchVars
  <2>1. CASE Rc \/ Nupkg \/ Sysconfig
    BY <2>1, RcWatchInv
  <2>2. CASE ~(Rc \/ Nupkg \/ Sysconfig)
    BY <2>2 DEF HotPlug, Plug, vars, hotplugVars, watchVars
  <2>3. QED
    BY <2>1, <2>2
<1>2. CASE Rc /\ ~Prod
  <2>1. UNCHANGED <<present, uevents>>
    BY <1>2 DEF Rc, StartMdev, WritePlatform, MountBoot, InstallExtension, LoadModule,
                WaitForNetIF, Startup, hotplugVars, kernelVars
  <2>2. RcGoesOn
    <3>1. /\ listening <=> rc # "off"
          /\ platform <=> rc \notin {"off", "platform"}
      BY DEF FollowInv, PowerInv
    <3>2. CASE StartMdev \/ WritePlatform
      BY <3>1, <3>2 DEF StartMdev, WritePlatform, Step, RcGoesOn
    <3>3. CASE ~(StartMdev \/ WritePlatform)
      <4>1. /\ listening' = listening /\ platform' = platform
            /\ rc \notin {"off", "platform"} /\ rc' \notin {"off", "platform"}
            /\ rc' \in {"startup", "up"} => rc \in {"startup", "up"}
        BY <1>2, <3>3 DEF Rc, MountBoot, InstallExtension, LoadModule, WaitForNetIF,
                          Startup, hotplugVars, Step, RcAt
      <4>2. QED
        BY <3>1, <4>1 DEF RcGoesOn
    <3>4. QED
      BY <3>2, <3>3
  <2>3. QED
    BY <1>1, <2>1, <2>2, StaysFollowInv
<1>3. CASE Nupkg \/ Sysconfig \/ (\E i \in AllInterfaces : HotPlug(Plug(i))) \/ UNCHANGED vars
  <2>1. UNCHANGED plugVars
    BY <1>3 DEF Nupkg, Sysconfig, StartDownload, EndDownload, MoveDownload, UmountBoot,
                updateRest, HotPlug, Plug, vars, hotplugVars, kernelVars, rcVars, plugVars
  <2>2. UNCHANGED <<rc, listening, platform, present, uevents>>
    BY <2>1 DEF plugVars
  <2>3. RcGoesOn
    BY <2>2 DEF RcGoesOn, FollowInv, PowerInv
  <2>4. QED
    BY <1>1, <2>2, <2>3, StaysFollowInv
<1>4. QED
  BY <1>2, <1>3

LEMMA NextFollowInv ==
  ASSUME FollowBase, [Next]_vars
  PROVE  FollowInv'
<1>1. CASE Prod
  BY <1>1, ProdFollowInv
<1>2. CASE (Rc /\ ~Prod) \/ Nupkg \/ Sysconfig \/ UNCHANGED vars
  BY <1>2, RestFollowInv DEF FollowBase
<1>3. CASE HotPlug(Mdev)
  <2>1. Mdev /\ UNCHANGED rc
    BY <1>3 DEF HotPlug, rcVars
  <2>2. QED
    BY <2>1, TakeEventFollowInv, StartIfplugdFollowInv, StartWpaSupplicantFollowInv,
       AwaitPidFileFollowInv, KillWpaSupplicantFollowInv, KillIfplugdFollowInv DEF Mdev
<1>4. ASSUME NEW p \in Pids, HotPlug(Daemon(p)) PROVE FollowInv'
  <2>1. Daemon(p) /\ UNCHANGED rc
    BY <1>4 DEF HotPlug, rcVars
  <2>2. QED
    BY <2>1, WritePidFileFollowInv, GoneFollowInv DEF Daemon
<1>5. ASSUME NEW i \in AllInterfaces, HotPlug(KernelAdds(i) \/ Unplug(i) \/ Plug(i))
      PROVE  FollowInv'
  <2>1. HotPlug(KernelAdds(i)) \/ HotPlug(Unplug(i)) \/ HotPlug(Plug(i))
    BY <1>5 DEF HotPlug
  <2>2. QED
    BY <2>1, KernelFollowInv, RestFollowInv DEF FollowBase
<1>6. CASE PowerCut
  <2>1. (RamInit /\ rc = "off")'
    BY <1>6 DEF PowerCut, RamInit
  <2>2. QED
    BY <2>1, RamInitFollowInv, PTL
<1>7. QED
  BY <1>1, <1>2, <1>3, <1>4, <1>5, <1>6 DEF Next

\* mdev-helper-net, mdev and rc: whatever order the kernel's events, rc's prodding
\* and the doings of the daemons come in, an interface has one ifplugd at most; and
\* when its events are all handled, it is watched if it is there, once rc has prodded
\* it, and is not if it is gone.
THEOREM OneWatcherAlways == Spec => []OneWatcher
<1>1. Init => FollowBase
  BY RamInitWatchInv, RamInitFollowInv, InitPlugInv DEF Init, FollowBase
<1>2. FollowBase /\ [Next]_vars => FollowBase'
  BY NextKeepsWatchInv, NextPlugInv, NextFollowInv DEF FollowBase
<1>3. FollowBase => OneWatcher
  BY WatchInvMeansOne DEF FollowBase, FollowInv, OneWatcher
<1>4. QED
  BY <1>1, <1>2, <1>3, PTL DEF Spec
=============================================================================
