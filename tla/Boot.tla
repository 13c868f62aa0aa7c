-------------------------------- MODULE Boot --------------------------------
(***************************************************************************)
(* A target from power on until it is up, and again after a power cut: rc  *)
(* starts mdev, unpacks the card's tarballs, installs its extensions, one  *)
(* nupkg after the other, loads the driver of the wireless interface and   *)
(* waits for it, and prods every interface.  Meanwhile mdev-helper-net     *)
(* handles what is plugged and unplugged.  Once up, sysconfig may download *)
(* a new version of an extension onto the card, where the power may cut it *)
(* short.  The installed files are in RAM; only the card survives.         *)
(***************************************************************************)
EXTENDS Nupkg, HotPlug

CONSTANTS
  Order,        \* every file name, in the order of /boot/extensions/*
  Cards,        \* what the card may hold at first
  NewVersions,  \* images that sysconfig may download
  Cuts(_),      \* an image |-> the image cut short, in a few places
  Tarball,      \* TRUE: a tarball holds /etc/wpa_supplicant.conf
  MaxUpgrades   \* bound on downloads

VARIABLES
  rc,        \* the step rc is at
  at,        \* the place in Order rc has come to
  autoexec,  \* files it has put in /usr/local/autoexec
  flash,     \* the extensions as the flash card holds them
  missing,   \* devices that never appear
  update,    \* sysconfig's download: the file and how far it is
  upgrades,
  mishaps    \* "power": power cut in an upgrade; "page": a server's error
             \* page taken for the extension

rcVars == <<rc, at, autoexec>>
diskVars == <<card, flash>>
updateVars == <<update, upgrades, mishaps>>
vars == <<faults, nupkgVars, hotplugVars, rcVars, diskVars, missing, updateVars>>

New(name) == Append(name, ".new")
Names == Packages \cup {New(f) : f \in Packages}

NoUpdate == [file |-> None, step |-> "idle"]

\* What a server sends with an error status: no part of an archive.
ErrorPage == [entries |-> <<>>, comment |-> 0, prefix |-> - EndRecord,
              size |-> 60, zip64 |-> FALSE, damage |-> NoDamage]

\* What a download leaves under its name before the card has all of it.
Downloads ==
  {ErrorPage} \cup NewVersions \cup {[z EXCEPT !.size = 0] : z \in NewVersions}

\* The server has whole packages only, and the card holds no download at first.
ASSUME CardsAssumption ==
  /\ None \notin Archives
  /\ Order \in Seq(Names)
  /\ \A f \in Packages : f \in Seq(STRING) /\ New(f) \notin Packages
  /\ \A z \in NewVersions : z \in Archives /\ Complete(z)
  /\ \A z \in Downloads : Cuts(z) \subseteq Archives
  /\ \A c \in Cards : /\ c.faults \in Nat
                       /\ \A f \in DOMAIN c.card : f \in Packages /\ c.card[f] \in Archives

OnCard(c) == [n \in Names |-> IF n \in DOMAIN c THEN c[n] ELSE None]

Init ==
  /\ \E c \in Cards, m \in SUBSET ({"disk"} \cup Modular) :
       /\ card = OnCard(c.card) /\ flash = card
       /\ missing = m
       /\ faults = c.faults + Cardinality(m)
  /\ faults <= MaxFaults
  /\ plugged = AllInterfaces \ missing
  /\ NupkgInit /\ RamInit
  /\ rc = "off" /\ at = 1 /\ autoexec = {}
  /\ update = NoUpdate /\ upgrades = 0 /\ mishaps = {}
-----------------------------------------------------------------------------
(* rc. *)

RcAt(step) == rc = step

Step(from, to) == rc = from /\ rc' = to

StartMdev ==
  /\ Step("off", "platform")
  /\ listening' = TRUE
  /\ UNCHANGED <<faults, nupkgVars, kernelVars, uevents, platform, wpaConf, helper,
                 procs, pidfile, spoiled, at, autoexec, diskVars, missing,
                 updateVars>>

WritePlatform ==
  /\ Step("platform", "disk")
  /\ platform' = TRUE
  /\ UNCHANGED <<faults, nupkgVars, kernelVars, uevents, listening, wpaConf, helper,
                 procs, pidfile, spoiled, at, autoexec, diskVars, missing,
                 updateVars>>

\* WaitForFile -b, then the mount, without which rc goes on, then the tarballs
MountBoot ==
  /\ "disk" \notin missing
  /\ \/ /\ Step("disk", "extensions")
        /\ wpaConf' = Tarball
        /\ UNCHANGED faults
     \/ /\ Step("disk", "module")
        /\ Fault
        /\ UNCHANGED wpaConf
  /\ UNCHANGED <<nupkgVars, kernelVars, uevents, listening, platform, helper, procs,
                 pidfile, spoiled, at, autoexec, diskVars, missing, updateVars>>

IsNupkg(name) == name[Len(name)] \in Endings

\* The loop over /boot/extensions/*: nupkg, or a copy in /usr/local/autoexec
InstallExtension ==
  /\ RcAt("extensions") /\ job = NoJob /\ at <= Len(Order)
  /\ at' = at + 1
  /\ IF card[Order[at]] # None /\ IsNupkg(Order[at])
     THEN NupkgStart(Order[at]) /\ UNCHANGED autoexec
     ELSE /\ autoexec' = IF card[Order[at]] = None THEN autoexec
                         ELSE autoexec \cup {Order[at]}
          /\ UNCHANGED <<nupkgVars, faults>>
  /\ UNCHANGED <<hotplugVars, rc, diskVars, missing, updateVars>>

LoadModule ==
  /\ \/ Step("extensions", "wireless") /\ job = NoJob /\ at > Len(Order)
     \/ Step("module", "wireless")
  /\ drivers' = drivers \cup Modular
  /\ UNCHANGED <<faults, nupkgVars, plugged, present, uevents, listening, platform,
                 wpaConf, helper, procs, pidfile, spoiled, at, autoexec,
                 diskVars, missing, updateVars>>

\* WaitForNetIF wlan0
WaitForNetIF ==
  /\ Step("wireless", "prod")
  /\ Modular \subseteq present
  /\ UNCHANGED <<faults, nupkgVars, hotplugVars, at, autoexec, diskVars, missing,
                 updateVars>>

\* Mutant: the interfaces are not prodded.
ProdNone == UNCHANGED uevents

\* echo add >uevent, for each interface
ProdInterfaces ==
  LET sent[k \in 0..Len(Interfaces)] ==
        IF k = 0 THEN uevents
        ELSE IF Interfaces[k] \in present
             THEN Append(sent[k - 1], <<"add", Interfaces[k]>>) ELSE sent[k - 1]
  IN  uevents' = sent[Len(Interfaces)]

Prod ==
  /\ Step("prod", "startup")
  /\ ProdInterfaces
  /\ UNCHANGED <<faults, nupkgVars, kernelVars, listening, platform, wpaConf, helper,
                 procs, pidfile, spoiled, at, autoexec, diskVars, missing,
                 updateVars>>

\* The startup scripts and autoexec run, and autoexec is removed.
Startup ==
  /\ Step("startup", "up")
  /\ autoexec' = {}
  /\ UNCHANGED <<faults, nupkgVars, hotplugVars, at, diskVars, missing, updateVars>>

Rc ==
  \/ StartMdev
  \/ WritePlatform
  \/ MountBoot
  \/ InstallExtension
  \/ LoadModule
  \/ WaitForNetIF
  \/ Prod
  \/ Startup

Nupkg ==
  NupkgStep /\ UNCHANGED <<hotplugVars, rcVars, diskVars, missing, updateVars>>

HotPlug(A) == A /\ UNCHANGED <<nupkgVars, rcVars, diskVars, missing, updateVars>>
-----------------------------------------------------------------------------
(* sysconfig's update of an extension, and the power. *)

updateRest == <<nupkgVars, hotplugVars, rcVars, missing>>

\* How much of the file is there by the time the power fails, Left tells.
StartDownload(f) ==
  /\ rc = "up" /\ update = NoUpdate /\ upgrades < MaxUpgrades
  /\ upgrades' = upgrades + 1
  /\ update' = [file |-> f, step |-> "curl"]
  /\ \E z \in NewVersions : card' = [card EXCEPT ![New(f)] = [z EXCEPT !.size = 0]]
  /\ UNCHANGED <<updateRest, flash, mishaps, faults>>

\* Mutant: what a failed download leaves is moved over the extension as well.
EndDownloadAnyway ==
  LET new == New(update.file)
  IN  /\ update.step = "curl"
      /\ \/ \E z \in NewVersions : card' = [card EXCEPT ![new] = z]
               /\ UNCHANGED faults
         \/ Fault /\ UNCHANGED card
      /\ update' = [update EXCEPT !.step = "mv"]
      /\ UNCHANGED <<updateRest, flash, upgrades, mishaps>>

\* Mutant: what a failed download leaves stays on the card.
EndDownloadLeaves ==
  LET new == New(update.file)
  IN  /\ update.step = "curl"
      /\ \/ /\ \E z \in NewVersions : card' = [card EXCEPT ![new] = z]
            /\ update' = [update EXCEPT !.step = "mv"]
            /\ UNCHANGED faults
         \/ /\ Fault
            /\ update' = [update EXCEPT !.step = "umount"]
            /\ UNCHANGED card
      /\ UNCHANGED <<updateRest, flash, upgrades, mishaps>>

\* curl ends well; or it fails and the download is removed; or it ends well
\* with the page of an error, as it is not asked to fail on one (-f).
EndDownload ==
  LET new == New(update.file)
  IN  /\ update.step = "curl"
      /\ \/ /\ \E z \in NewVersions : card' = [card EXCEPT ![new] = z]
            /\ update' = [update EXCEPT !.step = "mv"]
            /\ UNCHANGED <<faults, mishaps>>
         \/ /\ Fault
            /\ card' = [card EXCEPT ![new] = None]
            /\ update' = [update EXCEPT !.step = "umount"]
            /\ UNCHANGED mishaps
         \/ /\ Fault
            /\ card' = [card EXCEPT ![new] = ErrorPage]
            /\ update' = [update EXCEPT !.step = "mv"]
            /\ mishaps' = mishaps \cup {"page"}
      /\ UNCHANGED <<updateRest, flash, upgrades>>

MoveDownload ==
  /\ update.step = "mv"
  /\ card' = [card EXCEPT ![update.file] = card[New(update.file)],
                          ![New(update.file)] = None]
  /\ update' = [update EXCEPT !.step = "umount"]
  /\ UNCHANGED <<updateRest, flash, upgrades, mishaps, faults>>

\* Only now is everything sure to be on the card.
UmountBoot ==
  /\ update.step = "umount"
  /\ flash' = card
  /\ update' = NoUpdate
  /\ UNCHANGED <<updateRest, card, upgrades, mishaps, faults>>

\* What a power cut leaves of a file that is not yet on the card: what was
\* there before, what was written, or the beginning of it.
Left(n) ==
  IF card[n] = flash[n] THEN {card[n]}
  ELSE {flash[n], card[n]} \cup (IF card[n] = None THEN {} ELSE Cuts(card[n]))

PowerCut ==
  /\ rc # "off"
  /\ Fault
  /\ rc' = "off" /\ at' = 1 /\ autoexec' = {}
  /\ files' = <<>> /\ dirs' = {} /\ job' = NoJob
  /\ reported' = {} /\ abandoned' = {}
  /\ drivers' = AllInterfaces \ Modular /\ present' = {}
  /\ uevents' = <<>> /\ listening' = FALSE /\ platform' = FALSE
  /\ wpaConf' = FALSE /\ helper' = Idle
  /\ procs' = [p \in Pids |-> Gone] /\ pidfile' = [d \in Daemons |-> NoPid]
  /\ spoiled' = {}
  /\ \E left \in [{n \in Names : card[n] # flash[n]} -> UNION {Left(n) : n \in Names}] :
       /\ \A n \in DOMAIN left : left[n] \in Left(n)
       /\ card' = [n \in Names |-> IF n \in DOMAIN left THEN left[n] ELSE flash[n]]
       /\ flash' = card'
  /\ mishaps' = IF card = flash THEN mishaps ELSE mishaps \cup {"power"}
  /\ update' = NoUpdate
  /\ UNCHANGED <<plugged, missing, upgrades>>

Sysconfig ==
  \/ \E f \in Packages : StartDownload(f)
  \/ EndDownload
  \/ MoveDownload
  \/ UmountBoot

Next ==
  \/ Rc
  \/ Nupkg
  \/ HotPlug(Mdev)
  \/ \E p \in Pids : HotPlug(Daemon(p))
  \/ \E i \in AllInterfaces : HotPlug(KernelAdds(i) \/ Unplug(i) \/ Plug(i))
  \/ Sysconfig
  \/ PowerCut

Spec == Init /\ [][Next]_vars

FairSpec ==
  /\ Spec
  /\ WF_vars(Rc) /\ WF_vars(Nupkg) /\ WF_vars(HotPlug(Mdev))
  /\ \A p \in Pids : WF_vars(HotPlug(DaemonGoesOn(p)))
  /\ \A i \in AllInterfaces : WF_vars(HotPlug(KernelAdds(i)))
-----------------------------------------------------------------------------
(***************************************************************************)
(* Properties.                                                             *)
(***************************************************************************)

TypeOK ==
  /\ faults \in 0..MaxFaults
  /\ \A p \in DOMAIN files : Len(p) = 3 => p[2] \in dirs
  /\ dirs \subseteq {ExtractAppName(f) : f \in Packages}
  /\ job.step # "idle" => rc = "extensions"
  /\ helper.step # "idle" => helper.interface \in AllInterfaces
  /\ \A d \in Daemons : pidfile[d] \in Pids \cup {NoPid}
  /\ at \in 1..(Len(Order) + 1)
  /\ \A n \in Names \ Packages : card[n] # None => update.step # "idle" \/ mishaps # {}

\* However a package comes to be cut short, on the way to the card or on it,
\* or to be something else altogether: nothing of it is ever installed.
NoPartialPackage ==
  \A p \in DOMAIN files : Complete(files[p].of)

\* The entries of a package that end up under one path: the last one stays.
Wanted(z) ==
  {k \in DOMAIN z.entries : z.entries[k].dir \in {"lib/net", "rc.d"} \/ z.entries[k].so}

PathOf(app, e) ==
  IF e.so THEN LibPath(e.base)
  ELSE IF e.dir = "rc.d" THEN ScriptPath(e.base) ELSE AppPath(app, e.base)

\* Read short without a word: the inflater or the card gives up in mid-file, or
\* the file was packed in a way this build cannot unpack.
Unseen(z, k) ==
  \/ z.damage.part = "data" /\ z.damage.entry = k
     /\ z.damage.as \in {"unreadable", "inflate error", "end of stream"}
  \/ Raw(z.entries[k])

\* What became of entry k of a package z installed as f: it is there as it was
\* packed, or an error message has named it, or it was read short without a word.
\* The exceptions: a later entry has the same path, or another application has.
Accounted(f, z, k) ==
  LET app == ExtractAppName(f)
      p == PathOf(app, z.entries[k])
  IN  \/ <<f, k>> \in reported
      \/ Unseen(z, k)
      \/ /\ p \in DOMAIN files
         /\ \/ files[p].from = f /\ (files[p].good \/ files[p].entry > k)
            \/ ExtractAppName(files[p].from) # app

\* An application has a helper script only if all that its package has for it is
\* accounted for, and its directory holds nothing of any other version.  The
\* exception: a later version whose installation stopped half-way, after it had
\* cleared the directory.
HelperMeansComplete ==
  job = NoJob => \A f \in Packages :
    LET app == ExtractAppName(f)
        h == HelperPath(app)
    IN  h \in DOMAIN files /\ files[h].from = f /\ app \notin abandoned =>
          /\ \A p \in Below(app) : files[p].from = f
          /\ \A k \in Wanted(files[h].of) : Accounted(f, files[h].of, k)

\* An extension that was whole stays whole on the card, whatever becomes of the
\* downloads, unless the power fails in one or a server answers with a page.
FailedDownloadKeepsExtension ==
  [][\A f \in Packages : mishaps' = {} /\ flash[f] # None /\ Complete(flash[f])
       => flash'[f] # None /\ Complete(flash'[f])]_vars

\* An interface never has two ifplugds, of which either would run the scripts,
\* unless one outlives its interface until after it has come back.
AtMostOneWatcher ==
  "usurped" \notin spoiled =>
    \A i \in AllInterfaces : Cardinality(Watching(i)) <= 1

\* The helper is through with every event of interface i.
Settled(i) ==
  /\ helper.step = "idle" \/ helper.interface # i
  /\ \A k \in DOMAIN uevents : uevents[k][2] # i

\* No interface is left without its ifplugd, and no ifplugd without its interface,
\* whatever order the events, the prodding and the daemons' own doings come in:
\* when the helper is through with the events of an interface, the interface is
\* watched if it is there and rc has prodded it, and is not if it is gone.  The
\* exceptions are those of WatchersFollowInterfaces.
WatchedWhenHandled ==
  spoiled = {} =>
    \A i \in AllInterfaces : Settled(i) =>
      /\ i \notin present => Watching(i) = {}
      /\ i \in present /\ rc \in {"startup", "up"} => Watching(i) # {}

\* One ifplugd, then, for an interface that is there, and none for one that is gone.
OneWatcher == AtMostOneWatcher /\ WatchedWhenHandled

\* Once rc is through, an interface that is there is watched, whenever it came,
\* and one that is gone is not, unless a daemon died before it wrote its pid file
\* or removed the one of its successor.
WatchersFollowInterfaces ==
  \A i \in AllInterfaces :
    /\ <>[](rc = "up" /\ spoiled = {} /\ i \in present) => <>[](Watching(i) # {})
    /\ <>[](rc = "up" /\ spoiled = {} /\ i \notin present) => <>[](Watching(i) = {})
=============================================================================
