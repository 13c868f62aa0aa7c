----------------------------- MODULE ConfigSave -----------------------------
(***************************************************************************)
(* How a MuntsOS target keeps its configuration.  The root file system is  *)
(* in RAM; rc unpacks the tarballs under /boot/tarballs at every boot, and *)
(* sysconfig packs the files of /etc/changes.manifest into a tarball named *)
(* after the host, on a flash card that is mounted only while it does so.  *)
(* rc itself runs "sysconfig --save" at every boot; users run sysconfig    *)
(* from any number of logins, which may end it at any point; a DHCP lease  *)
(* may rename the host in between; and the power may go at any time.       *)
(*                                                                         *)
(* Two files stand for the configuration: /etc/hostname, and one version   *)
(* number for all the others.  A host name is its place in the order in    *)
(* which the shell expands /boot/tarballs/*gz.                             *)
(***************************************************************************)
EXTENDS Naturals

CONSTANTS
  Logins,       \* logins that may run sysconfig
  Names,        \* host names
  DefaultName,  \* the name rc makes up without /etc/hostname
  LeaseNames,   \* names a DHCP server gives the host
  None,         \* no file
  SerialGetty,  \* TRUE: there is a login before rc runs sysconfig --save
  MaxVersion,   \* bound on changes of the configuration
  MaxLeases,    \* bound on leases that rename the host
  MaxCuts,      \* bound on power cuts
  MaxSaves      \* bound on uses of sysconfig

ASSUME NameAssumption ==
  /\ Names \subseteq Nat
  /\ DefaultName \in Names
  /\ LeaseNames \subseteq Names
  /\ None \notin Nat

ASSUME LoginAssumption == "rc" \notin Logins

ASSUME BoundAssumption ==
  /\ SerialGetty \in BOOLEAN
  /\ MaxVersion \in Nat
  /\ MaxLeases \in Nat
  /\ MaxCuts \in Nat
  /\ MaxSaves \in Nat

VARIABLES
  power,     \* "off", "restored" (rc has unpacked), "booted" or "up"
  host,      \* the kernel's host name
  hostfile,  \* /etc/hostname
  conf,      \* version of the other files in RAM
  mounted,   \* is /boot mounted?
  boot,      \* the tarballs as the file system shows them
  card,      \* the tarballs as the flash card holds them
  dirty,     \* tarballs with changes that are not yet on the card
  abandoned, \* an interrupted sysconfig has left /boot to the next umount
  pc,        \* where each sysconfig is
  old,       \* oldhostname of each sysconfig
  open,      \* the tarball each tar is writing
  packed,    \* the files as each tar found them
  saved,     \* the files as the tar of the last sysconfig to end found them
  mishaps,   \* what has come in the way of a sysconfig so far
  version, leases, cuts, saves

ram == <<host, hostfile, conf>>
disk == <<mounted, boot, card, dirty, abandoned>>
bounds == <<version, leases, cuts, saves>>
vars == <<power, ram, disk, pc, old, open, packed, saved, mishaps, bounds>>

Sessions == Logins \cup {"rc"}
-----------------------------------------------------------------------------
(***************************************************************************)
(* Tarballs.                                                               *)
(***************************************************************************)
Factory == 0   \* the version of the files in the kernel's own root file system
WithKey == 1   \* the same with an SSH host key

Archives == [host : Names \cup {None}, conf : Nat \cup {None}]

Archive(h, c) == [host |-> h, conf |-> c]

ASSUME ArchiveAssumption == None \notin Archives

\* tar packs the manifest in sorted order, so what a torn tarball still holds
\* is nothing, or /etc/hostname without the rest, or everything.
Torn(a) == {Archive(None, None), Archive(a.host, None), a}

\* Mutant: a torn tarball is taken to hold the file it has lost.
HoldingTorn(tarballs, file) == {n \in Names : tarballs[n] # None}

\* The tarballs that hold a file, and the file after all have been unpacked:
\* the last tarball in the shell's order wins.
Holding(tarballs, file) ==
  {n \in Names : tarballs[n] # None /\ tarballs[n][file] # None}

Last(H) == {n \in H : \A m \in H : m <= n}

Unpacked(tarballs, file, factory) ==
  LET L == Last(Holding(tarballs, file))
  IN  IF L = {} THEN factory ELSE tarballs[CHOOSE n \in L : TRUE][file]

Init ==
  /\ power = "off"
  /\ host = DefaultName /\ hostfile = None /\ conf = Factory
  /\ mounted = FALSE
  /\ boot = [n \in Names |-> None] /\ card = boot /\ dirty = {}
  /\ abandoned = FALSE
  /\ pc = [s \in Sessions |-> "idle"]
  /\ old = [s \in Sessions |-> DefaultName]
  /\ open = [s \in Sessions |-> None]
  /\ packed = [s \in Sessions |-> Archive(None, Factory)]
  /\ saved = Archive(None, Factory)
  /\ mishaps = {}
  /\ version = WithKey /\ leases = 0 /\ cuts = 0 /\ saves = 0
-----------------------------------------------------------------------------
(***************************************************************************)
(* rc: unpack the tarballs; later make an SSH host key if there is none,   *)
(* and save.  The shell groups "test -f key || ssh-keygen && sysconfig"    *)
(* from the left, so it saves whether or not it made a key.                *)
(***************************************************************************)
Restore ==
  /\ power = "off"
  /\ power' = "restored"
  /\ hostfile' = Unpacked(boot, "host", None)
  /\ conf' = Unpacked(boot, "conf", Factory)
  /\ host' = IF hostfile' = None THEN DefaultName ELSE hostfile'
  /\ UNCHANGED <<disk, pc, old, open, packed, saved, mishaps, bounds>>

\* The key is one of the files that conf stands for.
SshKey ==
  /\ power = "restored"
  /\ power' = "booted"
  /\ conf' = IF conf = Factory THEN WithKey ELSE conf
  /\ UNCHANGED <<host, hostfile, disk, pc, old, open, packed, saved, mishaps, bounds>>

Active(s) == pc[s] # "idle"

Overlap(s) == IF \E o \in Sessions \ {s} : Active(o) THEN {"overlap"} ELSE {}

\* Prepare: note the host name and mount /boot.
Prepare(s, next) ==
  /\ ~Active(s)
  /\ old' = [old EXCEPT ![s] = host]
  /\ mounted' = TRUE
  /\ pc' = [pc EXCEPT ![s] = next]
  /\ mishaps' = mishaps \cup Overlap(s)
  /\ UNCHANGED <<ram, boot, card, dirty, abandoned, open, packed, saved>>

RcSave ==
  /\ power = "booted"
  /\ power' = "up"
  /\ Prepare("rc", "remove")
  /\ UNCHANGED bounds

LoginAllowed ==
  \/ power = "up" /\ ~Active("rc")
  \/ SerialGetty /\ power \in {"restored", "booted", "up"}

\* "sysconfig", or "sysconfig --save" without the dialogue.
Sysconfig(s) ==
  /\ LoginAllowed
  /\ saves < MaxSaves /\ saves' = saves + 1
  /\ \/ Prepare(s, "dialogue")
     \/ Prepare(s, "remove")
  /\ UNCHANGED <<power, version, leases, cuts>>
-----------------------------------------------------------------------------
(***************************************************************************)
(* The dialogue of sysconfig.                                              *)
(***************************************************************************)
\* Hostname: write the name to /etc/hostname ...
KeepHostname(s) ==
  /\ pc[s] = "dialogue"
  /\ hostfile' = host
  /\ pc' = [pc EXCEPT ![s] = "hostname"]
  /\ UNCHANGED <<power, host, conf, disk, old, open, packed, saved, mishaps, bounds>>

\* ... and, if the user says so, change it there and in the kernel.
AskHostname(s) ==
  /\ pc[s] = "hostname"
  /\ \/ UNCHANGED <<host, hostfile>>
     \/ \E n \in Names : hostfile' = n /\ host' = n
  /\ pc' = [pc EXCEPT ![s] = "settings"]
  /\ UNCHANGED <<power, conf, disk, old, open, packed, saved, mishaps, bounds>>

\* Addresses, wireless networks, keys, passwords, pins ...
ChangeSettings(s) ==
  /\ pc[s] = "settings"
  /\ version < MaxVersion
  /\ version' = version + 1
  /\ conf' = version'
  /\ UNCHANGED <<power, host, hostfile, disk, pc, old, open, packed, saved, mishaps,
                 leases, cuts, saves>>

EndDialogue(s) ==
  /\ pc[s] = "settings"
  /\ pc' = [pc EXCEPT ![s] = "remove"]
  /\ UNCHANGED <<power, ram, disk, old, open, packed, saved, mishaps, bounds>>

\* A lease whose DHCP server gives the host a name (udhcpc.script).
Lease ==
  /\ power # "off"
  /\ leases < MaxLeases /\ leases' = leases + 1
  /\ host' \in LeaseNames \ {host}
  /\ mishaps' = mishaps \cup {"lease"}
  /\ UNCHANGED <<power, hostfile, conf, disk, pc, old, open, packed, saved,
                 version, cuts, saves>>
-----------------------------------------------------------------------------
(***************************************************************************)
(* Finalize.                                                               *)
(***************************************************************************)
\* Mutant: the tarball of the present name is removed instead.
RemoveNewName(s) ==
  /\ pc[s] = "remove"
  /\ IF mounted /\ boot[host] # None
     THEN /\ boot' = [boot EXCEPT ![host] = None]
          /\ dirty' = dirty \cup {host}
          /\ open' = [o \in Sessions |-> IF open[o] = host THEN None ELSE open[o]]
     ELSE UNCHANGED <<boot, dirty, open>>
  /\ pc' = [pc EXCEPT ![s] = "create"]
  /\ UNCHANGED <<power, ram, mounted, card, abandoned, old, packed, saved, mishaps,
                 bounds>>

\* rm -f the tarball of the old name.  If /boot has been unmounted meanwhile
\* there is nothing to remove.  A tar that is writing the file loses it.
RemoveTarball(s) ==
  /\ pc[s] = "remove"
  /\ IF mounted /\ boot[old[s]] # None
     THEN /\ boot' = [boot EXCEPT ![old[s]] = None]
          /\ dirty' = dirty \cup {old[s]}
          /\ open' = [o \in Sessions |-> IF open[o] = old[s] THEN None ELSE open[o]]
     ELSE UNCHANGED <<boot, dirty, open>>
  /\ pc' = [pc EXCEPT ![s] = "create"]
  /\ UNCHANGED <<power, ram, mounted, card, abandoned, old, packed, saved, mishaps,
                 bounds>>

\* tar creates the tarball of the present name.  Without /boot there is no
\* directory to create it in; the pipe to grep hides that tar has failed.
CreateTarball(s) ==
  /\ pc[s] = "create"
  /\ IF mounted
     THEN /\ boot' = [boot EXCEPT ![host] = Archive(None, None)]
          /\ dirty' = dirty \cup {host}
          /\ open' = [open EXCEPT ![s] = host]
          /\ pc' = [pc EXCEPT ![s] = "write"]
     ELSE /\ pc' = [pc EXCEPT ![s] = "sync"]
          /\ UNCHANGED <<boot, dirty, open>>
  /\ packed' = [packed EXCEPT ![s] = Archive(hostfile, conf)]
  /\ UNCHANGED <<power, ram, mounted, card, abandoned, old, saved, mishaps, bounds>>

\* tar writes the files.  Two of them in one file can spoil it.
WriteTarball(s) ==
  /\ pc[s] = "write"
  /\ IF open[s] = None THEN UNCHANGED <<boot, dirty>>
     ELSE LET a == Archive(hostfile, conf)
              shared == \E o \in Sessions \ {s} : open[o] = open[s]
          IN  /\ \E t \in IF shared THEN Torn(a) ELSE {a} :
                   boot' = [boot EXCEPT ![open[s]] = t]
              /\ dirty' = dirty \cup {open[s]}
  /\ open' = [open EXCEPT ![s] = None]
  /\ pc' = [pc EXCEPT ![s] = "sync"]
  /\ packed' = [packed EXCEPT ![s] = Archive(hostfile, conf)]
  /\ UNCHANGED <<power, ram, mounted, card, abandoned, old, saved, mishaps, bounds>>

\* sync puts everything on the card.
Sync(s) ==
  /\ pc[s] = "sync"
  /\ card' = boot /\ dirty' = {}
  /\ pc' = [pc EXCEPT ![s] = "umount"]
  /\ UNCHANGED <<power, ram, mounted, boot, abandoned, old, open, packed, saved, mishaps,
                 bounds>>

\* Mutant: the script ends without umount.
NoUmount(s) ==
  /\ pc[s] = "umount"
  /\ pc' = [pc EXCEPT ![s] = "idle"]
  /\ saved' = packed[s]
  /\ UNCHANGED <<power, ram, disk, old, open, packed, mishaps, bounds>>

\* umount refuses while a tar has a file open.  It writes back what was
\* written after the sync.
Umount(s) ==
  /\ pc[s] = "umount"
  /\ IF mounted /\ \A o \in Sessions : pc[o] # "write"
     THEN mounted' = FALSE /\ card' = boot /\ dirty' = {} /\ abandoned' = FALSE
     ELSE UNCHANGED <<mounted, card, dirty, abandoned>>
  /\ pc' = [pc EXCEPT ![s] = "idle"]
  /\ saved' = packed[s]
  /\ UNCHANGED <<power, ram, boot, old, open, packed, mishaps, bounds>>
-----------------------------------------------------------------------------
(***************************************************************************)
(* The script has no trap: whatever ends it ends it where it is.           *)
(***************************************************************************)
\* Of a tarball whose tar is killed there is as much as it has written.
LeftOver(n, S) ==
  IF \E s \in S : open[s] = n THEN Torn(Archive(hostfile, conf)) ELSE {boot[n]}

Killed(S) ==
  /\ boot' \in [Names -> UNION {LeftOver(n, S) : n \in Names}]
  /\ \A n \in Names : boot'[n] \in LeftOver(n, S)
  /\ mishaps' = mishaps \cup
       (IF \E s \in S : Active(s) THEN {"interrupt"} ELSE {})

\* Ctrl-C at a question or in Finalize, or a login that is cut off.  Nobody
\* unmounts /boot then, nor takes back the host name if it was changed.
Interrupt(s) ==
  /\ Active(s)
  /\ Killed({s})
  /\ dirty' = dirty \cup ({open[s]} \ {None})
  /\ abandoned' = TRUE
  /\ pc' = [pc EXCEPT ![s] = "idle"]
  /\ open' = [open EXCEPT ![s] = None]
  /\ UNCHANGED <<power, ram, mounted, card, old, packed, saved, bounds>>
-----------------------------------------------------------------------------
Reset ==
  /\ power' = "off"
  /\ host' = DefaultName /\ hostfile' = None /\ conf' = Factory
  /\ mounted' = FALSE /\ dirty' = {} /\ abandoned' = FALSE
  /\ pc' = [s \in Sessions |-> "idle"]
  /\ old' = [s \in Sessions |-> DefaultName]
  /\ open' = [s \in Sessions |-> None]

\* sysconfig's last question: reboot.  init, which listens once rc has ended,
\* kills what the other logins run and syncs.
Reboot ==
  /\ power = "up" /\ ~Active("rc")
  /\ Killed(Sessions)
  /\ card' = boot'
  /\ Reset
  /\ UNCHANGED <<packed, saved, bounds>>

Finalizing(s) == pc[s] \in {"remove", "create", "write", "sync", "umount"}

\* Of a tarball with changes that were not synced, the card may hold what it
\* held before, nothing, or as much of the new one as was written back.
AfterCut(n) ==
  IF n \notin dirty THEN {card[n]}
  ELSE {card[n], None} \cup (IF boot[n] = None THEN {} ELSE Torn(boot[n]))

PowerCut ==
  /\ power # "off"
  /\ cuts < MaxCuts /\ cuts' = cuts + 1
  /\ boot' \in [Names -> UNION {AfterCut(n) : n \in Names}]
  /\ \A n \in Names : boot'[n] \in AfterCut(n)
  /\ card' = boot'
  /\ mishaps' = mishaps \cup
       (IF \E s \in Sessions : Finalizing(s)
        THEN {"cut"} ELSE {})
  /\ Reset
  /\ UNCHANGED <<packed, saved, version, leases, saves>>

Finalize(s) ==
  \/ RemoveTarball(s) \/ CreateTarball(s) \/ WriteTarball(s)
  \/ Sync(s) \/ Umount(s)

Dialogue(s) ==
  \/ KeepHostname(s) \/ AskHostname(s) \/ ChangeSettings(s) \/ EndDialogue(s)

Next ==
  \/ Restore \/ SshKey \/ RcSave \/ Lease \/ Reboot \/ PowerCut
  \/ \E s \in Logins : Sysconfig(s) \/ Dialogue(s) \/ Interrupt(s)
  \/ \E s \in Sessions : Finalize(s)

Spec == Init /\ [][Next]_vars
-----------------------------------------------------------------------------
\* Type invariant.
TypeOK ==
  /\ power \in {"off", "restored", "booted", "up"}
  /\ host \in Names /\ hostfile \in Names \cup {None} /\ conf \in Nat
  /\ mounted \in BOOLEAN
  /\ boot \in [Names -> Archives \cup {None}]
  /\ card \in [Names -> Archives \cup {None}]
  /\ dirty \subseteq Names /\ abandoned \in BOOLEAN
  /\ pc \in [Sessions -> {"idle", "dialogue", "hostname", "settings", "remove",
                         "create", "write", "sync", "umount"}]
  /\ old \in [Sessions -> Names]
  /\ open \in [Sessions -> Names \cup {None}]
  /\ packed \in [Sessions -> Archives] /\ saved \in Archives
  /\ mishaps \subseteq {"cut", "lease", "overlap", "interrupt"}
  /\ version \in Nat /\ leases \in Nat /\ cuts \in Nat /\ saves \in Nat

Idle == \A s \in Sessions : ~Active(s)

Boots == power = "off" /\ power' = "restored"

\* A boot brings back exactly what the last sysconfig saved, host name changes
\* and power cuts outside Finalize included, as long as nothing has come in
\* the way of a sysconfig: no power cut while it finalizes, no lease that
\* renames the host, no second sysconfig at the same time, and no Ctrl-C,
\* lost login or reboot before it has ended (rc, sysconfig).
RestoresSaved ==
  [][Boots /\ mishaps = {} => hostfile' = saved.host /\ conf' = saved.conf]_vars

\* With no such mishap, there is never one of the "Extra tarballs (possibly
\* obsolete)" that sysconfig warns of: removing oldhostname's is enough.
OneTarball ==
  Idle /\ mishaps = {} => \A m, n \in Names : boot[m] # None /\ boot[n] # None => m = n

\* While no sysconfig runs, /boot is not mounted and the card holds all that
\* was written, however many of them ran at once: a power cut then finds
\* nothing to destroy (Finalize).  Only after a sysconfig that was interrupted
\* it may be otherwise, and only until a later one has unmounted /boot.
IdleIsSafe == Idle /\ ~abandoned => ~mounted /\ dirty = {} /\ card = boot

\* "It must be able to survive without orderly shutdowns" (README.md:249): a
\* power cut never loses what sysconfig saved earlier.
SurvivesPowerCut ==
  [][Boots /\ mishaps \subseteq {"cut"} => conf' >= saved.conf]_vars
=============================================================================
