-------------------------- MODULE ConfigSaveProofs --------------------------
(***************************************************************************)
(* What holds of ConfigSave for any number of logins, any host names and   *)
(* any number of power cuts, leases, interrupts and changes: it is well    *)
(* typed; while no sysconfig runs, and none has been interrupted since     *)
(* /boot was last unmounted, the card is complete and not mounted; and as  *)
(* long as nothing comes in the way of a sysconfig there is at most one    *)
(* tarball, and a boot brings back exactly what was saved last.            *)
(***************************************************************************)
EXTENDS ConfigSave, TLAPS

Writing == {"create", "write", "sync"}

\* Where nothing is dirty the card agrees with the file system.
CardAgrees == \A n \in Names \ dirty : card[n] = boot[n]

\* Somebody is on the way to the sync for whatever is dirty, unless he was
\* interrupted.
DirtyOwned == dirty # {} => abandoned \/ \E s \in Sessions : pc[s] \in Writing

\* Somebody is on the way to the umount while /boot is mounted, or was.
MountOwned == mounted => abandoned \/ \E s \in Sessions : Active(s)

\* An interrupt stays on record.
Recorded == abandoned => "interrupt" \in mishaps

SafeInv == TypeOK /\ CardAgrees /\ DirtyOwned /\ MountOwned /\ Recorded
-----------------------------------------------------------------------------
\* A tarball, whole or torn, is a tarball (WriteTarball, AfterCut).
LEMMA ArchiveTyping ==
  ASSUME NEW h \in Names \cup {None}, NEW c \in Nat \cup {None}
  PROVE  Archive(h, c) \in Archives
  BY DEF Archive, Archives

LEMMA TornTyping ==
  ASSUME NEW a \in Archives
  PROVE  Torn(a) \subseteq Archives
  <1>1. a.host \in Names \cup {None}
    BY DEF Archives
  <1>2. Archive(None, None) \in Archives /\ Archive(a.host, None) \in Archives
    BY <1>1, ArchiveTyping
  <1>3. QED
    BY <1>2 DEF Torn

\* What rc unpacks is one of the files packed earlier, or the kernel's own.
LEMMA UnpackedTyping ==
  ASSUME TypeOK
  PROVE  /\ Unpacked(boot, "host", None) \in Names \cup {None}
         /\ Unpacked(boot, "conf", Factory) \in Nat
  <1>1. ASSUME NEW f \in {"host", "conf"}, Last(Holding(boot, f)) # {}
        PROVE  \E n \in Names : /\ boot[n] \in Archives /\ boot[n][f] # None
                                /\ (CHOOSE m \in Last(Holding(boot, f)) : TRUE) = n
    BY <1>1 DEF Last, Holding, TypeOK
  <1>2. Unpacked(boot, "host", None) \in Names \cup {None}
    <2>1. CASE Last(Holding(boot, "host")) = {}
      BY <2>1 DEF Unpacked
    <2>2. CASE Last(Holding(boot, "host")) # {}
      BY <1>1, <2>2 DEF Unpacked, Archives
    <2>3. QED
      BY <2>1, <2>2
  <1>3. Unpacked(boot, "conf", Factory) \in Nat
    <2>1. CASE Last(Holding(boot, "conf")) = {}
      BY <2>1 DEF Unpacked, Factory
    <2>2. CASE Last(Holding(boot, "conf")) # {}
      BY <1>1, <2>2 DEF Unpacked, Archives
    <2>3. QED
      BY <2>1, <2>2
  <1>4. QED
    BY <1>2, <1>3

LEMMA InitTypeOK == Init => TypeOK
  <1> SUFFICES ASSUME Init PROVE TypeOK
    OBVIOUS
  <1>1. Archive(None, Factory) \in Archives
    BY ArchiveTyping DEF Factory
  <1>2. /\ boot \in [Names -> Archives \cup {None}]
        /\ card \in [Names -> Archives \cup {None}]
    BY DEF Init
  <1>3. packed \in [Sessions -> Archives] /\ saved \in Archives
    BY <1>1 DEF Init
  <1>4. QED
    BY <1>2, <1>3, NameAssumption DEF Init, TypeOK, Factory, WithKey

\* sysconfig starts.
LEMMA PrepareTypeOK ==
  ASSUME TypeOK, NEW s \in Sessions, NEW next \in {"dialogue", "remove"},
         Prepare(s, next)
  PROVE  /\ host' \in Names /\ hostfile' \in Names \cup {None} /\ conf' \in Nat
         /\ mounted' \in BOOLEAN /\ dirty' \subseteq Names /\ abandoned' \in BOOLEAN
         /\ boot' \in [Names -> Archives \cup {None}]
         /\ card' \in [Names -> Archives \cup {None}]
         /\ pc' \in [Sessions -> {"idle", "dialogue", "hostname", "settings",
                                  "remove", "create", "write", "sync", "umount"}]
         /\ old' \in [Sessions -> Names]
         /\ open' \in [Sessions -> Names \cup {None}]
         /\ packed' \in [Sessions -> Archives] /\ saved' \in Archives
         /\ mishaps' \subseteq {"cut", "lease", "overlap", "interrupt"}
  BY DEF Prepare, TypeOK, ram, Overlap

\* The dialogue of one login.
LEMMA DialogueTypeOK ==
  ASSUME TypeOK, NEW s \in Sessions, Dialogue(s)
  PROVE  TypeOK'
  <1>1. CASE KeepHostname(s)
    BY <1>1 DEF KeepHostname, TypeOK, disk, bounds
  <1>2. CASE AskHostname(s)
    BY <1>2 DEF AskHostname, TypeOK, disk, bounds
  <1>3. CASE ChangeSettings(s)
    BY <1>3 DEF ChangeSettings, TypeOK, disk
  <1>4. CASE EndDialogue(s)
    BY <1>4 DEF EndDialogue, TypeOK, ram, disk, bounds
  <1>5. QED
    BY <1>1, <1>2, <1>3, <1>4 DEF Dialogue

\* Finalize in one sysconfig.
LEMMA FinalizeTypeOK ==
  ASSUME TypeOK, NEW s \in Sessions, Finalize(s)
  PROVE  TypeOK'
  <1>1. CASE RemoveTarball(s)
    <2>1. old[s] \in Names
      BY DEF TypeOK
    <2>2. /\ boot' \in [Names -> Archives \cup {None}] /\ dirty' \subseteq Names
          /\ open' \in [Sessions -> Names \cup {None}]
      BY <1>1, <2>1 DEF RemoveTarball, TypeOK
    <2>3. QED
      BY <1>1, <2>2 DEF RemoveTarball, TypeOK, ram, bounds
  <1>2. CASE CreateTarball(s)
    <2>1. /\ Archive(None, None) \in Archives /\ Archive(hostfile, conf) \in Archives
      BY ArchiveTyping DEF TypeOK
    <2>2. /\ boot' \in [Names -> Archives \cup {None}] /\ dirty' \subseteq Names
          /\ open' \in [Sessions -> Names \cup {None}]
          /\ packed' \in [Sessions -> Archives]
          /\ pc' = [pc EXCEPT ![s] = IF mounted THEN "write" ELSE "sync"]
      BY <1>2, <2>1 DEF CreateTarball, TypeOK
    <2>3. QED
      BY <1>2, <2>2 DEF CreateTarball, TypeOK, ram, bounds
  <1>3. CASE WriteTarball(s)
    <2>1. Archive(hostfile, conf) \in Archives
      BY ArchiveTyping DEF TypeOK
    <2>2. \A a \in Archives : Torn(a) \subseteq Archives
      BY TornTyping
    <2>3. boot' \in [Names -> Archives \cup {None}] /\ dirty' \subseteq Names
      <3>1. CASE open[s] = None
        BY <1>3, <3>1 DEF WriteTarball, TypeOK
      <3>2. CASE open[s] # None
        <4>1. open[s] \in Names
          BY <3>2 DEF TypeOK
        <4>2. \E t \in Archives : boot' = [boot EXCEPT ![open[s]] = t]
          BY <1>3, <2>1, <2>2, <3>2 DEF WriteTarball
        <4>3. QED
          BY <1>3, <3>2, <4>1, <4>2 DEF WriteTarball, TypeOK
      <3>3. QED
        BY <3>1, <3>2
    <2>4. /\ open' \in [Sessions -> Names \cup {None}]
          /\ packed' \in [Sessions -> Archives]
      BY <1>3, <2>1 DEF WriteTarball, TypeOK
    <2>5. QED
      BY <1>3, <2>3, <2>4 DEF WriteTarball, TypeOK, ram, bounds
  <1>4. CASE Sync(s)
    BY <1>4 DEF Sync, TypeOK, ram, bounds
  <1>5. CASE Umount(s)
    BY <1>5 DEF Umount, TypeOK, ram, bounds
  <1>6. QED
    BY <1>1, <1>2, <1>3, <1>4, <1>5 DEF Finalize

\* sysconfigs are killed, with their tars.
LEMMA KilledTypeOK ==
  ASSUME TypeOK, NEW S \in SUBSET Sessions, Killed(S)
  PROVE  /\ boot' \in [Names -> Archives \cup {None}]
         /\ mishaps' \subseteq {"cut", "lease", "overlap", "interrupt"}
  <1>1. \A n \in Names : LeftOver(n, S) \subseteq Archives \cup {None}
    <2>1. Torn(Archive(hostfile, conf)) \subseteq Archives
      BY ArchiveTyping, TornTyping DEF TypeOK
    <2>2. \A n \in Names : boot[n] \in Archives \cup {None}
      BY DEF TypeOK
    <2>3. QED
      BY <2>1, <2>2 DEF LeftOver
  <1>2. boot' \in [Names -> Archives \cup {None}]
    BY <1>1 DEF Killed
  <1>3. mishaps' \subseteq {"cut", "lease", "overlap", "interrupt"}
    BY DEF Killed, TypeOK
  <1>4. QED
    BY <1>2, <1>3

LEMMA InterruptTypeOK ==
  ASSUME TypeOK, NEW s \in Sessions, Interrupt(s)
  PROVE  TypeOK'
  <1>1. /\ boot' \in [Names -> Archives \cup {None}]
        /\ mishaps' \subseteq {"cut", "lease", "overlap", "interrupt"}
    BY KilledTypeOK DEF Interrupt
  <1>2. dirty' \subseteq Names
    BY DEF Interrupt, TypeOK
  <1>3. pc' = [pc EXCEPT ![s] = "idle"] /\ open' = [open EXCEPT ![s] = None]
    BY DEF Interrupt
  <1>4. QED
    BY <1>1, <1>2, <1>3 DEF Interrupt, TypeOK, ram, bounds

\* What is left after the power has failed.
LEMMA ResetTypeOK ==
  ASSUME TypeOK, Reset
  PROVE  /\ power' = "off" /\ host' \in Names /\ hostfile' \in Names \cup {None}
         /\ conf' \in Nat /\ mounted' \in BOOLEAN /\ dirty' \subseteq Names
         /\ abandoned' \in BOOLEAN
         /\ pc' \in [Sessions -> {"idle"}] /\ old' \in [Sessions -> Names]
         /\ open' \in [Sessions -> Names \cup {None}]
  BY NameAssumption DEF Reset, Factory

LEMMA NextTypeOK == TypeOK /\ [Next]_vars => TypeOK'
  <1> SUFFICES ASSUME TypeOK, [Next]_vars PROVE TypeOK'
    OBVIOUS
  <1>1. CASE Restore
    <2>1. hostfile' \in Names \cup {None} /\ conf' \in Nat
      BY <1>1, UnpackedTyping DEF Restore
    <2>2. host' \in Names
      BY <1>1, <2>1, NameAssumption DEF Restore
    <2>3. QED
      BY <1>1, <2>1, <2>2 DEF Restore, TypeOK, disk, bounds
  <1>2. CASE SshKey
    BY <1>2 DEF SshKey, TypeOK, disk, bounds, WithKey
  <1>3. CASE RcSave
    BY <1>3, PrepareTypeOK DEF RcSave, TypeOK, bounds, Sessions
  <1>4. CASE Lease
    BY <1>4, NameAssumption DEF Lease, TypeOK, disk
  <1>5. CASE Reboot
    <2>1. /\ boot' \in [Names -> Archives \cup {None}] /\ card' = boot'
          /\ mishaps' \subseteq {"cut", "lease", "overlap", "interrupt"}
      BY <1>5, KilledTypeOK DEF Reboot
    <2>2. QED
      BY <1>5, <2>1, ResetTypeOK DEF Reboot, TypeOK, bounds
  <1>6. CASE PowerCut
    <2>1. \A n \in Names : AfterCut(n) \subseteq Archives \cup {None}
      <3> SUFFICES ASSUME NEW n \in Names
                   PROVE  AfterCut(n) \subseteq Archives \cup {None}
        OBVIOUS
      <3>1. card[n] \in Archives \cup {None} /\ boot[n] \in Archives \cup {None}
        BY DEF TypeOK
      <3>2. boot[n] # None => Torn(boot[n]) \subseteq Archives
        BY <3>1, TornTyping
      <3>3. QED
        BY <3>1, <3>2 DEF AfterCut
    <2>2. boot' \in [Names -> Archives \cup {None}]
      BY <1>6, <2>1 DEF PowerCut
    <2>3. QED
      BY <1>6, <2>2, ResetTypeOK DEF PowerCut, TypeOK
  <1>7. CASE \E s \in Logins : Sysconfig(s) \/ Dialogue(s) \/ Interrupt(s)
    <2>1. PICK s \in Sessions : Sysconfig(s) \/ Dialogue(s) \/ Interrupt(s)
      BY <1>7 DEF Sessions
    <2>2. CASE Sysconfig(s)
      BY <2>2, PrepareTypeOK DEF Sysconfig, TypeOK
    <2>3. QED
      BY <2>1, <2>2, DialogueTypeOK, InterruptTypeOK
  <1>8. CASE \E s \in Sessions : Finalize(s)
    BY <1>8, FinalizeTypeOK
  <1>9. CASE UNCHANGED vars
    BY <1>9 DEF TypeOK, vars, ram, disk, bounds
  <1>10. QED
    BY <1>1, <1>2, <1>3, <1>4, <1>5, <1>6, <1>7, <1>8, <1>9 DEF Next

\* Every variable keeps its type.
THEOREM TypeCorrect == Spec => []TypeOK
  BY InitTypeOK, NextTypeOK, PTL DEF Spec
-----------------------------------------------------------------------------
LEMMA InitSafe == Init => SafeInv
  BY InitTypeOK DEF Init, SafeInv, CardAgrees, DirtyOwned, MountOwned, Recorded

\* While none of them runs, nothing is dirty, mounted or missing on the card.
LEMMA SafeWhenIdle == SafeInv => IdleIsSafe
  <1> SUFFICES ASSUME SafeInv, Idle, ~abandoned PROVE ~mounted /\ dirty = {} /\ card = boot
    BY DEF IdleIsSafe
  <1>1. dirty = {}
    BY DEF SafeInv, DirtyOwned, Idle, Active, Writing
  <1>2. ~mounted
    BY DEF SafeInv, MountOwned, Idle
  <1>3. card = boot
    BY <1>1 DEF SafeInv, CardAgrees, TypeOK
  <1>4. QED
    BY <1>1, <1>2, <1>3

\* Steps that leave the disk alone and take no sysconfig off its way.
LEMMA DiskUntouched ==
  ASSUME SafeInv, TypeOK', UNCHANGED disk, mishaps \subseteq mishaps',
         \A s \in Sessions : /\ pc[s] \in Writing => pc'[s] \in Writing
                             /\ Active(s) => Active(s)'
  PROVE  SafeInv'
  BY DEF SafeInv, disk, CardAgrees, DirtyOwned, MountOwned, Recorded

\* Finalize in one sysconfig.
LEMMA FinalizeSafe ==
  ASSUME SafeInv, TypeOK', NEW s \in Sessions, Finalize(s)
  PROVE  SafeInv'
  <1> USE DEF SafeInv
  <1>1. CASE RemoveTarball(s) \/ CreateTarball(s) \/ WriteTarball(s)
    <2>1. pc'[s] \in Writing /\ UNCHANGED <<mounted, card, abandoned, mishaps>>
      BY <1>1 DEF RemoveTarball, CreateTarball, WriteTarball, Writing, TypeOK
    <2>2. CardAgrees'
      <3>1. \E d \in Names \cup {None} :
              /\ dirty' \in {dirty, dirty \cup {d}}
              /\ \A n \in Names : n \notin dirty' => boot'[n] = boot[n]
        <4>1. CASE RemoveTarball(s)
          BY <4>1 DEF RemoveTarball, TypeOK
        <4>2. CASE CreateTarball(s)
          BY <4>2 DEF CreateTarball, TypeOK
        <4>3. CASE WriteTarball(s)
          BY <4>3 DEF WriteTarball, TypeOK
        <4>4. QED
          BY <1>1, <4>1, <4>2, <4>3
      <3>2. QED
        BY <2>1, <3>1 DEF CardAgrees
    <2>3. DirtyOwned' /\ MountOwned' /\ Recorded'
      BY <2>1 DEF DirtyOwned, MountOwned, Recorded, Active, Writing
    <2>4. QED
      BY <2>2, <2>3
  <1>2. CASE Sync(s)
    <2>1. /\ pc'[s] = "umount" /\ card' = boot /\ boot' = boot /\ dirty' = {}
          /\ UNCHANGED <<abandoned, mishaps>>
      BY <1>2 DEF Sync, TypeOK
    <2>2. QED
      BY <2>1 DEF CardAgrees, DirtyOwned, MountOwned, Recorded, Active
  <1>3. CASE Umount(s)
    <2>1. CASE mounted /\ \A o \in Sessions : pc[o] # "write"
      <3>1. /\ ~mounted' /\ card' = boot /\ boot' = boot /\ dirty' = {} /\ ~abandoned'
        BY <1>3, <2>1 DEF Umount
      <3>2. QED
        BY <3>1 DEF CardAgrees, DirtyOwned, MountOwned, Recorded
    <2>2. CASE ~(mounted /\ \A o \in Sessions : pc[o] # "write")
      <3>1. /\ pc[s] = "umount" /\ UNCHANGED <<mounted, boot, card, dirty, abandoned, mishaps>>
            /\ \A o \in Sessions : o # s => pc'[o] = pc[o]
        BY <1>3, <2>2 DEF Umount, TypeOK
      <3>2. DirtyOwned'
        BY <3>1 DEF DirtyOwned, Writing
      <3>3. MountOwned'
        BY <2>2, <3>1 DEF MountOwned, Active
      <3>4. QED
        BY <3>1, <3>2, <3>3 DEF CardAgrees, Recorded
    <2>3. QED
      BY <2>1, <2>2
  <1>4. QED
    BY <1>1, <1>2, <1>3 DEF Finalize

\* A sysconfig is interrupted: what it leaves is on record.
LEMMA InterruptSafe ==
  ASSUME SafeInv, TypeOK', NEW s \in Sessions, Interrupt(s)
  PROVE  SafeInv'
  <1>1. /\ abandoned' /\ "interrupt" \in mishaps' /\ card' = card
        /\ dirty' = dirty \cup ({open[s]} \ {None})
    BY DEF Interrupt, Killed
  <1>2. \A n \in Names \ dirty' : boot'[n] = boot[n]
    <2>1. \A n \in Names : boot'[n] \in LeftOver(n, {s})
      BY DEF Interrupt, Killed
    <2>2. \A n \in Names : None # n
      BY NameAssumption
    <2>3. QED
      BY <1>1, <2>1, <2>2 DEF LeftOver
  <1>3. CardAgrees'
    BY <1>1, <1>2 DEF SafeInv, CardAgrees
  <1>4. QED
    BY <1>1, <1>3 DEF SafeInv, DirtyOwned, MountOwned, Recorded

LEMMA NextSafe == SafeInv /\ [Next]_vars => SafeInv'
  <1> SUFFICES ASSUME SafeInv, [Next]_vars PROVE SafeInv'
    OBVIOUS
  <1>1. TypeOK'
    BY NextTypeOK DEF SafeInv
  <1>2. CASE Restore \/ SshKey \/ Lease \/ UNCHANGED vars
    <2>1. UNCHANGED <<disk, pc>> /\ mishaps \subseteq mishaps'
      BY <1>2 DEF Restore, SshKey, Lease, vars, disk
    <2>2. QED
      BY <1>1, <2>1, DiskUntouched DEF Active
  <1>3. CASE \E s \in Logins : Dialogue(s)
    <2>1. PICK s \in Logins : Dialogue(s)
      BY <1>3
    <2>2. /\ UNCHANGED <<disk, mishaps>> /\ pc[s] \notin Writing /\ pc'[s] # "idle"
          /\ \A o \in Sessions : o # s => pc'[o] = pc[o]
      BY <2>1 DEF Dialogue, KeepHostname, AskHostname, ChangeSettings, EndDialogue,
                  SafeInv, TypeOK, Writing, Sessions, disk
    <2>3. QED
      BY <1>1, <2>2, DiskUntouched DEF Active
  <1>4. ASSUME NEW s \in Sessions, NEW next \in {"dialogue", "remove"},
               Prepare(s, next)
        PROVE  SafeInv'
    <2>1. /\ UNCHANGED <<boot, card, dirty, abandoned>> /\ mishaps \subseteq mishaps'
          /\ pc[s] = "idle" /\ pc'[s] = next
          /\ \A o \in Sessions : o # s => pc'[o] = pc[o]
      BY <1>4 DEF Prepare, Active, SafeInv, TypeOK
    <2>2. DirtyOwned'
      BY <2>1 DEF SafeInv, DirtyOwned, Writing
    <2>3. QED
      BY <1>1, <2>1, <2>2 DEF SafeInv, CardAgrees, MountOwned, Recorded, Active
  <1>5. CASE RcSave
    BY <1>4, <1>5 DEF RcSave, Sessions
  <1>6. CASE \E s \in Logins : Sysconfig(s)
    BY <1>4, <1>6 DEF Sysconfig, Sessions
  <1>7. CASE \E s \in Sessions : Finalize(s)
    BY <1>1, <1>7, FinalizeSafe
  <1>8. CASE Reboot
    <2>1. card' = boot' /\ dirty' = {} /\ ~mounted' /\ ~abandoned'
      BY <1>8 DEF Reboot, Reset
    <2>2. QED
      BY <1>1, <2>1 DEF SafeInv, CardAgrees, DirtyOwned, MountOwned, Recorded
  <1>9. CASE PowerCut
    BY <1>1, <1>9 DEF PowerCut, Reset, SafeInv, CardAgrees, DirtyOwned, MountOwned, Recorded
  <1>10. CASE \E s \in Logins : Interrupt(s)
    BY <1>1, <1>10, InterruptSafe DEF Sessions
  <1>11. QED
    BY <1>2, <1>3, <1>5, <1>6, <1>7, <1>8, <1>9, <1>10 DEF Next

\* However many sysconfigs overlap and whenever the power goes: when none runs,
\* and since the last umount none was interrupted, /boot is unmounted and the
\* card holds everything that was written.  One sysconfig that unmounts /boot
\* puts right whatever interrupted ones have left there.
THEOREM AlwaysIdleIsSafe == Spec => []IdleIsSafe
  BY InitSafe, NextSafe, SafeWhenIdle, PTL DEF Spec
-----------------------------------------------------------------------------
(***************************************************************************)
(* While nothing comes in the way.                                         *)
(***************************************************************************)
\* The host name after a boot with that /etc/hostname, which is also the name
\* of the tarball that holds it.
NameOf(file) == IF file = None THEN DefaultName ELSE file

NoTarball == \A n \in Names : boot[n] = None
OnlyTarball(name, a) == \A n \in Names : boot[n] = IF n = name THEN a ELSE None

\* /boot holds what was saved last, under the name it will be looked for.
Stored == \/ NoTarball /\ saved = Archive(None, Factory)
          \/ OnlyTarball(NameOf(saved.host), saved)

\* What one sysconfig, alone, has done to the tarball so far.
Progress(s) ==
  /\ mounted
  /\ pc[s] \notin {"create", "write", "sync", "umount"} =>
       Stored /\ old[s] = NameOf(saved.host)
  /\ pc[s] = "create" => NoTarball
  /\ pc[s] = "write" => OnlyTarball(host, Archive(None, None)) /\ open[s] = host
  /\ pc[s] \in {"sync", "umount"} =>
       OnlyTarball(host, packed[s]) /\ packed[s].host = hostfile

Orderly ==
  /\ \A s, o \in Sessions : Active(s) /\ Active(o) => s = o
  /\ host = NameOf(hostfile)
  /\ Idle => Stored
  /\ Idle /\ power # "off" => host = NameOf(saved.host)
  /\ \A s \in Sessions : Active(s) => Progress(s)

\* What a tar packs always has a version, only a tar that writes has a tarball
\* open, and no sysconfig runs without power.
Bookkeeping ==
  /\ \A s \in Sessions : packed[s].conf \in Nat /\ (pc[s] # "write" => open[s] = None)
  /\ saved.conf \in Nat
  /\ power = "off" => Idle

OrderInv == SafeInv /\ Bookkeeping /\ (mishaps = {} => Orderly)
LEMMA OrderInit == Init => OrderInv
  <1> SUFFICES ASSUME Init PROVE OrderInv
    OBVIOUS
  <1>1. Idle
    BY DEF Init, Idle, Active
  <1>2. Bookkeeping
    BY <1>1 DEF Init, Bookkeeping, Archive, Factory
  <1>3. Orderly
    BY <1>1 DEF Init, Orderly, Idle, NameOf, Stored, NoTarball, Archive
  <1>4. QED
    BY <1>2, <1>3, InitSafe DEF OrderInv

\* rc finds what was saved: unpacking a single tarball, or none (rc).
LEMMA UnpackedSaved ==
  ASSUME TypeOK, Bookkeeping, Stored
  PROVE  /\ Unpacked(boot, "host", None) = saved.host
         /\ Unpacked(boot, "conf", Factory) = saved.conf
  <1>1. saved \in Archives /\ saved # None /\ saved.host \in Names \cup {None}
        /\ saved.conf \in Nat
    BY ArchiveAssumption DEF TypeOK, Archives, Bookkeeping
  <1>2. CASE NoTarball /\ saved = Archive(None, Factory)
    <2>1. ASSUME NEW f PROVE Last(Holding(boot, f)) = {}
      BY <1>2 DEF NoTarball, Holding, Last
    <2>2. QED
      BY <1>2, <2>1 DEF Unpacked, Archive
  <1>3. CASE OnlyTarball(NameOf(saved.host), saved)
    <2> DEFINE n == NameOf(saved.host)
    <2>1. n \in Names /\ n \in Nat /\ boot[n] = saved
      BY <1>1, <1>3, NameAssumption DEF NameOf, OnlyTarball
    <2>2. \A m \in Names : boot[m] # None => m = n
      BY <1>3 DEF OnlyTarball
    <2> HIDE DEF n
    <2>3. ASSUME NEW f PROVE Holding(boot, f) = IF saved[f] # None THEN {n} ELSE {}
      BY <1>1, <2>1, <2>2 DEF Holding
    <2>4. ASSUME NEW f, saved[f] # None PROVE Last(Holding(boot, f)) = {n}
      BY <2>1, <2>3, <2>4 DEF Last
    <2>5. ASSUME NEW f, saved[f] = None PROVE Last(Holding(boot, f)) = {}
      BY <2>3, <2>5 DEF Last
    <2>6. ASSUME NEW f, NEW factory, saved[f] # None
          PROVE  Unpacked(boot, f, factory) = saved[f]
      BY <2>1, <2>4, <2>6 DEF Unpacked
    <2>7. saved["conf"] # None
      BY <1>1, NameAssumption
    <2>8. saved["host"] = None => Unpacked(boot, "host", None) = None
      BY <2>5 DEF Unpacked
    <2>9. QED
      BY <2>6, <2>7, <2>8
  <1>4. QED
    BY <1>2, <1>3 DEF Stored

LEMMA StepBookkeeping ==
  ASSUME OrderInv, [Next]_vars
  PROVE  Bookkeeping'
  <1> USE DEF OrderInv, Bookkeeping
  <1>1. TypeOK
    BY DEF SafeInv
  <1>2. CASE Restore \/ SshKey \/ Lease \/ UNCHANGED vars
    BY <1>2 DEF Restore, SshKey, Lease, vars, Idle, Active
  <1>3. ASSUME NEW s \in Sessions, NEW next \in {"dialogue", "remove"},
               Prepare(s, next), power' # "off"
        PROVE  Bookkeeping'
    <2>1. pc' = [pc EXCEPT ![s] = next] /\ pc[s] = "idle"
          /\ UNCHANGED <<packed, saved, open>>
      BY <1>3 DEF Prepare, Active
    <2>2. QED
      BY <1>1, <1>3, <2>1 DEF TypeOK
  <1>4. CASE RcSave
    BY <1>3, <1>4 DEF RcSave, Sessions
  <1>5. CASE \E s \in Logins : Sysconfig(s)
    <2>1. PICK s \in Sessions : Sysconfig(s)
      BY <1>5 DEF Sessions
    <2>2. power' # "off"
      BY <2>1 DEF Sysconfig, LoginAllowed
    <2>3. QED
      BY <1>3, <2>1, <2>2 DEF Sysconfig
  <1>6. ASSUME NEW s \in Sessions, Dialogue(s) PROVE Bookkeeping'
    <2>1. /\ UNCHANGED <<power, packed, saved, open>> /\ pc[s] # "write" /\ pc[s] # "idle"
          /\ \E q : q # "write" /\ pc' = [pc EXCEPT ![s] = q]
      BY <1>1, <1>6 DEF Dialogue, KeepHostname, AskHostname, ChangeSettings, EndDialogue,
         TypeOK
    <2>2. QED
      BY <1>1, <2>1 DEF TypeOK, Idle, Active
  <1>7. ASSUME NEW s \in Sessions, Finalize(s) PROVE Bookkeeping'
    <2>1. power' = power /\ power # "off"
      BY <1>7 DEF Finalize, RemoveTarball, CreateTarball, WriteTarball, Sync, Umount,
         Idle, Active
    <2>2. saved'.conf \in Nat
      BY <1>7 DEF Finalize, RemoveTarball, CreateTarball, WriteTarball, Sync, Umount
    <2>3. ASSUME NEW o \in Sessions PROVE packed'[o].conf \in Nat
      <3>1. packed' = packed \/ packed' = [packed EXCEPT ![s] = Archive(hostfile, conf)]
        BY <1>7 DEF Finalize, RemoveTarball, CreateTarball, WriteTarball, Sync, Umount
      <3>2. Archive(hostfile, conf).conf \in Nat
        BY <1>1 DEF Archive, TypeOK
      <3>3. QED
        BY <1>1, <3>1, <3>2 DEF TypeOK
    <2>4. ASSUME NEW o \in Sessions, pc'[o] # "write" PROVE open'[o] = None
      <3>1. CASE RemoveTarball(s)
        BY <1>1, <2>4, <3>1 DEF RemoveTarball, TypeOK
      <3>2. CASE CreateTarball(s)
        BY <1>1, <2>4, <3>2 DEF CreateTarball, TypeOK
      <3>3. CASE WriteTarball(s) \/ Sync(s) \/ Umount(s)
        BY <1>1, <2>4, <3>3 DEF WriteTarball, Sync, Umount, TypeOK
      <3>4. QED
        BY <1>7, <3>1, <3>2, <3>3 DEF Finalize
    <2>5. QED
      BY <2>1, <2>2, <2>3, <2>4
  <1>8. CASE Reboot \/ PowerCut
    BY <1>8 DEF Reboot, PowerCut, Reset, Idle, Active
  <1>9. ASSUME NEW s \in Sessions, Interrupt(s) PROVE Bookkeeping'
    <2>1. /\ UNCHANGED <<power, packed, saved>>
          /\ pc' = [pc EXCEPT ![s] = "idle"] /\ open' = [open EXCEPT ![s] = None]
      BY <1>9 DEF Interrupt
    <2>2. QED
      BY <1>1, <2>1 DEF TypeOK, Idle, Active
  <1>10. QED
    BY <1>2, <1>4, <1>5, <1>6, <1>7, <1>8, <1>9 DEF Next, Sessions

\* Each step of the one sysconfig that runs.
LEMMA DialogueOrderly ==
  ASSUME OrderInv, Orderly, NEW s \in Sessions, Dialogue(s)
  PROVE  Orderly'
  <1>1. TypeOK
    BY DEF OrderInv, SafeInv
  <1>2. /\ pc[s] \in {"dialogue", "hostname", "settings"}
        /\ pc'[s] \in {"hostname", "settings", "remove"}
        /\ \A o \in Sessions \ {s} : pc'[o] = pc[o]
        /\ UNCHANGED <<power, mounted, boot, old, saved>>
    BY <1>1 DEF Dialogue, KeepHostname, AskHostname, ChangeSettings, EndDialogue, TypeOK,
       disk, ram
  <1>3. host' = NameOf(hostfile')
    <2>1. host \in Names /\ None \notin Names
      BY <1>1, NameAssumption DEF TypeOK
    <2>2. QED
      BY <2>1 DEF Dialogue, KeepHostname, AskHostname, ChangeSettings, EndDialogue, ram,
         NameOf, Orderly
  <1>4. \A o \in Sessions : Active(o)' => o = s
    BY <1>2 DEF Active, Orderly
  <1>5. Stored' /\ old'[s] = NameOf(saved'.host) /\ mounted'
    BY <1>2 DEF Orderly, Active, Progress, Stored, NoTarball, OnlyTarball
  <1>6. Progress(s)' /\ ~Idle'
    BY <1>2, <1>5 DEF Progress, Idle, Active
  <1>7. QED
    BY <1>3, <1>4, <1>6 DEF Orderly

LEMMA FinalizeOrderly ==
  ASSUME OrderInv, Orderly, NEW s \in Sessions, Finalize(s)
  PROVE  Orderly'
  <1>1. TypeOK /\ host \in Names /\ None \notin Names
    BY NameAssumption DEF OrderInv, SafeInv, TypeOK
  <1>2. /\ \A o \in Sessions \ {s} : pc'[o] = pc[o] /\ pc[o] = "idle"
        /\ UNCHANGED <<power, host, hostfile>> /\ Active(s) /\ Progress(s)
    BY <1>1 DEF Finalize, RemoveTarball, CreateTarball, WriteTarball, Sync, Umount, TypeOK,
       ram, Orderly, Active
  <1>3. \A o \in Sessions : Active(o)' => o = s
    BY <1>2 DEF Active
  <1>4. host' = NameOf(hostfile')
    BY <1>2 DEF Orderly
  <1>5. ASSUME pc'[s] # "idle", Progress(s)' PROVE Orderly'
    BY <1>3, <1>4, <1>5 DEF Orderly, Idle, Active
  <1>6. CASE RemoveTarball(s)
    <2>1. pc[s] = "remove" /\ pc'[s] = "create" /\ mounted' = mounted
          /\ boot' = IF mounted /\ boot[old[s]] # None
                     THEN [boot EXCEPT ![old[s]] = None] ELSE boot
      BY <1>1, <1>6 DEF RemoveTarball, TypeOK
    <2>2. mounted /\ Stored /\ old[s] = NameOf(saved.host) /\ old[s] \in Names
      BY <1>1, <1>2, <2>1 DEF Progress, TypeOK
    <2>3. \A n \in Names : n # old[s] => boot[n] = None
      BY <2>2 DEF Stored, NoTarball, OnlyTarball
    <2>4. NoTarball'
      BY <1>1, <2>1, <2>2, <2>3 DEF NoTarball, TypeOK
    <2>5. QED
      BY <1>5, <2>1, <2>2, <2>4 DEF Progress
  <1>7. CASE CreateTarball(s)
    <2>1. pc[s] = "create" /\ mounted /\ NoTarball
      BY <1>2, <1>7 DEF CreateTarball, Progress
    <2>2. /\ pc'[s] = "write" /\ mounted' = mounted /\ open'[s] = host
          /\ boot' = [boot EXCEPT ![host] = Archive(None, None)]
      BY <1>1, <1>7, <2>1 DEF CreateTarball, TypeOK
    <2>3. OnlyTarball(host, Archive(None, None))'
      BY <1>1, <1>2, <2>1, <2>2 DEF OnlyTarball, NoTarball, TypeOK, Archive
    <2>4. QED
      BY <1>2, <1>5, <2>1, <2>2, <2>3 DEF Progress
  <1>8. CASE WriteTarball(s)
    <2> DEFINE a == Archive(hostfile, conf)
    <2>1. pc[s] = "write" /\ mounted /\ OnlyTarball(host, Archive(None, None))
          /\ open[s] = host
      BY <1>2, <1>8 DEF WriteTarball, Progress
    <2>2. \A o \in Sessions \ {s} : open[o] # open[s]
      BY <1>1, <1>2, <2>1 DEF OrderInv, Bookkeeping
    <2>3. boot' = [boot EXCEPT ![host] = a]
      BY <1>1, <1>8, <2>1, <2>2 DEF WriteTarball
    <2>4. pc'[s] = "sync" /\ mounted' = mounted /\ packed'[s] = a
      BY <1>1, <1>8 DEF WriteTarball, TypeOK
    <2>5. a.host = hostfile
      BY DEF Archive
    <2> HIDE DEF a
    <2>6. OnlyTarball(host, packed[s])'
      BY <1>1, <1>2, <2>1, <2>3, <2>4 DEF OnlyTarball, TypeOK
    <2>7. QED
      BY <1>2, <1>5, <2>1, <2>4, <2>5, <2>6 DEF Progress
  <1>9. CASE Sync(s)
    <2>1. pc[s] = "sync" /\ pc'[s] = "umount" /\ UNCHANGED <<mounted, boot, packed>>
      BY <1>1, <1>9 DEF Sync, TypeOK
    <2>2. QED
      BY <1>2, <1>5, <2>1 DEF Progress, OnlyTarball
  <1>10. CASE Umount(s)
    <2>1. pc[s] = "umount" /\ pc'[s] = "idle" /\ boot' = boot /\ saved' = packed[s]
      BY <1>1, <1>10 DEF Umount, TypeOK
    <2>2. OnlyTarball(host, packed[s]) /\ packed[s].host = hostfile
      BY <1>2, <2>1 DEF Progress
    <2>3. host' = NameOf(saved'.host)
      BY <1>4, <1>2, <2>1, <2>2
    <2>4. Stored'
      BY <1>2, <2>1, <2>2, <2>3 DEF Stored, OnlyTarball
    <2>5. \A o \in Sessions : ~Active(o)'
      BY <1>2, <2>1 DEF Active
    <2>6. QED
      BY <1>4, <2>3, <2>4, <2>5 DEF Orderly
  <1>11. QED
    BY <1>6, <1>7, <1>8, <1>9, <1>10 DEF Finalize

LEMMA StepOrderly ==
  ASSUME OrderInv, [Next]_vars, mishaps' = {}
  PROVE  Orderly'
  <1>1. TypeOK /\ Bookkeeping /\ None \notin Names
    BY NameAssumption DEF OrderInv, SafeInv
  <1>2. mishaps = {} => Orderly
    BY DEF OrderInv
  <1>3. CASE Restore
    <2>1. Orderly /\ Idle
      BY <1>1, <1>2, <1>3 DEF Restore, Bookkeeping
    <2>2. Stored
      BY <2>1 DEF Orderly
    <2>3. hostfile' = saved.host /\ host' = NameOf(hostfile')
      BY <1>1, <1>3, <2>2, UnpackedSaved DEF Restore, NameOf
    <2>4. UNCHANGED <<boot, saved, pc>>
      BY <1>3 DEF Restore, disk
    <2>5. Stored' /\ Idle' /\ \A s \in Sessions : ~Active(s)'
      BY <2>1, <2>2, <2>4 DEF Stored, NoTarball, OnlyTarball, Idle, Active
    <2>6. QED
      BY <2>3, <2>4, <2>5 DEF Orderly
  <1>4. CASE SshKey \/ UNCHANGED vars
    <2>1. /\ UNCHANGED <<host, hostfile, mounted, boot, pc, old, open, packed, saved>>
          /\ mishaps' = mishaps /\ (power' = "off" => power = "off")
          /\ (power = "off" => power' = "off")
      BY <1>4 DEF SshKey, vars, ram, disk
    <2>2. Orderly
      BY <1>2, <2>1
    <2>3. (Stored <=> Stored') /\ (Idle <=> Idle')
          /\ \A s \in Sessions : (Active(s) <=> Active(s)') /\ (Progress(s) => Progress(s)')
      BY <2>1 DEF Stored, NoTarball, OnlyTarball, Idle, Active, Progress
    <2>4. QED
      BY <2>1, <2>2, <2>3 DEF Orderly
  <1>5. ASSUME NEW s \in Sessions, NEW next \in {"dialogue", "remove"},
               Prepare(s, next), power # "off"
        PROVE  Orderly'
    <2>1. mishaps = {} /\ Overlap(s) = {} /\ ~Active(s)
      BY <1>5 DEF Prepare
    <2>2. Idle
      BY <2>1 DEF Overlap, Idle
    <2>3. Orderly /\ Stored /\ host = NameOf(saved.host)
      BY <1>2, <1>5, <2>1, <2>2 DEF Orderly
    <2>4. /\ UNCHANGED <<host, hostfile, boot, saved>> /\ mounted'
          /\ old'[s] = host /\ pc'[s] = next
          /\ \A o \in Sessions \ {s} : pc'[o] = pc[o]
      BY <1>1, <1>5 DEF Prepare, TypeOK, ram
    <2>5. Stored' /\ old'[s] = NameOf(saved'.host)
      BY <2>3, <2>4 DEF Stored, NoTarball, OnlyTarball
    <2>6. Progress(s)'
      BY <2>4, <2>5 DEF Progress
    <2>7. ~Idle' /\ \A o \in Sessions : Active(o)' => o = s
      BY <2>2, <2>4 DEF Idle, Active
    <2>8. QED
      BY <2>3, <2>4, <2>6, <2>7 DEF Orderly
  <1>6. CASE RcSave
    BY <1>5, <1>6 DEF RcSave, Sessions
  <1>7. CASE \E s \in Logins : Sysconfig(s)
    <2>1. PICK s \in Sessions : Sysconfig(s)
      BY <1>7 DEF Sessions
    <2>2. power # "off"
      BY <2>1 DEF Sysconfig, LoginAllowed
    <2>3. QED
      BY <1>5, <2>1, <2>2 DEF Sysconfig
  <1>8. CASE Lease
    BY <1>8 DEF Lease
  <1>9. ASSUME NEW s \in Sessions, Dialogue(s) PROVE Orderly'
    <2>1. mishaps' = mishaps
      BY <1>9 DEF Dialogue, KeepHostname, AskHostname, ChangeSettings, EndDialogue
    <2>2. QED
      BY <1>2, <1>9, <2>1, DialogueOrderly
  <1>10. ASSUME NEW s \in Sessions, Finalize(s) PROVE Orderly'
    <2>1. mishaps' = mishaps
      BY <1>10 DEF Finalize, RemoveTarball, CreateTarball, WriteTarball, Sync, Umount
    <2>2. QED
      BY <1>2, <1>10, <2>1, FinalizeOrderly
  <1>11. ASSUME Orderly, Stored, Reset, UNCHANGED <<boot, saved>> PROVE Orderly'
    <2>1. host' = NameOf(hostfile') /\ power' = "off" /\ \A s \in Sessions : ~Active(s)'
      BY <1>11 DEF Reset, NameOf, Active
    <2>2. Stored'
      BY <1>11 DEF Stored, NoTarball, OnlyTarball
    <2>3. QED
      BY <2>1, <2>2 DEF Orderly
  <1>12. CASE Reboot
    <2>1. Idle /\ mishaps = {}
      BY <1>12 DEF Reboot, Killed, Idle
    <2>2. \A s \in Sessions : open[s] = None
      BY <1>1, <2>1 DEF Bookkeeping, Idle, Active
    <2>3. \A n \in Names : LeftOver(n, Sessions) = {boot[n]}
      BY <1>1, <2>2 DEF LeftOver
    <2>4. \A n \in Names : boot'[n] = boot[n]
      BY <1>12, <2>3 DEF Reboot, Killed
    <2>5. boot' = boot
      <3>1. \E A : boot' \in [Names -> A]
        BY <1>12 DEF Reboot, Killed
      <3>2. QED
        BY <1>1, <2>4, <3>1 DEF TypeOK
    <2>6. QED
      BY <1>2, <1>11, <1>12, <2>1, <2>5 DEF Reboot, Orderly
  <1>13. CASE PowerCut
    <2>1. mishaps = {} /\ \A s \in Sessions : ~Finalizing(s)
      BY <1>13 DEF PowerCut
    <2>2. Orderly /\ Stored
      BY <1>2, <2>1 DEF Orderly, Idle, Progress, Finalizing
    <2>3. dirty = {}
      BY <2>1 DEF OrderInv, SafeInv, DirtyOwned, Recorded, Finalizing, Writing
    <2>4. \A n \in Names : AfterCut(n) = {boot[n]}
      BY <2>3 DEF AfterCut, OrderInv, SafeInv, CardAgrees
    <2>5. boot' = boot
      <3>1. boot \in [Names -> Archives \cup {None}]
        BY <1>1 DEF TypeOK
      <3>2. DOMAIN boot' = Names /\ \A n \in Names : boot'[n] = boot[n]
        BY <1>13, <2>4 DEF PowerCut
      <3>3. \E S : boot' \in [Names -> S]
        BY <1>13 DEF PowerCut
      <3>4. QED
        BY <3>1, <3>2, <3>3
    <2>6. QED
      BY <1>11, <1>13, <2>2, <2>5 DEF PowerCut
  <1>14. CASE \E s \in Logins : Interrupt(s)
    BY <1>14 DEF Interrupt, Killed
  <1>15. QED
    BY <1>3, <1>4, <1>6, <1>7, <1>8, <1>9, <1>10, <1>12, <1>13, <1>14 DEF Next, Sessions

LEMMA StepOrder == OrderInv /\ [Next]_vars => OrderInv'
  BY NextSafe, StepBookkeeping, StepOrderly DEF OrderInv

\* There is at most one tarball as long as nothing has come in the way of a
\* sysconfig (a power cut, a lease, a second sysconfig or an interrupt), for
\* any logins, host names and changes of name: to remove oldhostname's is
\* enough (Finalize).
THEOREM AlwaysOneTarball == Spec => []OneTarball
  <1>1. OrderInv => OneTarball
    BY DEF OrderInv, Orderly, Stored, NoTarball, OnlyTarball, OneTarball
  <1>2. QED
    BY OrderInit, StepOrder, <1>1, PTL DEF Spec

\* A boot then brings back exactly what the last sysconfig saved, however often
\* the host was renamed and the power went outside Finalize (rc, sysconfig).
THEOREM AlwaysRestoresSaved == Spec => RestoresSaved
  <1>1. OrderInv /\ [Next]_vars =>
          [Boots /\ mishaps = {} => hostfile' = saved.host /\ conf' = saved.conf]_vars
    <2> SUFFICES ASSUME OrderInv, Next, Boots, mishaps = {}
                 PROVE  hostfile' = saved.host /\ conf' = saved.conf
      OBVIOUS
    <2>1. Restore
      BY DEF Next, SshKey, RcSave, Lease, Reboot, PowerCut, Reset, Sysconfig, Dialogue,
         KeepHostname, AskHostname, ChangeSettings, EndDialogue, Finalize, RemoveTarball,
         CreateTarball, WriteTarball, Sync, Umount, Interrupt, Boots
    <2>2. Stored /\ TypeOK /\ Bookkeeping
      BY DEF OrderInv, Orderly, Bookkeeping, SafeInv, Boots
    <2>3. QED
      BY <2>1, <2>2, UnpackedSaved DEF Restore
  <1>2. QED
    BY OrderInit, StepOrder, <1>1, PTL DEF Spec, RestoresSaved
=============================================================================
