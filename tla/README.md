# A TLA+ model of MuntsOS

MuntsOS is an embedded Linux distribution for small boards (Raspberry Pi,
BeagleBone). Its root file system lives in RAM; what makes it MuntsOS is a set
of shell scripts and small C programs in `src/bootkernel/initramfs/` that bring
up network interfaces, keep a configuration on a flash card, announce the
target by multicast DNS and install extensions, plus servers in
`src/extensions/` that give remote programs access to the hardware. Nearly all
the rest of the repository is kernel configurations, patches, make files,
examples in a dozen languages and programs of other projects.

The scripts look sequential, but they are not: every one of them is started by
some other process (init, mdev, ifplugd, udhcpc, a login), at moments nobody
chose, and they talk to each other through files without locks. That is what
the modules here are about.

Contents: [inventory](#inventory), [modules](#modules),
[runs](#runs), [fairness](#fairness), [findings](#findings),
[proofs](#proofs), [what is not modelled](#what-is-not-modelled),
[plan](#plan).

## Inventory

Paths are relative to `src/`; `I/` is `bootkernel/initramfs/`, `G/` is
`extensions/gpio-server/`, `M/` is `G/http/mongoose/`.

### Network interface life cycle: `I/netstart.script`, `I/netstop.script`, `I/udhcpc.script`, `I/ifplugd.script`, `I/netconfig`, `I/mdnsd.c`

- State: the link beat, the address of the interface, the processes that serve
  it (`mdnsd`, `udhcpc`, `udhcpd`) and the pid files `/var/run/<daemon>.<if>.pid`.
- Operations: ifplugd (or a user's `netconfig`) runs `ifplugd.script up|down`,
  which runs `netstart.script` or `netstop.script`. `netstart.script` sets an
  address and starts `mdnsd`, or starts `udhcpc`, which runs `udhcpc.script`
  with `deconfig` or `bound`. `netstop.script` kills what the pid files name.
- Interaction: only by pid files, signals and the kernel's interface state.
- Hard: daemons fork before they write their pid file; `udhcpc -b` forks after it
  has written one, and writes another; pids are used again; an event script
  outlives the `udhcpc` that runs it; two runners share everything.
- Correct when: a pid file never leads `kill -9` to a stranger, there is one
  DHCP client, the address that stays is announced, a stop leaves nothing, the
  address follows the link, and no script hangs. Where ifplugd has no down delay
  the first two are not true of the code: a stop may overtake the fork.

### Configuration save and restore: `I/sysconfig`, `I/rc`

- State: the files named in `/etc/changes.manifest` (in RAM), the tarballs in
  `/boot/tarballs` (one per host name), the mount of `/boot`, the page cache.
- Operations: `rc` unpacks all tarballs at boot, makes an SSH key and runs
  `sysconfig --save`; users run `sysconfig` and answer its dialogue; `Prepare`
  mounts, `Finalize` removes the old tarball, writes the new one, syncs and
  unmounts; the last question reboots.
- Interaction: through the host name, which `udhcpc.script` changes too, and
  through `/boot`, which every sysconfig mounts and unmounts.
- Hard: power cuts at any step, two sysconfigs at once, a name that changes in
  between, a script without a `trap` that Ctrl-C or a lost login ends anywhere, the
  order in which a later boot unpacks the tarballs.
- Correct when: a boot brings back what was saved last, and an idle system has
  nothing left to lose, unless one of these has come in the way.

### GPIO servers: `G/onc-rpc/gpio_server_oncrpc.c`, `G/xml-rpc/gpio_server_xmlrpc.c`, `G/http/gpio_server_http.c`, `M/mongoose.c`, `G/platform.c`

- State: `fdtable`, the file descriptor of every open pin; in the kernel, the
  direction and the level of the pins. The HTTP server: mongoose's list of
  connections with their buffers, and one `DoneFlag` for all of them.
- Operations: `open`, `close`, `read` and `write` of a pin. The HTTP server opens
  and closes the pin in every request, inside mongoose's `select` loop.
- Interaction: remote programs call by ONC-RPC over UDP, XML-RPC over TCP or
  HTTP; all ask `platform.c` whether the board has the pin.
- Hard: calls are repeated and lost on the way; the library may fail; the
  process has a limited number of descriptors; entries outlive their clients;
  bytes of a request come in any pieces, and a socket may be closed between two
  passes of one turn of the loop.
- Correct when: the table is true of the descriptors, what a client has been
  told of its own pin stays true, and every connection is answered and ends.

### mDNS responder library: `I/libmdns/mdnsd.c`, `I/libmdns/mdns.c`

- State: the group of records, the services, the list of records to announce,
  a notify pipe, the thread's stop flag, a mutex.
- Operations: start, set the host name, add a record, register a service, stop;
  the thread waits for packets, answers queries, announces and says goodbye.
- Interaction: `I/mdnsd.c` calls it; packets come from the network.
- Hard: the thread walks lists other threads extend, with the mutex released
  between steps; the stop protocol over pipe and flag; names are compressed by
  pointers to what was written before.
- Correct when: every registered service is announced, the goodbye takes back
  all of them, every packet is complete and readable, and stop ends the thread.

### Boot and hot plug: `I/rc`, `I/mdev-helper-net`, `I/mdev.conf`, part of `I/sysconfig`

- State: the extensions on the card, what is installed in RAM, the pid files of
  `ifplugd` and `wpa_supplicant`, mdev's queue of kernel events.
- Operations: `rc` starts mdev, mounts the card, unpacks tarballs, installs
  extensions, loads a driver, waits for its interface, sends every interface's
  event again. The helper's `add` starts what an interface needs, `remove` kills
  it. `sysconfig` downloads an extension over the old one.
- Interaction: mdev runs the helper for kernel events, one at a time; `rc` runs
  `nupkg` on each package.
- Hard: check-then-act on pid files, `WaitForFile`, which waits for ever, events
  lost before mdev or `/etc/platform` is there, and power cuts in a download.
- Correct when: one ifplugd watches each interface that is there, none one that
  is gone, and a failed download does no harm.

### Extension installer: `I/nupkg.src/main.c`, `I/nupkg.src/unzip.c`

- State: the position in the archive, the files written so far.
- Operations: open and search the archive, remove the old directory, copy
  entries, write a helper script, exit at some of the errors.
- Hard: an archive cut short or damaged anywhere; errors that end a copy silently;
  two versions of one application on a card.
- Correct when: what is installed is whole, or an error message says otherwise.

### Dynamic DNS client: `extensions/noip2/noip2.c`, `extensions/noip2/startup`

- State: a table in shared memory with one slot for each daemon, the configuration
  file with the last address in it, the service's record of the address.
- Operations: find a slot, loop over check and update, end on SIGTERM and
  save the address; `-K` ends another daemon.
- Hard: the start-up script starts all daemons at once and nothing guards the
  table; a killed daemon leaves its slot; a reply may be lost.
- Correct when: daemons do not share a slot, what a slot remembers is what the
  service has, and the service gets the address in the end.

### Smaller parts

- Missile launcher server (`extensions/missile-server/`): one USB device behind
  ONC-RPC. Calls are not idempotent there, so repetition matters.
- Helpers (`I/entropypump.c`, `I/autoexec.script`, `I/force-umount.c`).
- Boot loader, kernel and tool chain builds; examples and client libraries.

The hazards of all of these, each at its line, are in `PROJECT.json`.

## Modules

| Module | Models | Extends |
| --- | --- | --- |
| `NetInterface` | one interface, its scripts, daemons and pid files | `Naturals` |
| `MCNetInterface` | pids as model values, symmetry | `NetInterface` |
| `NetInterfaceProofs` | types, pid files, clients, the address announced, a clean stop | `NetInterface` |
| `ConfigSave` | sysconfig, rc, the flash card, power cuts | `Naturals` |
| `ConfigSaveProofs` | types, the safety of an idle system, one tarball, what a boot brings back | `ConfigSave` |
| `GpioPlatform` | the pins of each board | `Integers`, `Sequences` |
| `GpioServer` | ONC-RPC and XML-RPC server, clients, network | `GpioPlatform` |
| `MCGpioServer` | two programs for TLC | `GpioServer` |
| `GpioServerProofs` | types, the truth of `fdtable`, what a client knows | `GpioServer` |
| `HttpServer` | HTTP server and mongoose's loop | community modules |
| `MCHttpServer` | four clients for TLC | `HttpServer` |
| `HttpServerProofs` | types, replies before closes, what closes a waiting connection, no reply without its request | `HttpServer` |
| `MdnsWire` | records, name compression, parsing | `SequencesExt` |
| `ServiceDirectory` | abstract: what a responder promises its network | |
| `MdnsServer` | the responder's thread and its program | `MdnsWire`, instance of `ServiceDirectory` |
| `MCMdnsServer` | the two programs that use libmdns, a network | `MdnsServer` |
| `MdnsServerProofs` | the stop protocol, types, the refinement of `ServiceDirectory`, complete replies, the wire | `MdnsServer` |
| `Noip2`, `MCNoip2` | noip2's daemons, the table, the service | community modules |
| `Noip2Proofs` | types, the search for a slot, what a slot remembers | `Noip2` |
| `Faults` | the bound on mishaps the next four share | `Naturals` |
| `ZipReader` | `unzip.c`, as far as nupkg uses it | `Integers`, `Sequences` |
| `ZipReaderProofs` | what the reader opens, walks through and delivers, for any archive | `ZipReader` |
| `Nupkg` | nupkg, step by step | `ZipReader`, `Faults`, `Functions` |
| `HotPlug` | mdev, mdev-helper-net, its daemons | `Faults` |
| `Boot`, `MCBoot` | rc, sysconfig's download and power cuts; composes the two above | `Nupkg`, `HotPlug` |
| `BootProofs` | types, one ifplugd for each interface, what is installed, what stays on the card | `Boot`, `ZipReaderProofs` |

Operators called "Mutant" in a module are plausible bugs, each a variation of
the definition that follows it; no specification uses them. `PROJECT.json` pairs
each with the property that it breaks.

### NetInterface

`proc` is the process table: a process is its kind, its progress, the address
it was given and the process that waits for it. `pidfile` holds the pid files
under `/var/run`, named by their daemon, plus `mdnsd.deconfig.pid`, the file
`udhcpc.script` looks for by mistake. `pc` and `target` say where each runner is
in the scripts. One action is one shell command, or one stage of a daemon:

| Action | Code |
| --- | --- |
| `LinkChange`, `IfplugdRun` | the cable; ifplugd polls, then waits for its script |
| `Netconfig`, `NetconfigUp` | `netconfig` edits the settings, runs down, sleeps, runs up |
| `StartBranch` .. `StartDone` | `netstart.script`, by its three branches |
| `StopKill`, `StopRemove`, `StopIfconfig` | `netstop.script`: kill, rm, per daemon; ifconfig down |
| `MdnsdJoin`, `WritePidFile` | `mdnsd` after `daemon()`: join the group or exit, write the file |
| `UdhcpcBegin`, `Lease`, `LeaseLost` | BusyBox udhcpc, from how the scripts use it |
| `UdhcpcBackground`, `RewritePidFile` | `udhcpc -b` forks, the parent exits; the child writes its own pid |
| `DeconfigKill` .. `BoundMdnsd` | `udhcpc.script`, command by command |

A pid returns to `Free` when its process dies, so a stale pid file may come to
name somebody else. `kill -9` of a process leaves its event script running, with
`NoPid` as its parent, as the kernel does (`Gone`).

`udhcpc` is started in the foreground, writes its pid file, and goes to the
background at its first lease or, with `-b`, when none comes. It does so by
forking: `netstart.script` was waiting for the parent, which exits, and the child
has a new pid. Until the child has written it (`Unwritten`), the file names a pid
that is free, and ifplugd is free too. A stop in this window kills nobody, or a
stranger that has been given the pid; the child, which it could not find, lives
on and the next start makes a second client. `overtaken` records that a stop
has done so. It is history: no guard reads it, and the properties that are
lost by it name it (`Excused`).

`DownDelay` says whether ifplugd's down delay is longer than a daemon takes to
start: with it, ifplugd acts on a lost link only when nothing is starting and no
client has still to write its pid, which is the normal case on a target; without it
the model interleaves freely. Properties say which they need.

### ConfigSave

The configuration is two files: `/etc/hostname`, and `conf`, one version number
for everything else in the manifest (0 as shipped, 1 with an SSH key). `boot` is
what the file system shows, `card` what the flash card holds, and `dirty` the
tarballs in which they may differ. A tarball is what it holds of the two files;
`Torn` gives what is left of one that was cut short (tar packs in sorted order,
so `/etc/hostname` may be there without the rest). Names are numbers because the
order in which the shell expands `/boot/tarballs/*gz` decides which one wins.

`Prepare`, `KeepHostname` .. `EndDialogue`, `RemoveTarball`, `CreateTarball`,
`WriteTarball`, `Sync` and `Umount` follow `sysconfig`; every session, rc's
included, has its own `pc`, `old` (the `oldhostname` of the script) and `open`
(the tarball its tar writes). `Restore`, `SshKey` and `RcSave` follow `rc`.
`Lease` is the `hostname` command in `udhcpc.script`. `PowerCut` leaves of every
dirty tarball any of: what was on the card, nothing, or a part of the new one.

`sysconfig` has no `trap`. `Interrupt` is Ctrl-C, or a login that is cut off, at any
step of a session, in the dialogue or in `Finalize`: the script ends where it is,
`/boot` stays mounted, the host keeps a name it may just have been given, and a tar
that was writing leaves a torn tarball. rc's own sysconfig has no terminal and is not
interrupted. `Reboot` does the same to all other logins, and then syncs, because
init kills what runs and unmounts. A `umount` that succeeds writes back what others
have left dirty.

`saved`, `packed`, `mishaps` and `abandoned` are history: the files as the last
sysconfig's tar found them; which of the four things that may come in a
sysconfig's way have happened (a power cut in `Finalize`, a lease that renames the
host, a second sysconfig, an interrupt); and whether, since `/boot` was last
unmounted, a sysconfig was interrupted. The properties use them to say under
which circumstances they hold; no action's guard reads them.

### GpioServer

`fdtable` is the server's table, `files` the kernel's view of the process's
descriptors, `direction` and `level` the pins. `gpio_open`, `gpio_close`,
`gpio_read` and `gpio_write` are the handlers, with the result as a parameter;
`Server` selects what the two servers do differently. `GpioConfigure`,
`GpioFree` and `IsOpen` are libsimpleio and the kernel. A failing `GPIO_open`
leaves -1 where it was told to store the descriptor.

A client makes the calls of its `Program` in any order, one at a time. Over UDP
its RPC library may send a call again (`Retransmit`), any copy may get lost
(`LoseCall`), an answer may be ignored (the same as lost), and a call may be
given up (`GiveUp`) and served later all the same. `known` is what a client may
believe of each pin from the answers it took.

`GpioPlatform` has the bit table of `platform.c` as it is, with its bit order.
Servers on a board that is not in it (BeaglePlay, OrangePiZero2W) end at once, and a
pin of 128 or more counts as valid on any board.

### MdnsWire, ServiceDirectory and MdnsServer

`MdnsWire` keeps a packet as a sequence of cells: a label, the root, a
compression pointer or a field of fixed width. `EncodeName`, `EncodeRR` and
`EncodePkt` write it with a table of suffixes, `UncompressName` and `ParseRR` read
it. The 14 bits of a pointer are the constant `PointerLimit`.

`MdnsServer` has two processes. The program's calls are `SetHostname`, `AddRR`,
`RegisterSvc` (the lists, under the mutex) followed by `NotifyServer` (the byte in
the pipe), and `StopServer`, `WakeServer`, `FreeServer`. The thread's steps are the
sections between two releases of the mutex, with `pc` naming the place in
`main_loop`: `CheckStop`, `Woken`, `Receive`, `Question`, `SuppressKnown`, one
`AddRelated` for each lookup, `Send`, the announcement and the goodbye. `zeroed`
holds the records whose lifetime the goodbye has set to 0. A failing `recvfrom`
parses what the buffer held once more, its own last packet included.

`ServiceDirectory` is the abstract specification: services are registered, the
network is told of registered ones only, and leaving takes back all of it. The
refinement maps `registered` to the owners in `services` and `up` to the thread
not having ended; TLC checks the instance as a property.

### HttpServer

A client sends a script of pieces, each a few tokens: `head`, the end of a header
without (`end`) or with (`endb`) a body, `body`, `junk`. `k` is the server's
record of each connection, `order` the list that every pass of `ns_mgr_poll`
walks. A turn of the loop is the first pass (`PollOne`, where `DoneFlag` and the
idle timeout close connections and the descriptor sets are filled), `Select`,
the second pass (`Accept`, reading, writing) and the pass that closes, one
connection a step, as `ns_mgr_free` does at the end.
`leaks` counts descriptors of pins that a failed read or write left open.
A request that is too long, invalid or needs a length is one kind, `junk`.
`mg_set_option`'s error is ignored by `main`: a server that cannot bind its port
runs without a listener.

### Noip2

`slots` is the table in shared memory, `proc` the daemons: `Start` (parse the
configuration and fork), in the child `Count` (the attached), `Attach` with
`FindSlot`, and `Claim`, then the loop of
`CheckWith`, `Updated` or one of the failures, and the end with `save_IP`. A daemon
that finds no slot writes through a null pointer: `crashed`. `met` and `unsure`
are history: daemons that shared a slot, and those whose reply was lost. The service
refuses what it does not know (outside `Known`) and any address in `Private`; both
count as done for the daemon, so its slot then holds what the service has not.
`FORCE_UPDATE` is 0 in this build, so a forced update does nothing.

### ZipReader, Nupkg, HotPlug and Boot

An archive is its entries with sizes, a comment, what is in front of it or
missing there, its actual length and one place of damage. `ZipReader` computes
offsets, so that a file cut short fails where `unzip.c` would read past its end:
the search for the end record in windows from the back, Zip64's locator and
record, the directory, local headers, reads of the data.

`Nupkg` is `main()`: clear the directory, go through the entries, copy each, write
the helper script. `files` holds for every path the package and version it came
from and whether it is what was packed.

`HotPlug` has mdev take one event at a time and run the helper to its end, step by
step; daemons write their pid files, and remove them when killed, in their own
time. `Boot` composes both with `rc`'s steps, sysconfig's download (`.new`, then
`mv`, synced only by the `umount`) and `PowerCut`, which keeps what is on `flash` and
of every file not yet there any of: the old, the new, a part of the new.

## Runs

| Run | Module | Checks | Distinct states |
| --- | --- | --- | --- |
| `net_static` | `MCNetInterface` | `TypeOK`, `StoppedClean`, `FollowsLink` | 996 |
| `net_dhcp` | `MCNetInterface` | `AtMostOneDhcpClient`, `PidFilesAreTrue`, `ScriptsFinish` | 253842 |
| `net_netconfig` | `MCNetInterface` | `AdvertisesAddress` | 546438 |
| `cfg_save` | `ConfigSave` | `TypeOK`, `OneTarball`, `IdleIsSafe`, `RestoresSaved` | 4975050 |
| `gpio_oncrpc` | `MCGpioServer` | `TypeOK`, `TableIsTrue`, `ClientKnows` | 498950 |
| `mdns_server` | `MCMdnsServer` | `TypeOK`, `ReplyIsComplete`, `WireIsFaithful`, `FreedOnlyWhenDone`, `KeepsDirectory`, `AnnouncesAll`, `StopReturns` | 59527 |
| `http_server` | `MCHttpServer` | `TypeOK`, `NoReplyWithoutRequest`, `ReplyBeforeClose`, `CutUsesTheFlag`, `EveryConnectionEnds`, `EveryClientAccepted`, `StopsOnSigterm` | 210344 |
| `noip2` | `MCNoip2` | `TypeOK`, `SharedSlotOnlyAfterRace`, `KnowsService`, `DetectsRunning`, `StopsOnTerm`, `Converges` | 87848 |
| `boot` | `MCBoot` | `TypeOK`, `NoPartialPackage`, `HelperMeansComplete`, `FailedDownloadKeepsExtension`, `OneWatcher`, `WatchersFollowInterfaces` | 210204 |
| `net_leak`, `cfg_powercut`, `gpio_xmlrpc` | | one property each, violated | see [findings](#findings) |

What they show, and why the bounds are enough:

- `net_static`: an interface with its own settings, or a USB gadget with a
  DHCP server. After a stop no daemon is left, and the address follows the link
  in the end. Five changes of the link are two full cycles and a half; four pids
  are more than the daemons of two generations that can be alive together.
- `net_dhcp`: an interface left to udhcpc, every interleaving (`DownDelay` is
  FALSE). A start, a stop and one more start is the shortest history in which a
  stale pid file could meet a pid used again, or a forgotten client a second one;
  four changes of the link are two such cycles, and five pids leave one to reuse
  while a client, the child it forks, its script and an mdnsd live. The two invariants
  hold until a stop overtakes a forking client; without that excuse TLC finds
  the file that names a stranger and the two clients. That no answer may ever come
  from a DHCP server is part of every behaviour. Leases are not lost here, because
  symmetry is not sound for `ScriptsFinish`; with six pids, symmetry and a lease
  lost the invariants hold as well, in 22320 states, and the theorems bound neither.
  With the down delay no stop overtakes anything (3695 states), as
  `DelayIsEnough` proves.
- `net_netconfig`: ifplugd and netconfig at once, settings edited in between, a
  lease lost, and two leases so that an old and a new address differ. The
  address that remains is announced. The invariant only looks at states in which
  both runners rest and nothing is starting. It does not say that a stop leaves no
  address: the event script of a killed udhcpc may set one. Six pids are
  enough that none of these histories has to wait for one.
- `cfg_save`: one login beside rc, one lease, one cut, an interrupt of either use of
  sysconfig at any step. Two sysconfigs
  suffice to overlap any two steps of two sessions, and for one that follows
  an interrupted one; two names are
  enough for a rename and for a wrong order. `OneTarball` and `RestoresSaved`
  hold while none of the four mishaps has happened. None of the exceptions is idle:
  with the interrupt alone allowed TLC finds the two tarballs (rename, Ctrl-C, a
  complete sysconfig). `IdleIsSafe` holds with any mishaps, except from an
  interrupt to the next `umount` that succeeds: until then `/boot` may be mounted,
  and dirty, with no sysconfig there.
- `gpio_oncrpc`: c1 has one pin to itself but for c2's reads; c2 opens a pin that
  c1 closes; another is not on the board. Three calls of c1, each sent twice, are
  open, change, change, or open, close, open; two descriptors and one
  failure of the library let every branch of `gpio_open` happen. One call of
  c2 is enough to take or read what c1 uses.
- `mdns_server`: `testmdnsd.c` with a second service, and `mdnsd.c`. Two packets
  from the network, among them a browser that knows one service fresh and one
  nearly expired, a resolver with unicast and multicast questions, and a response;
  one failing `recvfrom`. Two services of one type are enough for one to be
  registered while the other is announced or answered. The buffer stays below
  `PointerLimit`: in a longer packet a pointer may be wrong (with the limit at 20
  cells TLC finds a packet that is read wrong).
- `http_server`: two connections and two descriptors of which failed requests may
  take both; a whole request, two in one piece and a third behind them, one with a
  body in three pieces, a malformed one, with and without keep-alive. Two connections are what one
  `DoneFlag` needs to hit the wrong one. `CutUsesTheFlag` and `EveryClientAccepted`
  state exactly how far the flag and the lost descriptors reach.
- `noip2`: three daemons of two configurations and one of a broken one, two slots of
  which one may be a killed daemon's, two addresses of which the service refuses
  one. One event (a kill, a failed start, a new
  address, a lost reply, a disabled client) is what the liveness properties can
  be checked with in minutes; with two the invariants hold as well in 322368
  states.
- `boot`: a card with one or two versions of an application, one mishap of any
  kind: five kinds of damage in each place, a cut in each part, a write or
  download that fails, an error page, a missing device, an unplugged interface, a
  daemon that does not start, a power cut. Two interfaces, one with a driver that
  rc loads. Packages with Zip64 come whole, cut in the plain end record that is
  then not read, and cut before it; error pages come from a server and on the
  card. Buffers are scaled down so that every loop runs twice; two assumptions
  of `MCBoot` compare the search by windows with its definition, and opening with
  being whole, over all comments and cuts of a range. `OneWatcher` has two parts:
  `AtMostOneWatcher`, and `WatchedWhenHandled`, which says that an interface of which
  no event is queued or at work has its ifplugd if it is there and none if it is gone;
  `WatchersFollowInterfaces` adds that the events do get handled. With two mishaps
  of any kind and one package both parts hold as well, in 1865639 states.

Deadlock is checked in `NetInterface`, `GpioServer` and `ConfigSave`: in the first
the step `Rest` is there when no script runs and nothing is starting, in the
second `Done` when all programs have ended; a `ConfigSave` that is up can
reboot. `HttpServer` has `Terminated` once the server has ended, `Noip2` has
`AllOver` once every daemon has. In `mdns_server` and `boot` the system may
really stop: the program has ended, or rc waits for a device that is not there.

## Fairness

- `NetInterface`: weak fairness is
  assumed of each runner's script, of each starting daemon, of each event script
  and of udhcpc's own steps, because the kernel schedules every runnable process;
  of `IfplugdRun`, because ifplugd polls in a loop; and of `NetconfigUp`, because
  `sleep 1` returns. `UdhcpcBackground` and `RewritePidFile` are under weak fairness
  together with `UdhcpcBegin`: `-b` is a promise of udhcpc to give up waiting after
  some tries. Nothing is assumed of the cable (`LinkChange`), of the DHCP server
  (`Lease`, `LeaseLost`) or of the user (`Netconfig`). `ScriptsFinish` therefore
  holds without any DHCP server and its mutant, udhcpc without `-b`, breaks it.
- `MdnsServer`: the thread as a whole, and a call that has begun. Whether the program
  calls again, or any packet comes, is left open: `AnnouncesAll` and `StopReturns`
  rest on the pipe alone.
- `HttpServer`: the loop, and the idle timeout of a connection that is silent. Nothing
  is assumed of clients, so `EveryConnectionEnds` counts on the timeout.
- `Noip2`: the daemons whose configuration is not broken are scheduled, and, by strong
  fairness, one that asks for its address or asks the service again and again gets
  an answer in the end: a service that never answers could not converge. Address
  changes are free; `Converges` asks for an address that stays.
- `Boot`: rc, nupkg, mdev, each daemon's own way to its pid file and out, and the
  kernel's event for an interface that is there. Nothing is assumed of users, and
  no device needs to appear.

## Findings

- `net_leak` (`I/udhcpc.script:29`): on `deconfig` the script looks for
  `/var/run/mdnsd.$1.pid`, but `$1` is the event and the interface is in
  `$interface`. The mdnsd of a lost lease lives on, the next one overwrites the
  pid file, and a later stop leaves the first running with the old address.
- `cfg_powercut` (`I/sysconfig:596`): the old tarball is removed before the new
  one is written and synced. A power cut in between boots the factory
  configuration, and rc opens this window at every boot (`I/rc:475`).
- `gpio_xmlrpc` (`G/xml-rpc/gpio_server_xmlrpc.c:87`): a failed `GPIO_open` leaves
  -1 in the table, so the next open answers 0 for a pin that is not open. The
  ONC-RPC server resets the entry.

What the other modules had to be written around, each line read in the code:

- Interfaces: `udhcpc -b` (`I/netstart.script:88`) returns before its child has
  written its pid, and nothing waits for that: without a down delay a stop can miss
  the client, or hit another process. `PidFilesAreTrue` and `AtMostOneDhcpClient`
  except it by name.
- Configuration: if a DHCP server renames the host while sysconfig runs
  (`I/sysconfig:605`), the old tarball is removed by one name and the new one
  written by another; the name, not the age, decides which wins. A login that
  runs sysconfig beside rc's own can leave no tarball at all (`I/sysconfig:609`).
  A sysconfig that is interrupted after it renamed the host (`I/sysconfig:217`) leaves
  `/boot` mounted and the next one with the wrong `oldhostname`.
  `OneTarball` and `RestoresSaved` exclude all three by name.
- HTTP: `M/mongoose.h:64` says of requests "Callback return value is ignored",
  but `mg_ev_handler` closes on it, and `DoneFlag` belongs to no connection: a
  request that was answered may cut another off. The rest of a pipelined
  request is lost with it, a client that half-closes gets no reply, a socket
  closed in the first pass makes `select` fail for that turn, and a failed read
  or write of a pin loses its descriptor.
- noip2: the search for a slot ends at the first empty one, so a daemon may be
  started twice; a full table of dead daemons leads to a null pointer; a host
  that the service refuses counts as success; a lost reply to an update and an
  address that changes back leave the service wrong; the access check before
  `save_IP` fails for the user it was written for.
- mDNS: of a second host name only the first string is replaced; the assertion
  that forbids it is compiled out.
- Boot: curl is not asked to fail on an error status, so an error page replaces a
  working extension; the `mv` is not synced, and a `.new` left by a power cut is
  copied to autoexec and run at the next boot. nupkg installs a file that was
  read short without a word, writes the helper script whether or not there
  is a program, and may leave an older helper over an emptied directory.
  unzip.c finds no end record behind a comment of more than 65513 bytes, and
  does not correct Zip64's offset for bytes in front. If an interface is unplugged
  while wpa_supplicant starts, the helper waits for ever; an old ifplugd that
  ends late removes its successor's pid file.

## Proofs

All theorems hold for every value of the constants that satisfies the modules'
named assumptions; the bounds are only assumed to be natural numbers. The less
obvious assumptions say what the code or its surroundings guarantee: a program
of libmdns makes pointers by `mdnsd_register_svc` only and calls nothing after
`mdnsd_stop` (`ProgramsAssumption`), its names are lists of labels, and a service
without a host of its own follows a call that sets one, as the assertion in
`mdnsd_register_svc` demands (`RecordsAssumption`); a download server has whole packages, a cut
file is still a file, and no package is named like a download in progress
(`CardsAssumption`); an HTTP client sends a body behind the header that announces
it (`BodiesAssumption`); `None` is none of the things it stands beside
(`ArchiveAssumption`, `NoneAssumption`). TLC evaluates each of them.

### Network interfaces

- `TypeCorrect`: `Spec => []TypeOK`.
- `PidFilesAlwaysTrue` and `NeverTwoDhcpClients`: `Serial /\ Spec` implies
  `[]PidFilesAreTrue` and `[]AtMostOneDhcpClient`, where `Serial` says that
  ifplugd alone runs the scripts. With netconfig as a second runner neither
  holds, and TLC finds the histories at once. Neither is inductive. `IInv` is
  `BaseInv`, which holds always, and `NamesInv`, which holds until a stop overtakes a
  forking client. `BaseInv` has that only clients wait for events
  (`ParentsAreClients`), that the script fits what ifplugd last saw
  (`ScriptFitsStatus`), that a script waits only for a client in the foreground
  (`WaitedFor`), and that nobody ever writes `mdnsd.deconfig.pid`
  (`NoDeconfigFile`): otherwise the mistaken kill on `deconfig` could hit anyone.
  `NamesInv` adds what a stop has done so far: which pid files the running
  `netstop.script` has already dealt with (`ClientCleared`, `ClearedMeansGone`,
  `KilledMeansNoClient`), and that every client is named by its file or has still to
  write it, in which case the file names its parent's free pid or whoever got that
  (`ClientsNamed`, `FilesNamed`, `UnwrittenIsClient`). The proof has one lemma per
  action.
- `DelayIsEnough`: `Serial /\ DownDelay /\ Spec => []~overtaken`. While
  a stop runs no client is on the way from its fork to its file (`Stopping`): at the
  beginning because ifplugd waited, and later because only a start makes a
  client that forks. With this the excuse in the two properties above is void.
- `AlwaysAdvertised`: `Spec => []AdvertisesAddress`, with any runners, all modes
  and any number of lost leases, where `net_netconfig` loses one. `Addressed` is the
  invariant: an address that is set has an mdnsd, or a script that will start
  it, or a running `netstop.script`, whose last step takes it away; a kill through
  a wrong pid file is always followed by that step.
- `AlwaysStoppedClean`: `Settled /\ Spec => []StoppedClean`, where `Settled` is what
  `net_static` has: `Serial`, `DownDelay` and no mode with udhcpc. Because ifplugd
  waits, every daemon runs and is in its pid file when the stop begins
  (`StopsRunning`, `RunningIsNamed`), so that each kill leaves none of its kind
  (`AbsentIsDead`). With udhcpc it is false: see `net_leak`.

### Configuration

- `AlwaysIdleIsSafe`: `Spec => []IdleIsSafe` for any number of logins, sysconfigs
  at once, leases and cuts. `SafeInv` adds that outside `dirty` the card agrees
  with `/boot` (`CardAgrees`), that something dirty has a session that has yet
  to sync (`DirtyOwned`), and a mount one that has yet to unmount (`MountOwned`),
  or else an interrupted sysconfig has abandoned them.
  The point of the argument is the last `umount`: it can only be refused by a
  tar that writes, whose session will unmount in its turn. One that succeeds
  settles what was abandoned, so that the exception ends there.
- `AlwaysOneTarball` and `AlwaysRestoresSaved`: both properties speak of a
  system in whose way nothing has come (`mishaps = {}`). `Orderly` says how
  orderly that is: one sysconfig at a time, the running host name that of the
  file, and, when nobody works, `/boot` holding either no tarball or exactly
  what was saved, under the name that the next `Prepare` will remove. `Progress`
  says how far the one sysconfig has come. That a boot restores what was saved
  then needs the name in the tarball to be the name of the tarball, which is why
  a lease that renames the host breaks it. A power cut outside Finalize is no mishap
  and is part of the statement.

### GPIO servers

- `TypeCorrect` needs to know that what waits in the socket was sent by a program
  (`OnlyCalls`), so that every call names an operation and a pin of the table.
- `TableAlwaysTrue`: for `Server = "onc-rpc"`, `Spec => []TableIsTrue`. The
  invariant is inductive on top of the types: descriptors and pins are a
  one-to-one correspondence, which an open extends by a free descriptor and an
  unused pin, and a close shrinks. A failed open keeps it only because the entry
  is reset; for the XML-RPC server the statement is false.
- `ClientAlwaysKnows`: for the same server, what a client believes of a pin that
  only it changes is true. The difficulty is the copies: a call may be served again
  after its answer was taken and later ones were served. `QueueInv` says that
  the socket keeps order, so that from the first copy of the pending call on there
  is nothing else; `Knowing` says that before the answer no other call on its way
  can disturb what is known (`Harmless`), and that once the call was answered every
  answer still to be taken tells the truth. It rests on `TableIsTrue`.
- `HttpServerProofs`: `TypeCorrect` contains that the active connections are the
  open ones, each once, and that connections and lost pins never exceed the
  descriptors. `AlwaysReplyBeforeClose` and `AlwaysCutUsesTheFlag` are action
  properties; `CloseReasons` gives the only ways in which a connection comes to
  be marked for closing: one that idles has nothing to send, `CLOSE` comes with the
  client's own end, and `FINISHED` with a reply, queued or written.
- `AlwaysReplyForRequest`: `Spec => []NoReplyWithoutRequest`. The invariant is an
  account for each connection (`Account`): what the server has taken of the client's
  stream ends with the receive buffer, and what is in front of the buffer pays for all
  replies so far and for the request that has been parsed. A header that is taken out
  moves its end over the line (`HeaderTaken`), an answer spends it, and
  `close_local_endpoint` must forget the request, the buffer and the count of bytes
  together, or the next reply would be paid from what is gone. A 200 for a request with a body
  is where `BodiesAssumption` is needed: what came behind its header must be its
  body. `Queue` says that the chunks in the socket are the last that were sent, in
  order. Streams are flattened sequences of chunks; their lemmas unfold
  `FlattenSeq` one chunk at a time and go up to a bound (`InductionUpTo`).

### mDNS

- `FreedOnlyWhenDoneAlways`: for every program, service and network, the lists
  are freed only when the thread is gone. The invariant adds
  that `stop_flag` 2 is set by nobody but the thread, in its last step.
- `NeverALostWakeUp`: whenever the thread is in `select`, or
  about to be, it has announced every service and seen a stop, or a byte is in the
  pipe, or the call that must write one has yet to do it. This is the safety core of
  `AnnouncesAll` and `StopReturns`, which only TLC checks.
- `TypeCorrect` and `ServesDirectory`: `Spec => KeepsDirectory`, the refinement of
  `ServiceDirectory`, steps and initial states. `Heard` is the heart of it:
  nobody has heard of a service whose pointer the goodbye will not take back,
  because every pointer in the group is in `services` before it is announced
  (`Pointers`), and no reply is made of records from outside the group (`Lists`).
  The lists are kept by folds and filters; a few lemmas give their members by
  induction up to a bound, with the predicate as a set.
- `RepliesAreComplete`: `InOrder /\ Spec => []ReplyIsComplete`. `InOrder` says that no
  call of a program adds what a record of an earlier call refers to: host name
  and addresses first, then services, as the programs of the tree do (`MCMdnsServer`
  has TLC evaluate it). It is needed: the thread looks up one record at a time, the
  program may add records in between, and with a program that adds an address after
  a service TLC finds a reply without it. `ReplyInv` says which call made each
  record (`Origin`), so that records of one service, which enter under one lock, are
  found together or not at all, and how far the lookups have come (`Pending`): what
  is in front of the current record is answered. A record put at the end is
  looked up in its turn, so that at the last lookup nothing is owed (`Ready`).
- `WireAlwaysFaithful`: `Spec => [](PacketFits => WireIsFaithful)`: every packet
  sent is read back record for record, for any programs and queries. `PacketFits`
  says that it is no longer than a compression pointer reaches: the buffer has
  65536 bytes, a pointer 14 bits (`I/libmdns/mdns.c:796`). `Sound` is the
  invariant of a buffer being written: every pointer leads to a label in front of
  it (`Backward`), and every suffix in the dictionary is spelled by the cells at its
  position (`Recorded`). `Backward` is also why reading ends at all: the recursive
  function of `UncompressName` exists because positions can be ranked by how far
  they are from the next stop (`RankedReader`, `ReaderExists`). What is written
  later, the length filled in afterwards included, changes nothing that a pointer
  or a name rests on (`Keeps`, `KeptSound`, `KeptName`), so that each record, once
  written, stays readable (`Written`, `KeptWritten`), and the parser's offset behind
  it is where the next one starts (`ParsesRR`). `WireInv` gives the rest: records
  of the group have names that are lists, whatever call made them.

### noip2

- `NeverASharedSlot` and `AlwaysDetectsRunning`: as long as no two daemons search
  at the same time, a slot belongs to the daemon that is in it, and the slot that a
  searching one has found is empty or a dead one's, in front of those of any
  running daemon of its configuration (`Separate`). Killed daemons, whose slots
  stay, are included.
- `AlwaysKnowsService`: the address in a slot is what the service has, for a daemon that
  never met another in its slot (`Unmet`, `met`) and lost no reply, unless it is one
  the service refuses. The first check
  is forced (`FirstCheckIsForced`), so that what an earlier daemon left in the slot
  is not believed.

### Boot

- `NeverTwoWatchers`: however interfaces, daemons, rc and power come
  and go, no interface has two ifplugds unless an old one has removed the pid
  file of a new one. `WatchInv` adds that a starting ifplugd is the one the
  helper waits for, while there is no pid file, and that a running one is in its
  pid file: this is why mdev's running helpers one at a time matters.
- `OneWatcherAlways`: besides, nothing is left unwatched, or watched when it is gone,
  once its events are handled, however plugging, rc's prodding and the daemons
  interleave. `FollowInv` says why. The last event of an interface in the queue tells
  whether it is there (`Tells`), and so does the one the helper is at work on, if no
  other is to come (`TellsInv`): the order of the queue is all that matters, and an
  `add` too many does no harm. A pid file names a daemon that runs (`NamedIsRunning`),
  so that an `add` which finds one may stop there (`AddedIsWatched`) and a `remove`
  kills the right one; together with `WatchInv` it leaves none. Nobody watches
  before `/etc/platform` is there, so an event lost until then is that of an
  interface rc prods later (`PowerInv`, `ProdTells`).
- `ZipReaderProofs` is about the reader alone, for any archive, cut anywhere and
  damaged in any one place. `OpensOnlyComplete`: what opens has its directory and
  the end records that are read. The search by windows finds the last signature
  (`SearchFinds`), and the tests on offset and length that follow leave
  one place for the directory. `OpensAtFirst` and `NextFollows`: the reader goes
  from each entry to the one behind it or says that it cannot. `DeliversAll` and
  `NoticedOrHalted`: reads by pieces deliver all of a file unless the inflater
  or the card gives up, and a file that is not as it was packed is one of which
  the checksum tells, or is one of those. Sums over entries and the loop of reads are
  recursive functions on an interval, unfolded by `RecursionUpTo`.
- `NeverAPartialPackage` and `KeepsExtension`, with `PackInv`: what is on the
  card and not on the flash came from a server (`CardInv`), an update's `.new` is
  whole when it is moved unless a mishap is on record (`CleanInv`), and from the
  moment nupkg has opened a package it works on one that is complete (`JobInv`).
- `HelperAlwaysMeansComplete`: the property speaks of the moments when nupkg is
  not running; `ProgressInv` carries it through a run: every entry before the
  current one is accounted for, and at the last step there is none left. An
  application's files are cleared before its new ones come, and no step of nupkg
  for one application takes away what is accounted for of another
  (`StillAccounted`).

### What the proofs found

Two errors of the model came to light by proofs that would not go through, and
are corrected: "complete" asked a Zip64 package for its plain end record, which
`unzip.c` never reads when it has found Zip64's own; and two definitions by
`CASE` (a read of the inflater, the length of a request) had arms that overlap, so
that their value was TLC's choice and not the specification's. Besides, the passes
of mongoose that close connections were one step each, of which little could be
said; they take one connection a step now, as the code does.

### Only model-checked

- All liveness properties (`FollowsLink`, `ScriptsFinish`, `AnnouncesAll`,
  `StopReturns`, `EveryConnectionEnds`, `EveryClientAccepted`, `StopsOnSigterm`,
  `StopsOnTerm`, `Converges`, `WatchersFollowInterfaces`): fairness is beyond
  the prover. `OneWatcherAlways` proves the part of the last one that is safety.

Every invariant and every action property of a passing run is stated by a theorem,
`WireIsFaithful` for packets that fit and the others under the conditions named
above.

## What is not modelled

- In `NetInterface`: state of the whole host that the scripts only write
  (routes, `resolv.conf`, ntpd, host name, iptables, the lease file, nethook),
  the meritdump share, udhcpc's `renew` event, which changes none of the modelled
  state, and an `OPTIONS` word that leaves mdnsd out. netconfig offers a gadget
  only with option 0x800; the model lets it always, and keeps its mode.
- In `ConfigSave`: a card that cannot be mounted (sysconfig then exits at once),
  what each question of the dialogue edits, the extension and kernel updates it
  offers, and other writers of `/boot`. `dirty` is about tarballs: what a dialogue
  writes elsewhere on `/boot` is not followed here; downloads are, in `Boot`.
- In `GpioServer`: datagrams of one client that overtake each other by
  seconds, and XML-RPC handlers that run at once for two connections.
- In `HttpServer`: what the server never reaches because its handler answers every
  request: files, directories, CGI, WebDAV, proxying, SSL. Websocket upgrades,
  `100 Continue` and the kinds of errors are left out.
- In `MdnsServer`: malformed packets, TXT records of several strings, and a failing
  `malloc`.
- In `Noip2`: `-i`, which rewrites a running daemon's address for one use, `-C`, the
  dialogue that writes a configuration, `-S`, `-U`, `-D`, and how a request is coded.
- In `Nupkg`: encryption, and record signatures that occur inside data. In
  `HotPlug`: `lo`, which has no ifplugd. In `Boot`: `.deb` and `.rpm` packages,
  LEDs, overlays, gadgets, the key that breaks off `WaitForFile`, and an interrupt of
  the sysconfig that downloads (`ConfigSave` has interrupts).
- The missile server: its network would be `GpioServer`'s, and a launcher is one
  blocking write per call; that a repeated request fires twice needs no model.
- Small helpers, builds and examples: no state of their own, or nothing that runs on
  a target.

## Plan

Done so far: everything above. What is left, most important first:

1. `HotPlug` as what drives `NetInterface`: one live `ifplugd` while an interface is
   there is what `NetInterface` assumes and `OneWatcherAlways` proves; the composition
   is left.
2. An abstract store (one saved configuration, replaced atomically) that
   `ConfigSave` implements while no mishap happens; `AlwaysRestoresSaved` is the
   main step of that refinement.
3. XML-RPC handlers in steps, for two connections at once.
4. The meritdump share as one more resource of udhcpc's script.
