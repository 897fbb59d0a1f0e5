# TLA+ verification of Proxysmart's modem server

Proxysmart turns a Linux host with USB modems into a set of 4G/5G proxies. This
directory models the parts of it whose source is in the repository and that keep
state: TLA+ modules, TLC configurations that check them on small instances, and
proofs of the main safety properties for every instance, checked by TLAPS.

Paths below are relative to the repository (`bin/` is `src/bin/` in `PROJECT.json`).

## 1. The system

A large part of the product is shipped compiled: `bin/proxysmart.sh` and most
`bin/*_hlp.sh` and `bin/*_helper.sh` are shell scripts compiled to ELF, and
cannot be read. What can be read is a ring of tools around it.

| component | state | operations | called by | hard behaviour |
|---|---|---|---|---|
| **uhubctl** `src/uhub/uhubctl-2.5.0/uhubctl.c` | hub table, options, port mask; the power feature of every port and the kernel's record of disabled ports | find hubs, match USB2/USB3 duals, filter, count, switch off / on / cycle / toggle, reset | operator, `proxysmart.sh` (modem power reset) | every call may fail alone; timed-out transfers may have worked; kernel powers ports back on; two virtual hubs are one device; concurrent runs |
| **run_cached** `bin/run_cached` | `.stdout`, `.stderr`, `.exitcode` in `/dev/shm` | serve from cache, run and record | scripts and API calls, concurrently | no lock; kills and timeouts between two writes |
| **proxy log** `bin/proxy_log_dump.sh`, `bin/proxy_log_analyze.sh` | a directory of pcap files, a temporary file, the log | rotate and capture; list, parse, append, remove | two services | two processes share a directory; crash between append and remove; clock steps |
| **modem names** `bin/modem_names.sh` | names of the interfaces present, `/etc/modemnames.txt` | name an interface | udev, once per interface | a lossy encoding of a tree path |
| **OpenVPN users** `bin/openvpn_create_user` | pki files, `tmp/client.ovpn`, `/home/vpn` | make key, certificate and configuration | operator, `install_openvpn.sh` (in a comment) | shared `tmp`, failures ignored, kills |
| **OpenVPN installer** `proxysmart/install_openvpn.sh` | `/etc/openvpn/easy-rsa`, the template, the running server, a completion marker | make CA, server certificate and template; restart; empty `/home/vpn`; mark | operator, again after every failure | stops at the first failure; removes the directory that runs of `openvpn_create_user` are in |
| **mode switching** `bin/brovi_switch`, `bin/DW_qmi_switch.sh` | a lock file's time stamp, the modem's mode | switch at most once in 10 s | udev | re-enumeration fires the handler again; the device number is stale after it |
| **plug-and-play hook** `bin/udevhook.sh` | a transient systemd unit per interface, its timer | schedule `proxysmart.sh reset_gently` in half a minute | udev, once per interface that appears | the unit's name may be in use; `run-one` refuses; the modem may be another by then |
| SCSI switch `bin/SCSI.sh` | modem mode | send a command, poll 30 times for AT ports | operator | a timeout |
| other installers `proxysmart/install_*.sh` | packages | install once | operator | what they do is decided by package managers |
| `bin/usb_ignore.sh`, `src/usbreset1` | none | one sysfs write; one ioctl | udev, scripts | - |
| `bin/2bars.py`, `bin/sendat.pl`, web clients (`CPE_helper.py`, `H112-370_hlp.py`, `hipi.pl`, `dlink_dwm222_hlp.sh`), `bin/apix.run`, port forwarders | none of their own | one request after the other | scripts, HTTP | the state is the modem's or an external server's |
| HiPi, kernel headers, gost, v2ray, speedtest, json_xs | - | - | - | third-party code, not part of the product |

The components meet through the operating system only: files, sysfs, udev events
and the hardware. Three meetings matter. The phases of `uhubctl` meet in its hub table and
its one port mask. The installer and `openvpn_create_user` meet in
`/etc/openvpn/easy-rsa`. A modem that a switching script resets appears anew, and
thereby starts both that script and the plug-and-play hook again. `uhubctl` acts on
the ports whose modems `modem_names.sh` then names again, but hands nothing to it.

What makes each correct:

* uhubctl: a command line is taken whole or refused; exactly the asked-for ports of exactly
  one physical hub, on both of its virtual halves, end as asked; a failure at one port costs
  that port only; a cycle has a moment of darkness; nobody else loses power.
* run_cached: a hit is not older than the TTL says, and is some run's whole
  output; a miss returns its own run's output, of stderr nothing older than it; every call
  returns.
* proxy log: each packet is logged, once, in order, whenever either process stops; the
  commands nobody checks are the only ones to cost any.
* modem names: different modems, different names.
* OpenVPN users: a delivered configuration is that of one run, its key fits its certificate,
  and it has the template there was.
* OpenVPN installer: when it says complete, the server, its certificate and every
  configuration, delivered before or after, belong to one CA.
* mode switching: each modem in the wrong mode is tried, none too often, and no other
  modem is touched.
* plug-and-play hook: each modem whose interface has a name the hook cares for is taken up,
  or a message says why not.

## 2. Modules

| module | models | built on |
|---|---|---|
| `UhubPower` | the action loop of `main()` (lines 1168-1245), with `set_port_status*` and `get_port_status` | - |
| `UhubOptions` | the option loop of `main()`, `ports2bitmap()` | - |
| `UhubDiscovery` | `usb_find_hubs()`, `get_hub_info()`, the guards of `main()` | - |
| `Uhubctl` | a whole run: options, discovery, refusal, loop, on one set of devices | INSTANCEs all three |
| `UhubShared` | two runs at once on one hub | two INSTANCEs of `UhubPower` |
| `PortContract` | abstract: what uhubctl promises of a hub's physical ports | - |
| `UhubContract` | the refinement mapping: `UhubPower` implements `PortContract` | EXTENDS `UhubPower` |
| `RunCached` | callers of one command line, their pipelines, kills, expiry | - |
| `ProxyLog` | dumpcap's files and the analyzer's loop | - |
| `ModemNames` | the computed names, the table, modems that come and go | - |
| `OpenvpnUser` | runs of `openvpn_create_user`, one step per command that changes state | - |
| `OpenvpnInstall` | the installer and its reruns beside those runs | EXTENDS `OpenvpnUser` |
| `ModeSwitch` | both mode switching scripts at one USB port, the modems that come and go there, udev's events | - |
| `PlugAndPlay` | the hook, its unit and timer, and the runs of `reset_gently`, beside the switching of the modem's port | EXTENDS `ModeSwitch` |
| `UhubPowerProofs`, `UhubDiscoveryProofs`, `UhubctlProofs`, `UhubSharedProofs`, `RunCachedProofs`, `ProxyLogProofs`, `OpenvpnProofs`, `ModemProofs` | theorems and proofs | EXTEND the module they are about; `UhubctlProofs` and `UhubSharedProofs` also INSTANCE the proofs of the parts; `ModemProofs` is about `PlugAndPlay` and `ModemNames`, which share no name |
| `MC*` | values for the constants of a run | EXTEND the module they check |

An operator named `X_Something` that stands directly before `X` is a variant of
`X` with one plausible slip. Nothing uses it; replacing `X` by it makes the
property listed for it in `PROJECT.json` ("mutants") fail, which shows that the
property depends on that line of the code.

### uhubctl

`UhubOptions`: the options as `getopt_long` returns them, each put into a variable of
`main()`; one action per kind of option, one per way to stop. Numbers and words of an
option's text are taken as `atoi` and `strcmp` read them.

`UhubPower`: `k`, `i`, `port`, `should_be_on`, `left` are `main()`'s loop variables
(`left` counts down `opt_repeat`), `pc` the place in it. A *cell* `<<device, port>>`
is in `on` while its power feature is set, in `blocked` while the kernel holds it
disabled (sysfs). `ReadStatus` may fail: the code then tests the power bit of a
negative number and takes the port for powered (`ReadsOn`). `Transfer` may fail and
have taken effect. `KernelRepower` is the driver behaviour that uhubctl's README
describes and `-r` exists for. `missed` and `repowered` are history: they name the
ports a property excuses, each for a failure of its own.

`UhubDiscovery`: `devs` is libusb's device list, in any order; one action per path
through the body of the scan loop, then one per hub of the dual search. A device
carries the physical hub it is part of, which the code cannot see and only the
properties use. Descriptors are model values; the score of a dual candidate is the
code's, number for number. A hub whose descriptor comes back empty (`answer = "empty"`) counts
as read, as `get_hub_info()` returns the length; a table that is full is `TooManyHubs`.

`PortContract` knows physical ports, which have power as long as one of the two
virtual halves gives it. It lets "off" only drop, "on" only raise, and "cycle" raise
only after a stage in which all wanted ports are dark.

### run_cached

One action per step between which another process can act: the age test, the size
test (`cat | wc -c`), the two `cat`s of a hit (`Serve`, `ServeErr`), the start of the
pipeline (`tee` and `2>` truncate), each chunk of either stream, the end of the pipeline, the
`cat` of `.stderr` on a miss (`ReadErr`), the write of `.exitcode`. `file` holds `.stdout` and
`.stderr`. They are not treated alike: a caller that misses passes its command's stdout on
through `tee` and never reads `.stdout` again, but reads its stderr back from the shared
`.stderr` (line 47), which another caller may have truncated or written to since. `tee`
writes at its own offset, and so does the shell's `2>`, so that a file truncated under them
gets a hole; this is `Written`. A file's bytes are named by the run that printed them. The
exit code is left out: `$?` in line 48 belongs to the `test`/`cat` of line 47 and is 0 whatever
the command did. One `cat` is one step. A caller that closes its pipe early, which ends `tee`
by SIGPIPE, is not modelled.

### proxy log

`dir` lists the pcap files in the order of their names, which is the order of the
times they were opened unless the clock was set back (`NewFileInThePast`). A file is an
inode: removed under dumpcap it takes no more packets, and one under a name that is used
again would be another. `List`, `ReadFile` (one file of `cat $FILES`, after which
dumpcap may go on), `Parsed`, `AppendLog`, `RemoveFile`, `Again` are the lines of the
loop; `ParseFails` is a failing tshark or a full `/tmp`, and `AppendFails` a full `/var/log`:
some beginning of `$TMP` reaches the log, and the script removes `$TMP` and the files all the
same. `Kill` may fall between any two and inside the append.

### modem names

A USB ID is a record of a bus and a path of ports; `Digits`, `OctalDigits`, `Last5`,
`Octal` are the four `sed`/`rev|cut|rev`/`$((8#..))` steps. An interface keeps the
name it was given when `/etc/modemnames.txt` is edited. A path has one to six ports, as
the kernel takes no device deeper (`MAX_TOPO_LEVEL` in its `hcd.h`), and bus and port
numbers have at most two digits.

### OpenVPN users

`key` and `crt` are the pki files, `client` is `tmp/client.ovpn`, `home` the delivered
files. Every command may be the last before a kill, easyrsa may fail before the key or
between key and certificate, and an append without a directory does nothing. `mv` is
atomic (one file system), and a kill takes easyrsa with it. `tree` is the directory
`easy-rsa`, named by the installation that made it, and `cwd` the one a run has entered: a run
whose directory was removed goes on, but what it does with relative names has no effect. A `cat` that finds
no file adds nothing and is not noticed: without a template, configurations are delivered
without (`template = None` in their head).

`OpenvpnInstall` adds one action per command of the installer that changes any of this
(`rm -rf` takes files one by one), `InstallStops` for `set -e` and kills, and `DeleteMarker`,
which the script tells the operator to do to reinstall. Nothing in either script
keeps the two apart, and the model does not either.

### mode switching

`dev` is the number of the modem at the port, `events` the `$DEVNUM` of the udev events
that wait, `ev` that of the one being handled, `lock` the time stamp of the lock file. The
mode is read through the port (`ReadMode`), the commands go to the number (`Addressed`).
`ResetModem` is what `-R` does, `SetConfiguration` what `-u 1` does, and `NoEffect` a
command that fails or finds nobody. Time passes between any two steps.
udev is assumed to handle the events of one port one after the other.

### plug and play

`Port` is any step of `ModeSwitch`; a modem that enumerates gets a new interface (`born`)
and an event for the hook (`adds`). Whether the interface has a name of the form the hook
looks for (line 13) is chosen anew each time (`ours`), as `/etc/modemnames.txt` may be edited
and an interface may stay without a new name; the event carries what it was. `HookTest` takes one event,
and reads the switch in the configuration and the lock, which may say anything at that
moment: with the switch off there is a message whatever the name, with it on an interface
with another name is passed over without any. `HookOrder` is `systemd-run --on-active`, and
`HookRefused` its failure when a unit of that name is loaded. What the unit runs is compiled.
Its log in `dists/noble/proxysmart.log` shows what is modelled of it: it is also run
every five minutes (`OtherRun`), a run skips a modem that is locked and one whose "UDEV
uptime is too small" (`OldEnough`), and gives up while another is under way
(`RunOneRefuses`). These definitions are marked external.

## 3. What is checked

States are distinct states of a complete search, with the time two workers take.

| run | bounds | what it shows |
|---|---|---|
| `uhub_power` (530 k states, 1 min) | a USB3 hub with halves of 2 and 1 ports, and a bystander before a 2-port hub; masks {1}, {1,2}; all actions, `-r` -1, 1, 2, `-R`, `-S`; one kernel re-powering | `GoalReached`: off, on, cycle and toggle meet their goal on every port whose own calls worked. `OthersLeftAlone`: no step switches a port that was not asked for. `KeepsContract`: the loop implements `PortContract`. `Terminates`. |
| `uhub_discovery` (66 k, 20 s) | ten trees of up to 5 devices in every enumeration order, some with an empty descriptor, 15 filters, a table of 4 hubs | `OneHub`, `BothHalves`, `DerivedJustified`, `SearchFocus`, `NoPhantom`, `TableSuffices`; `TypeOK` includes the order of the table and that the mask only shrinks |
| `uhub_whole` (4.0 M, 2 min) | every line of three options of any kind, and the lines of two to four that get through, with and without `-R`, on a USB3 hub and a bystander | `OptionsRead`, `OnlyAsAsked`, `PhysicallyAsAsked`, `BystandersKeepPower`: what options, discovery and loop achieve together, in terms of the hardware |
| `uhub_shared` (678 k) | one 2-port hub, two runs with the same or different ports | `IndependentPorts`, `CyclesEndOn` |
| `run_cached` (750 k, 2 min) | three callers: one whose command hangs and may print a chunk of stderr, one with up to two chunks of stdout and one of stderr, one with two of stdout | `HitFresh`, `OwnOutput`, `HitWhole`, `Returns` |
| `proxy_log` (448 k, 1 min) | three packets, three files at a time, two mishaps | `NoLoss`, `LoggedOnce`, `InOrder`, `EventuallyLogged` |
| `modem_names` (65 k) | 252 IDs, every ordered pair, two tables | `DistinctNames`, `SiblingsDiffer`; `NamesTypeOK` bounds the length of a name |
| `openvpn` (3.7 M, 160 s) | two runs for one client or for two, symmetric, and two installations that may each stop anywhere | `OneAuthority`, `HomeWhole`, `UpToDate`, `DoneIsNew` |
| `mode_switch` (5.6 M, 80 s) | `PlugAndPlay`: a window, a delay and a minimal uptime of 2 in 5 seconds, three enumerations, each with a name the hook cares for or another, both scripts | `Spaced`, `RightUntouched`, `NotForgotten`, `Accounted`; `HookTypeOK`, the types of both parts, includes that no unit starts early |

Why the bounds are enough. The loop of uhubctl treats hubs and ports alike, so two
hubs, of which one may be a bystander or the other half, and two ports, of which one
may be out of the mask, give every pair a slip could confuse; more is left to the
proofs, which hold for any. In `run_cached` two runs and a reader are the smallest
system in which an old run, a new run and a hit meet. In `proxy_log` three files are
one listed, one newest and one opened meanwhile; two mishaps let a clock step meet a
kill, or one kill follow another. In `modem_names` ports 1, 2, 7 are the smallest, the
largest and one between, at every depth up to the five digits that are kept.
In `openvpn` a run can precede, meet and outlive an installation, enter the directory
of one that failed, and meet another run for its own client or another; two installations are
one that stops and one that starts from what it left. Three installations or three runs are
left to the proofs. In `uhub_whole` three options put a slip before, between and after the ones
that matter. In `mode_switch` two windows, or two delays, fit into the time, and three
enumerations allow a modem, its reset and its replacement; a fourth is left to the proofs.

Three more runs document where the program does something else than its text says:

* `uhub_two_hubs` / `OneHub`. With hubs that share a hardcoded container ID, one of
  them plugged in with a USB2 cable, `-l` at that hub also operates on the SuperSpeed
  half of the other, and `phys_count` is 1. `uhubctl.c:1163` says "changing port state
  for multiple hubs at once is not supported."
* `uhub_search` / `SearchSelects`. With `-s` and `-l` together a match behind a hub that
  `-l` excludes has already narrowed the one port mask; the chosen hub's match then
  empties it, nothing is done, and the exit code is 0. `uhubctl.c:277`: "limit hub by
  attached device description".
* `modem_bus` / `BusHonoured`. Two modems at the same five ports of two buses get one
  name, as only the last five digits are kept. `modem_names.sh:9`: "USB bus ID has to be
  honored."

### Fairness

* `UhubPower`: weak fairness of the loop as a whole. It is one thread, whose calls
  return (transfers have a timeout). Nothing is assumed of the kernel.
* `RunCached`: weak fairness of each caller's own script. A hanging command is ended by
  `timeout -s 9`, which is the action `Finish`; kills and expiry are not fair.
* `ProxyLog`: weak fairness of the analyzer's loop. Neither dumpcap nor a restart of the
  analyzer is fair, as the services that run them are not in the repository;
  `EventuallyLogged` speaks of files that have a successor, and lets a dead analyzer be.
* The others have no liveness property: what they wait for (udev, systemd's timers, easyrsa,
  the operator) is outside the code, and `NotForgotten` and `Accounted` say as safety that
  nothing is left waiting for nobody.

`CHECK_DEADLOCK FALSE` is set everywhere: a run of a program ends, and the bounded
environments stop.

## 4. What is proved

All theorems hold for every value of the constants that meets the named assumptions
of the module: any number of devices, hubs, ports, callers, chunks, files, packets, runs,
installations, mishaps and re-powerings.

`UhubPowerProofs` (about `UhubPower`; assumptions: requests are option records, a hub
table lists a device once). The inductive invariant is

    Inv == TypeOK /\ ControlOK /\ SentOK /\ OffSoFar /\ OnSoFar

The goals `OffReached` and `OnReached` say nothing until the run ends, so they are not
inductive. `OffSoFar` and `OnSoFar` say that in the phase under way every selected port
of every hub *before* `i`, and of hub `i` before `port`, is already as wanted or excused;
`ControlOK` ties `pc`, `k`, `i`, `port` and `should_be_on` to each other and to the
action, so that the phase after the last hub implies the goal; `SentOK` says that a
transfer that was seen to succeed has left the port as wanted, unless the kernel
powered it again.

* `TypeCorrect`: `Spec => []TypeOK`
* `OffGoal`, `OnGoal`, `ToggleGoal`, and together `ReachesGoal`: `Spec => []GoalReached`, the
  conjunction of `OffReached`, `OnReached` and `ToggleReached`
* `OthersSafe`, `NeverBackwards`, `DarkBeforeLight`: the action properties
  `OthersLeftAlone`, `OneDirection`, `DarkFirst`, from the same invariant (of the last two the
  run checks what `KeepsContract` says of them)

`Implements`, in the same module, is `Spec => KeepsContract`, the refinement of `PortContract`
as a step simulation. `Inv` is strengthened by `OnReal` (power features are set only of ports
that exist) and `Distinct`. Most steps stutter under the mapping; the others switch one port of
one half, excuse a port, or end a stage, and the end of a stage is where `OffSoFar` and
`OnSoFar` are needed again. The module ends with what a step that is not this run's own may do
without disturbing it (`Undisturbed`, `PoweredStays`), for the proofs about two runs.

`UhubDiscoveryProofs` (about `UhubDiscovery`; assumptions: the table has room for a hub, a tree
is a sequence). The invariant `IInv` adds to the types and to `DerivedJustified` that while
the scan is at device `i` the table is about devices before it (`Behind`, hence each once and
in order), that every entry answered (`Spoken`), and that the dual pass is not reached with
`-e` (`DualPass`).

* `TypeCorrect`, `DerivedSafe`, `PhantomSafe`: `Spec => []TypeOK`, `[]DerivedJustified`,
  `[]NoPhantom`
* `TableSafe`: `Spec => []TableSuffices`. `SInv` counts: while the scan is at device `i`, the
  entries are no more than the devices before it that need one, and until the table overruns each
  that answered has its own
* `FocusSafe`: `Spec => []SearchFocus`. With `-s` the mask is always within the ports on
  which any chosen hub of the table has a match (`Hits`), and an entry is chosen exactly if the
  filters choose what the device says (`Faithful`)
* `HalvesTogether`: `Spec /\ Distinguishable => []BothHalves`, and `OneHubSafe`:
  `Spec /\ Distinguishable /\ Usb2HalfThere => []OneHub`. They are not true of every tree: the
  run `uhub_two_hubs` shows one. `Distinguishable` is what makes them so: each half passes for
  the other in the code's comparison (`HalvesMatch`); where a half of another hub passes as
  well, its own scores higher, or as high and is listed first (`HalvesPreferred`); and the table
  has room (`Fitting`). `Usb2HalfThere` says that a SuperSpeed hub's USB2 half is among the
  hubs. The trees of the run `uhub_discovery` satisfy all of it but for `Crowd`, which
  overfills the table; hubs with container IDs of their own satisfy `HalvesPreferred` in any
  order (lemma `OwnContainerIds`); the hub with the USB2 cable in `uhub_two_hubs` does not

`UhubctlProofs` (about `Uhubctl`; assumptions: command lines and trees are sequences) composes
the parts: every step of the whole run is a step of the options, the search or the loop, or
leaves each alone, so that the invariants of the parts are invariants of the whole, and what
hands one part's result to the next (`Control`, `Start`, `Going`) is proved here.

* `OptionsReadSafe`: `Spec => []OptionsRead`. By the time the search starts, each variable of
  the option loop is what the last occurrence on the line says, for lines of any length
* `OnlyAsAskedSafe`: `Spec => OnlyAsAsked`
* `BystandersSafe`: `Spec /\ []TellApart => BystandersKeepPower`, where `TellApart` is the
  premise of `OneHubSafe` from the moment the search begins
* `AsAskedPhysically`: `Spec /\ [](HalvesToldApart /\ AllAnswer) => []PhysicallyAsAsked`. The
  premises are `Distinguishable`, no empty descriptor, and that a hub with one half that can
  be switched has no other half that cannot. Every state of the run `uhub_whole` satisfies them

`UhubSharedProofs` (about `UhubShared`; assumptions: requests are option records, the hubs are
a table of them). A step of one run is, for the other, a step of the world that changes only
cells; where the runs select different cells the other's invariant survives it.

* `IndependentPortsSafe`: `Spec /\ NoReset => []IndependentPorts`. The premise is needed: a
  reset powers any port of the hub, also one that the other run has just switched off, and
  TLC finds that as soon as the run `uhub_shared` is given resets
* `CyclesEndOnSafe`: `Spec => []CyclesEndOn`, resets included. The invariant says that a port
  both of whose runs have powered it, as far as they have to, has power or an excuse (`Lit`);
  while one of them still has the port before it nothing is claimed

`RunCachedProofs` (about `RunCached`; assumptions: the callers are finitely many, `Hole` and
`None` are none of them).

    Inv == TypeOK /\ OrderOK /\ FileFresh /\ BasisOK /\ OwnSoFar /\ ReadFresh

`HitFresh` and the part of `OwnOutput` about stderr speak of what a caller got; their
strengthening `FileFresh` speaks of the files: once a run has begun, no byte in `.stdout` or
`.stderr` is from a run that was over before (they were truncated then, and an ended run writes
no more: `OrderOK`). `ReadFresh` says the same of what a caller has read so far, after each of
the three `cat`s. `BasisOK` says that whoever wrote `.exitcode` had begun.

* `TypeCorrect`: `Spec => []TypeOK`
* `Freshness`: `Spec => []HitFresh`
* `OwnRun`: `Spec => []OwnOutput`, its last part from the invariant about uncrowded histories
* `WholeHits`: `Spec => []HitWhole`, from `Inv` and that invariant: at most one caller is
  past the test (`Single`), each file is what it has written so far or what the one before it
  wrote (`FileOfOne`), and so is what callers read from them (`HitsOfOne`)

`ProxyLogProofs` (about `ProxyLog`; assumptions: the bounds are numbers, at least one file).

    Inv == TypeOK /\ ListOK /\ DataOK /\ KeptOK /\ TmpOK /\ LogOK /\ OrderOK /\ LossOK

The analyzer's list is a snapshot while dumpcap goes on. `ListOK` says that the directory's
newest file stays out of it whatever was opened since; `KeptOK`, that of each file the round
is through with, everything is in `$TMP`, and from `append` on in the log; `LogOK`,
that a packet of the log still in a file is in one that is about to be removed, or a kill made it
so. `LossOK` accounts for the packets: those of a failed parse, those of `$TMP` that a failed
append leaves behind (lemma `Failing`), and those captured into a file that is not the newest
by name. `OrderOK` holds until the first mishap: the list is the beginning of the directory, the
files are in the order of capture, and the log is behind what is still in them.

* `TypeCorrect`, `NothingLost`, `NothingTwice`, `LogOrdered`: `Spec => []TypeOK`, `[]NoLoss`,
  `[]LoggedOnce`, `[]InOrder`

`OpenvpnProofs` (about `OpenvpnInstall`; assumptions: `None` is no run, no number and no file).
Two invariants. `AInv` makes no assumption on who meets whom:

    AInv == TypeOK /\ Dated /\ Issued

`Dated` says that no run can be in the directory of an installation that has not made it yet,
so that between `make-cadir` and the new CA nothing is assembled; `Issued`, that from the new
CA on whatever a configuration can be made of is signed by it. `WInv` adds, while nobody is in
another's way, how far a run has got with its key and certificate (`KeyStage`) and its file
(`FileStage`), place by place, and of what is delivered (`Homes`) that its CA is older than any
installation under way: the template that one writes is then later than the CA, as `TooEarly`
asks of a configuration without one.

* `TypeCorrect`, `AuthoritySafe`: `Spec => []TypeOK`, `[]OneAuthority`
* `WholeSafe`, `UpToDateSafe`, `DeliversNew`: `Spec => []HomeWhole`, `[]UpToDate`, `DoneIsNew`

`ModemProofs` (first about `ModeSwitch`; assumptions: the window is positive).

    Inv == TypeOK /\ LockOK /\ GapOK /\ AimOK /\ CareOK /\ Spaced /\ RightUntouched

`Spaced` compares rounds that are over; a new round keeps it because the lock file carries
the time of the last one (`LockOK`) and the age that was found sufficient stays so until the
round begins (`GapOK`). `AimOK` says that from the reading of the mode to the last command
the modem with the event's number is in the wrong mode. `CareOK` says that a modem in the
wrong mode has an event that waits or is being handled, or that the last handling was just
after a round.

* `TypeCorrect`, `Spacing`, `RightModemsSafe`, `NoModemForgotten`: `Spec => []TypeOK`,
  `[]Spaced`, `[]RightUntouched`, `[]NotForgotten`

Then about `PlugAndPlay` (assumption `DelayAssumption`: the delay is not below the minimal
uptime):

* `PortAlone`: `HookSpec => Spec`. The port with the hook beside it behaves as the port
  alone, so that the theorems above hold in the composition.
* `HookTypes`, `NoModemLeftOut`: `HookSpec => []HookTypeOK`, `[]Accounted`. `PlugsOK`, the types
  of the hook, and `Accounted` are inductive together with `LastIsPresent`, given the types of the
  port: the last event that waits carries the name of the interface that is there, so that the
  hook cannot pass a modem over for the name an earlier one had

And about `ModemNames` (assumption `IdsAssumption`: numbers of at most two digits, paths of one
to six ports). The recursive functions of
the model are unrolled once: a name is `Sum5` of the five octal digits that are kept
(`ComputedIs`), and `Sum5` tells them apart (`SumTells`). `NameInv` says that every computed
name present is that of its own ID.

* `NamesFit`: `NamesSpec => []NamesTypeOK`, a computed name is below 8^5 for every ID
* `SiblingsTold`: `NamesSpec => []SiblingsDiffer`. The digits of two modems on one hub differ in the
  last one only, and the last is always kept
* `NamesTold`: `NamesSpec => []DistinctNames`. In a shallow tree every number is one digit below 8 and
  none is cut off, so that the name gives the ID back; where a place is 0, the ID has ended

Only model-checked are the liveness properties (`Terminates`, `Returns`, `EventuallyLogged`),
whose fairness needs ENABLED. The three properties that runs refute have no theorem, of course.

## 5. What is claimed with care

* `HitFresh` bounds the age of a hit's content by the run whose end made the cache
  fresh. It does not say that a hit is one run's output: overlapping runs can leave a
  mixture with a hole in the file, and it is served. `HitWhole` says when that cannot
  happen: while runs overlap neither each other nor a reader and none is killed.
* `OwnOutput` promises a caller that misses its own run's whole stdout whatever others do, and
  its own stderr only while calls do not overlap and none is killed: line 47 reads it back from
  the shared file. In any case no stderr of a run that was over before its own began is printed.
* `NoLoss` excuses the packets in files that were being parsed when tshark failed, those of
  `$TMP` that a failing append did not write, and those captured into a file that is not the
  newest by name. The code does lose all of them.
* The properties of uhubctl are about power features. What a hub does with them is hardware: on
  ganged hubs, as some Raspberry Pis have, clearing the feature of one port need not darken that
  port alone, or at all, as uhubctl's README says. That a reset (`ResetHub`) gives power to
  ports and takes it from none is how the kernel sets a hub up again, and marked external.
* `OneHub`, `BothHalves`, `BystandersKeepPower` and `PhysicallyAsAsked` are claimed of trees in
  which hubs can be told apart; section 4 says what that takes. `IndependentPorts` is claimed of
  runs without `-R`, and `OnlyAsAsked` lets a reset give power to ports that nobody named.
* `DistinctNames` is claimed for ports 1-7 and at most five digits. Ports 8 and 9 become
  2, and 12 reads like 1, 2. It says nothing of names from `/etc/modemnames.txt`: the table is
  read when an interface appears and may be edited later, so that one may equal a computed name
  or one given before, and nothing in the script promises otherwise.
* `HomeWhole` and `DoneIsNew` are claimed while no two runs assemble in `tmp` at a time,
  and no two are for one client. Nothing in the script keeps runs apart. `HomeWhole` allows a
  configuration without its template, and says when: it was made after an installation had
  built a CA, and before any had written a template. The script delivers such a file without a
  word (line 29), and it stays until an installation is completed.
* `OneAuthority` needs no such premise: it holds whoever made users while the installer ran.
  `UpToDate` does: a run that began before the template was written may deliver after the
  old configurations were removed, with the old template.
* `NoPhantom` is claimed without `-f`. With it a hub whose descriptor comes back empty
  enters the table as what was there before. `TableSuffices` is claimed for no more hubs
  than the table has elements; with more, the code writes one behind it.
* `Accounted` is about modems whose interface has a name `udevhook.sh` looks for (line 13). A
  modem with another, by `/etc/modemnames.txt` or for want of a rename, is passed over without
  a message, and nothing is claimed of it. Of the others it
  lets one be left out for the reasons that a message gives. They include one that
  looks like success in the log: the unit's name is taken by an order that came before
  the modem did, and is then too early for it. It depends on the delay being no
  shorter than the minimal uptime, which is a constant of the compiled script.
* Two texts of `uhubctl.c` differ from the code where nothing else depends on it, and no run is
  about them: `--reset` is documented to reset the hub after each power-on action, and a
  toggle never does; the comment at `get_port_status` says that it returns -1 on errors, and
  it returns libusb's number. `run_cached` returns 0 whatever its command did; no text says
  what it should return.

## 6. Not modelled, and why

Compiled scripts and third-party code: no source, or not this program. Web clients,
`sendat.pl`, `apix.run`, port forwarders: requests one after the other to devices and
servers that are not in the repository, with no state between them. `2bars.py`,
`usb_ignore.sh`, `usbreset1`: one computation or one call. `SCSI.sh`: one command to the
modem and thirty looks for what comes of it; it keeps nothing. The installers of
packages: what they change is the package managers'. Description strings, status printing
and the reading of numbers from text in uhubctl: no property is about them. In the OpenVPN
scripts: the edit of `pki/index.txt`, whose effect is easyrsa's, and a run started where there is
no `easy-rsa`, which works in its caller's directory; a full disk. In the hook: two different
names of the form it looks for at one port, which an edit of the table between two appearances
can give. `PROJECT.json` lists each with its
reason.

## 7. Plan

Done: all components that keep state and whose source is here, with a proof of every safety
property that a passing run checks. Left:

1. The converse for `ModemNames`: which pairs of IDs do get one name.
2. The whole of `Uhubctl` as an implementation of `PortContract`, from the command line on.
3. `uhub_shared` with a kernel that powers ports while both runs are at work.
