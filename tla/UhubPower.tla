----------------------------- MODULE UhubPower -----------------------------
(***************************************************************************)
(* The action loop of uhubctl's main(): for each of the up to two power    *)
(* phases k (0 switches off, 1 switches on), for each actionable hub, for  *)
(* each selected port, read the port's status and switch it when it is not *)
(* as wanted, first through the kernel's sysfs file and, if that fails, by *)
(* libusb control transfers.                                               *)
(*                                                                         *)
(* The hub array and the port mask are what usb_find_hubs left behind      *)
(* (module UhubDiscovery); the loop only reads them.  Around the loop live *)
(* the hardware and the kernel: a call may fail, a timed-out transfer may  *)
(* still have taken effect, a driver may power a port back on.             *)
(***************************************************************************)
EXTENDS Integers, Sequences, FiniteSets

CONSTANTS
    Requests,    \* the command lines: records [action, repeat, reset, nosysfs]
    HubArrays,   \* the arrays hubs[] usb_find_hubs may leave
    PortMasks,   \* the values of opt_ports
    MaxRepower   \* bound on the times the kernel powers a port back on

Actions == {"keep", "off", "on", "cycle", "toggle"}
Option  == [action: Actions, repeat: Int, reset: BOOLEAN, nosysfs: BOOLEAN]
\* actionable is 0, 1, or 2 for a derived USB2/USB3 dual
Hub     == [dev: Nat, nports: Nat, actionable: 0..2]

ASSUME RequestsAssumption == Requests \subseteq Option
ASSUME HubArraysAssumption ==
    /\ HubArrays \subseteq Seq(Hub)
    /\ \A hs \in HubArrays : \A g, h \in DOMAIN hs : hs[g].dev = hs[h].dev => g = h
ASSUME PortMasksAssumption == PortMasks \subseteq SUBSET Nat
ASSUME MaxRepowerAssumption == MaxRepower \in Nat

VARIABLES
    opt,         \* the options of this run
    hubs,        \* hubs[0 .. hub_count-1], from 1
    ports,       \* opt_ports, as a set of port numbers
    on0,         \* history: the powered cells when the run started
    on,          \* hardware: the <<device, port>> whose power feature is set
    blocked,     \* kernel: the <<device, port>> disabled through sysfs
    pc,          \* control point of main()
    k,           \* 0 while switching off, 1 while switching on, 2 after both
    i,           \* hub index of the inner loop
    port,        \* port number of the innermost loop
    should_be_on,
    left,        \* transfers left in set_port_status_libusb
    sent,        \* history: some transfer of the current switch has succeeded
    exit,        \* exit code, -1 while running
    missed,      \* history: <<k, device, port>> the run failed to switch
    repowered,   \* history: <<device, port>> the kernel powered back on
    repowers     \* number of kernel re-powerings so far

env   == <<on, blocked>>
input == <<opt, hubs, ports, on0>>
ghost == <<missed, repowered, repowers>>
vars  == <<input, env, pc, k, i, port, should_be_on, left, sent, exit, ghost>>

(***************************************************************************)
(* Operators                                                               *)
(***************************************************************************)
PortsOf(h)    == 1 .. hubs[h].nports
Cell(h, p)    == <<hubs[h].dev, p>>
\* ports = ((1 << nports) - 1) & opt_ports
Selected(h)   == PortsOf(h) \cap ports
HubCells(h)   == {Cell(h, p) : p \in PortsOf(h)}
AllCells      == UNION {HubCells(h) : h \in DOMAIN hubs}
ActionableHubs == {h \in DOMAIN hubs : hubs[h].actionable # 0}
\* Every port the run is asked to operate on.
SelectedCells == UNION {{Cell(h, p) : p \in Selected(h)} : h \in ActionableHubs}

\* Variants of a condition, each with a slip, that the checks substitute for it.
PhaseSkipped_OnToo(a, n)       == n = 1 /\ a \in {"off", "keep", "toggle"}
PhaseSkipped_CycleToo(a, n)    == (n = 0 /\ a = "on") \/ (n = 1 /\ a # "on")
PhaseSkipped(a, n) ==
    \/ n = 0 /\ a = "on"
    \/ n = 1 /\ a \in {"off", "keep", "toggle"}

\* The port is in the mask the hub is operated on.
InMask_Forgotten(p) == TRUE
InMask(p) == p \in ports

\* A failed read returns a negative code, every one of which has the power
\* bit set: it reads as "on".
ReadsOn_ErrorIsOff(failed, c) == ~failed /\ c \in on
ReadsOn(failed, c) == failed \/ c \in on

\* What the phase wants of a port.
WantedIn(n) == n = 1

\* The phase after the sleep of a cycle.
AfterSleep_Same(n) == n
AfterSleep(n) == n + 1

\* rc = 0 before cleanup: whatever the calls of the loop returned.
ExitCode_LastError == IF missed = {} THEN 0 ELSE -4
ExitCode == 0

\* The power feature of a cell, set or cleared.
Switched(c, up) == IF up THEN on \cup {c} ELSE on \ {c}
Here == Cell(i, port)

Init ==
    /\ opt \in Requests
    /\ hubs \in HubArrays
    /\ ports \in PortMasks
    /\ on \in SUBSET AllCells
    /\ on0 = on
    \* an earlier run may have disabled ports through sysfs
    /\ blocked \in {{}, AllCells \ on}
    /\ pc = "phase" /\ k = 0 /\ i = 1 /\ port = 1
    /\ should_be_on = FALSE /\ left = 0 /\ sent = FALSE
    /\ exit = -1
    /\ missed = {} /\ repowered = {} /\ repowers = 0

(***************************************************************************)
(* The phase loop                                                          *)
(***************************************************************************)
SkipPhase ==
    /\ pc = "phase" /\ k < 2 /\ PhaseSkipped(opt.action, k)
    /\ k' = k + 1
    /\ UNCHANGED <<input, env, pc, i, port, should_be_on, left, sent, exit, ghost>>

StartPhase ==
    /\ pc = "phase" /\ k < 2 /\ ~PhaseSkipped(opt.action, k)
    /\ pc' = "hub" /\ i' = 1
    /\ UNCHANGED <<input, env, k, port, should_be_on, left, sent, exit, ghost>>

Finish ==
    /\ pc = "phase" /\ k = 2
    /\ pc' = "done" /\ exit' = ExitCode
    /\ UNCHANGED <<input, env, k, i, port, should_be_on, left, sent, ghost>>

\* After the last hub: a cycle sleeps opt_delay between its two phases.
EndPhase ==
    /\ pc = "hub" /\ i > Len(hubs)
    /\ IF k = 0 /\ opt.action = "cycle"
       THEN pc' = "sleep" /\ k' = k
       ELSE pc' = "phase" /\ k' = k + 1
    /\ UNCHANGED <<input, env, i, port, should_be_on, left, sent, exit, ghost>>

Wake ==
    /\ pc = "sleep"
    /\ pc' = "phase" /\ k' = AfterSleep(k)
    /\ UNCHANGED <<input, env, i, port, should_be_on, left, sent, exit, ghost>>

(***************************************************************************)
(* The hub loop                                                            *)
(***************************************************************************)
SkipHub ==
    /\ pc = "hub" /\ i <= Len(hubs)
    /\ hubs[i].actionable = 0 \/ opt.action = "keep"
    /\ i' = i + 1
    /\ UNCHANGED <<input, env, pc, k, port, should_be_on, left, sent, exit, ghost>>

AtHub == pc = "hub" /\ i <= Len(hubs) /\ hubs[i].actionable # 0 /\ opt.action # "keep"

OpenHub ==
    /\ AtHub
    /\ pc' = "port" /\ port' = 1 /\ should_be_on' = WantedIn(k)
    /\ UNCHANGED <<input, env, k, i, left, sent, exit, ghost>>

\* libusb_open fails: the hub is passed over without a word.
OpenFails ==
    /\ AtHub
    /\ i' = i + 1
    /\ missed' = missed \cup {<<k, hubs[i].dev, p>> : p \in Selected(i)}
    /\ UNCHANGED <<input, env, pc, k, port, should_be_on, left, sent, exit,
                   repowered, repowers>>

PortsDone ==
    /\ pc = "port" /\ port > hubs[i].nports
    /\ IF k = 1 /\ opt.reset
       THEN pc' = "reset" /\ i' = i
       ELSE pc' = "hub" /\ i' = i + 1
    /\ UNCHANGED <<input, env, k, port, should_be_on, left, sent, exit, ghost>>

\* libusb_reset_device: the kernel sets the hub up again and may power any
\* port it does not hold disabled.
ResetHub ==
    /\ pc = "reset"
    /\ pc' = "hub" /\ i' = i + 1
    /\ \E up \in SUBSET (HubCells(i) \ blocked) : on' = on \cup up
    /\ UNCHANGED <<input, blocked, k, port, should_be_on, left, sent, exit, ghost>>

(***************************************************************************)
(* The port loop                                                           *)
(***************************************************************************)
NextPort == pc' = "port" /\ port' = port + 1

AtPort == pc = "port" /\ port <= hubs[i].nports

SkipPort ==
    /\ AtPort /\ ~InMask(port)
    /\ NextPort
    /\ UNCHANGED <<input, env, k, i, should_be_on, left, sent, exit, ghost>>

ReadStatus ==
    /\ AtPort /\ InMask(port)
    /\ \E failed \in BOOLEAN :
        LET actual == Here \in on
            is_on  == ReadsOn(failed, Here)
            toggle == opt.action = "toggle"
            want   == IF toggle THEN ~is_on ELSE should_be_on
        IN  /\ should_be_on' = want
            /\ IF is_on # want
               THEN pc' = "set" /\ port' = port
               ELSE NextPort
            /\ missed' = IF is_on # actual /\ (toggle \/ k = 1)
                         THEN missed \cup {<<k, hubs[i].dev, port>>}
                         ELSE missed
    /\ UNCHANGED <<input, env, k, i, left, sent, exit, repowered, repowers>>

\* set_port_status_linux succeeds: the kernel remembers the port as disabled.
SysfsWrite ==
    /\ pc = "set" /\ ~opt.nosysfs
    /\ on' = Switched(Here, should_be_on)
    /\ blocked' = IF should_be_on THEN blocked \ {Here} ELSE blocked \cup {Here}
    /\ NextPort
    /\ UNCHANGED <<input, k, i, should_be_on, left, sent, exit, ghost>>

\* -S, an old kernel or a refused write: fall back to control transfers.
FallBack ==
    /\ pc = "set"
    /\ pc' = "transfer"
    /\ left' = IF should_be_on THEN 1 ELSE opt.repeat
    /\ sent' = FALSE
    /\ UNCHANGED <<input, env, k, i, port, should_be_on, exit, ghost>>

\* One round of the repeat loop.  A transfer that fails (it may have timed
\* out) may have taken effect all the same.
Transfer ==
    /\ pc = "transfer" /\ left > 0
    /\ left' = left - 1
    /\ \/ on' = Switched(Here, should_be_on) /\ sent' = TRUE
       \/ on' \in {on, Switched(Here, should_be_on)} /\ sent' = sent
    /\ UNCHANGED <<input, blocked, pc, k, i, port, should_be_on, exit, ghost>>

TransfersDone ==
    /\ pc = "transfer" /\ left <= 0
    /\ NextPort
    /\ missed' = IF sent THEN missed ELSE missed \cup {<<k, hubs[i].dev, port>>}
    /\ left' = 0 /\ sent' = FALSE
    /\ UNCHANGED <<input, env, k, i, should_be_on, exit, repowered, repowers>>

(***************************************************************************)
(* The kernel                                                              *)
(***************************************************************************)
\* A driver surprised by the power loss powers the port back on, unless the
\* port was disabled through sysfs.
KernelRepower ==
    /\ repowers < MaxRepower
    /\ \E c \in AllCells \ (on \cup blocked) :
          /\ on' = on \cup {c}
          /\ repowered' = repowered \cup {c}
    /\ repowers' = repowers + 1
    /\ UNCHANGED <<input, blocked, pc, k, i, port, should_be_on, left, sent, exit, missed>>

Run ==
    \/ SkipPhase \/ StartPhase \/ Finish \/ EndPhase \/ Wake
    \/ SkipHub \/ OpenHub \/ OpenFails \/ PortsDone \/ ResetHub
    \/ SkipPort \/ ReadStatus \/ SysfsWrite \/ FallBack \/ Transfer \/ TransfersDone

Next == Run \/ KernelRepower

\* main() is one thread whose calls all return (transfers time out), so an
\* enabled step of it is taken; nothing is assumed of the kernel.
Spec == Init /\ [][Next]_vars /\ WF_vars(Run)

(***************************************************************************)
(* Properties                                                              *)
(***************************************************************************)
InputOK ==
    opt \in Option /\ hubs \in Seq(Hub) /\ ports \subseteq Nat
CellsOK ==
    /\ on0 \subseteq Nat \X Nat /\ on \subseteq Nat \X Nat /\ blocked \subseteq Nat \X Nat
    /\ missed \subseteq (0..1) \X Nat \X Nat /\ repowered \subseteq Nat \X Nat
LocalsOK ==
    /\ pc \in {"phase", "hub", "port", "set", "transfer", "reset", "sleep", "done"}
    /\ k \in 0..2 /\ i \in Nat /\ port \in Nat
    /\ should_be_on \in BOOLEAN /\ left \in Int /\ sent \in BOOLEAN
    /\ exit \in {-1, 0} /\ repowers \in 0..MaxRepower

\* The type of every variable of the loop.
TypeOK == InputOK /\ CellsOK /\ LocalsOK

ExcusedOff(c) == <<0, c[1], c[2]>> \in missed \/ c \in repowered
ExcusedOn(c)  == <<1, c[1], c[2]>> \in missed

\* When an "off" run ends, and while a "cycle" run sleeps, every selected port
\* of every actionable hub, both halves of a USB3 hub, is off, except those
\* whose own calls failed or which the kernel powered again: no failure on one
\* port or hub keeps another from being switched.  A failed status read
\* excuses nothing.
OffReached ==
    (pc = "done" /\ opt.action = "off") \/ pc = "sleep" =>
        \A c \in SelectedCells : c \in on => ExcusedOff(c)

\* When an "on" or "cycle" run ends, every selected port is on, except those
\* whose calls failed in the second phase; what failed while switching off
\* does not matter.
OnReached ==
    pc = "done" /\ opt.action \in {"on", "cycle"} =>
        \A c \in SelectedCells : c \notin on => ExcusedOn(c)

\* When a "toggle" run ends, every selected port is the opposite of what it
\* was when the run began, with the same exceptions.
ToggleReached ==
    pc = "done" /\ opt.action = "toggle" =>
        \A c \in SelectedCells : (c \in on) = (c \in on0) => ExcusedOff(c)

\* Whatever fails on the way, a run reaches the goal of its action on every
\* selected port that nothing of its own excuses.
GoalReached == OffReached /\ OnReached /\ ToggleReached

\* A run never takes power from a port it was not asked to operate on, and
\* unless it resets the hub it does not give power to one either.
OthersLeftAlone ==
    [][/\ on \ on' \subseteq SelectedCells
       /\ ~opt.reset => on' \ on \subseteq SelectedCells \cup repowered']_vars

\* An "on" run never interrupts power, not even for a moment; an "off" run
\* never gives power, also when it repeats its transfers.
OneDirection ==
    [][/\ opt.action = "on" => on \subseteq on'
       /\ opt.action = "off" => on' \subseteq on \cup repowered']_vars

\* In a "cycle" no port gets power from the run before every selected port of
\* every hub was dark: the second phase follows the sleep.
DarkFirst ==
    [][opt.action = "cycle" /\ k = 0 => on' \subseteq on \cup repowered']_vars

\* Every run ends, whatever fails.
Terminates == <>(pc = "done")

=============================================================================
