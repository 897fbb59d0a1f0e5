------------------------------ MODULE Uhubctl ------------------------------
(***************************************************************************)
(* A whole run of uhubctl: main() reads the command line (UhubOptions),    *)
(* finds the hubs (UhubDiscovery), refuses or accepts what it found, and   *)
(* runs the action loop (UhubPower) on the array and the mask the search   *)
(* left.                                                                   *)
(***************************************************************************)
EXTENDS Integers, Sequences, FiniteSets

CONSTANTS UsbTrees, CommandLines, MaxHubs, None, MaxRepower

ASSUME BoundsAssumption == MaxHubs \in Nat \ {0} /\ MaxRepower \in Nat
ASSUME TreesAssumption ==
    \A t \in UsbTrees :
        /\ Len(t) \in Nat /\ DOMAIN t = 1 .. Len(t)
        /\ \A n \in DOMAIN t : t[n].hub => t[n].nports \in Nat
ASSUME LinesAssumption ==
    \A l \in CommandLines :
        /\ Len(l.opts) \in Nat /\ DOMAIN l.opts = 1 .. Len(l.opts) /\ l.stray \in BOOLEAN
        /\ \A j \in DOMAIN l.opts :
              LET x == l.opts[j] IN
              /\ x.name \in {"reset", "nosysfs", "force", "exact", "search"} => x.val \in BOOLEAN
              /\ x.name = "repeat" => x.val \in Int
              /\ x.name = "ports" =>
                    \A m \in DOMAIN x.val : x.val[m][1] \in Int /\ x.val[m][2] \in Int

VARIABLES
    line, next, o, opc,
    devs, hubs, mask, perm_ok, overrun, find_pc, find_i, phys_count,
    on0, on, blocked, pc, k, i, port, should_be_on, left, sent, exit,
    missed, repowered, repowers

\* The options each part looks at.
f == [action |-> o.action, force |-> o.force, exact |-> o.exact, search |-> o.search,
      location |-> o.location, level |-> o.level, vendor |-> o.vendor, ports |-> 1..14]
opt == [action |-> o.action, repeat |-> o.repeat, reset |-> o.reset, nosysfs |-> o.nosysfs]

Parse == INSTANCE UhubOptions WITH opt_ports <- mask
Find == INSTANCE UhubDiscovery WITH pc <- find_pc, i <- find_i, Filters <- {}
Loop == INSTANCE UhubPower WITH
    ports <- mask, Requests <- {}, HubArrays <- {}, PortMasks <- {}

argVars  == <<line, next, o, opc>>
findVars == <<devs, hubs, mask, perm_ok, overrun, find_pc, find_i, phys_count>>
loopVars == <<on0, on, blocked, pc, k, i, port, should_be_on, left, sent,
              missed, repowered, repowers>>
vars == <<argVars, findVars, loopVars, exit>>

\* The port power cells of all hubs on the bus, found or not.
Cells == {c \in (DOMAIN devs) \X (1..14) : devs[c[1]].hub /\ c[2] <= devs[c[1]].nports}

Init ==
    /\ Parse!Init
    /\ devs \in UsbTrees /\ hubs = <<>> /\ perm_ok = TRUE /\ overrun = FALSE
    /\ find_pc = "scan" /\ find_i = 1 /\ phys_count = 0
    /\ on \in {Cells, {}} /\ on0 = on /\ blocked = {}
    /\ pc = "phase" /\ k = 0 /\ i = 1 /\ port = 1
    /\ should_be_on = FALSE /\ left = 0 /\ sent = FALSE
    /\ missed = {} /\ repowered = {} /\ repowers = 0

ReadOptions ==
    /\ Parse!Next
    /\ UNCHANGED <<loopVars, devs, hubs, perm_ok, overrun, find_pc, find_i, phys_count>>

FindHubs == opc = "ready" /\ UNCHANGED <<argVars, loopVars, exit>> /\ Find!Next

\* No compatible devices, or more than one physical hub to operate on.
Refuse ==
    /\ find_pc \in {"none", "many"} /\ pc = "phase"
    /\ pc' = "done" /\ exit' = 1
    /\ UNCHANGED <<argVars, findVars, on0, on, blocked, k, i, port, should_be_on, left, sent,
                   missed, repowered, repowers>>

Operate == find_pc = "go" /\ UNCHANGED <<argVars, findVars>> /\ Loop!Run

Kernel == UNCHANGED <<argVars, findVars>> /\ Loop!KernelRepower

Next == ReadOptions \/ FindHubs \/ Refuse \/ Operate \/ Kernel

Spec == Init /\ [][Next]_vars

(***************************************************************************)
(* Properties                                                              *)
(***************************************************************************)
\* The physical hubs that one of the filters' own choices is part of.
ChosenPhys == {devs[hubs[h].dev].phys : h \in {g \in DOMAIN hubs : hubs[g].actionable = 1}}
PhysCells(S, P) == {c \in Cells : devs[c[1]].phys \in S /\ c[2] \in P}
Calm == missed = {} /\ repowered = {}

\* "It is necessary to turn off power on both virtual hubs": when an "off" run
\* that met no failure ends with exit code 0, every virtual hub of the chosen
\* physical hub, also one the filters left out, has the wanted ports dark; so
\* they are while a "cycle" run sleeps.
PhysicallyDark ==
    /\ ~f.exact /\ Calm
    /\ (exit = 0 /\ f.action = "off") \/ pc = "sleep"
    => PhysCells(ChosenPhys, mask) \cap on = {}

\* A run never takes power from another physical hub than the one chosen.
BystandersKeepPower ==
    [][\A c \in on \ on' : devs[c[1]].phys \in ChosenPhys /\ Cardinality(ChosenPhys) = 1]_vars

\* The run switches a port only if nothing on its command line stops the program,
\* only a port of the last list given, and only if the last action given is one:
\* a slip anywhere on the line, also after the options that matter, touches
\* nothing.  A reset of the hub, if asked for, may give power to other ports.
OnlyAsAsked ==
    [][on' # on /\ repowers' = repowers =>
         /\ Parse!Sound /\ Parse!AskedAction # "keep"
         /\ \A c \in on \ on' : c[2] \in Parse!AskedPorts
         /\ ~o.reset => \A c \in on' \ on : c[2] \in Parse!AskedPorts]_vars

\* LastWins, for the options a run is about to act on.
OptionsRead == find_pc = "scan" /\ find_i = 1 => Parse!LastWins

\* A run that met no failure and is over did for one physical hub what the
\* action says: "on" and "cycle" leave each wanted port powered on each half.
PhysicallyPowered ==
    ~f.exact /\ Calm /\ exit = 0 /\ f.action \in {"on", "cycle"} =>
        PhysCells(ChosenPhys, mask) \subseteq on

\* What a run that met no failure leaves behind on the hardware is what it was
\* asked for, in the dark of a cycle as at the end.
PhysicallyAsAsked == PhysicallyDark /\ PhysicallyPowered
=============================================================================
