----------------------------- MODULE PlugAndPlay -----------------------------
(***************************************************************************)
(* udevhook.sh beside the mode switching of a port.  Whatever makes the    *)
(* modem appear, a hand or one of the scripts of ModeSwitch, makes its     *)
(* network interface appear, and udev run the hook, which has systemd      *)
(* start proxysmart.sh reset_gently half a minute later, in a unit that is *)
(* named after the interface.  The hook cares for names of one pattern     *)
(* only.  modem_names.sh gives a port the same such name each time, but an *)
(* interface may have another: from /etc/modemnames.txt, which may be      *)
(* edited at any time, or because no rule renamed it.                      *)
(*                                                                         *)
(* proxysmart.sh is not readable.  Its log in the repository shows that    *)
(* reset_gently skips a modem that is locked and one whose "UDEV uptime is *)
(* too small", that it is also run every five minutes, and that a second   *)
(* run gives up while one is under way, as run-one does.                   *)
(***************************************************************************)
EXTENDS ModeSwitch

CONSTANTS
    Delay,      \* DELAY=30s
    MinUptime   \* the uptime below which reset_gently skips a modem

ASSUME DelayAssumption == Delay \in Nat /\ MinUptime \in Nat /\ MinUptime <= Delay

Units == {"none", "waiting", "running", "failed"}

VARIABLES
    born,     \* when the interface appeared, or None
    ours,     \* its name is wwan_modem<n> or modem<n>
    adds,     \* udev events that wait for the hook: is $INTERFACE of that form?
    hook,     \* where the hook is
    unit,     \* the unit add_dev_$INTERFACE
    due,      \* when its timer elapses, or elapsed; 0 without a unit at work
    tried,    \* history: a run took the modem up since it appeared
    excused   \* history: the modem was passed over, and a message says so

plugs == <<born, ours, adds, hook, unit, due, tried, excused>>
allVars == <<vars, plugs>>

HookInit ==
    /\ Init
    /\ born = None /\ ours = FALSE /\ adds = <<>> /\ hook = "idle"
    /\ unit = "none" /\ due = 0 /\ tried = FALSE /\ excused = FALSE

(***************************************************************************)
(* The interface                                                           *)
(***************************************************************************)
Appear ==
    /\ born' = now /\ ours' \in BOOLEAN /\ adds' = Append(adds, ours')
    /\ tried' = FALSE /\ excused' = FALSE
    /\ UNCHANGED <<hook, unit, due>>

Vanish ==
    /\ born' = None /\ ours' = FALSE /\ tried' = FALSE /\ excused' = FALSE
    /\ UNCHANGED <<adds, hook, unit, due>>

Port ==
    \/ Plug /\ Appear
    \/ ResetModem /\ Appear
    \/ SetConfiguration /\ Appear
    \/ Unplug /\ Vanish
    \/ (Tick \/ Start \/ ReadMode \/ CheckLock \/ Touch \/ NoEffect) /\ UNCHANGED plugs

(***************************************************************************)
(* The hook                                                                *)
(***************************************************************************)
\* "disabled, noop", whatever the name; of a name it cares for, "locked now,
\* ignore it" or "gona add it"; of another name, no message.  The messages about
\* earlier appearances excuse nothing: the last event is that of the modem there.
HookTest ==
    /\ hook = "idle" /\ adds # <<>> /\ adds' = Tail(adds)
    /\ \/ hook' = "idle" /\ excused' = (excused \/ adds' = <<>>)
       \/ Head(adds) /\ hook' = "order" /\ UNCHANGED excused
       \/ ~Head(adds) /\ UNCHANGED <<hook, excused>>
    /\ UNCHANGED <<vars, born, ours, unit, due, tried>>

\* --on-active $DELAY
DueTime_Short == now + Delay - 1
DueTime == now + Delay

HookOrder ==
    /\ hook = "order" /\ hook' = "idle" /\ unit = "none"
    /\ unit' = "waiting" /\ due' = DueTime /\ excused' = FALSE
    /\ UNCHANGED <<vars, born, ours, adds, tried>>

\* The modem at the port appeared after the waiting unit had been ordered.
Outdated == unit = "waiting" /\ (born = None \/ due < born + Delay)

\* systemd-run refuses a name that is loaded.
HookRefused ==
    /\ hook = "order" /\ hook' = "idle" /\ unit # "none"
    /\ excused' = (excused \/ unit \in {"running", "failed"} \/ Outdated)
    /\ UNCHANGED <<vars, born, ours, adds, unit, due, tried>>

(***************************************************************************)
(* The timer and the runs of reset_gently                                  *)
(***************************************************************************)
Elapsed_Any == TRUE
Elapsed == due <= now

OldEnough == born # None /\ now - born >= MinUptime

\* A run takes the modem up, unless it is locked or too young.
TakeUp == \E locked \in BOOLEAN :
    /\ tried' = (tried \/ (OldEnough /\ ~locked))
    /\ excused' = (excused \/ (OldEnough /\ locked))

UnitStarts ==
    /\ unit = "waiting" /\ Elapsed /\ unit' = "running" /\ TakeUp
    /\ UNCHANGED <<vars, born, ours, adds, hook, due>>

\* run-one finds another run and fails.
RunOneRefuses ==
    /\ unit = "waiting" /\ Elapsed /\ unit' = "failed" /\ due' = 0 /\ excused' = TRUE
    /\ UNCHANGED <<vars, born, ours, adds, hook, tried>>

\* A unit that failed stays loaded, until somebody resets it.
UnitEnds ==
    /\ unit = "running" /\ unit' \in {"none", "failed"} /\ due' = 0
    /\ UNCHANGED <<vars, born, ours, adds, hook, tried, excused>>

ResetFailed ==
    /\ unit = "failed" /\ unit' = "none"
    /\ UNCHANGED <<vars, born, ours, adds, hook, due, tried, excused>>

\* The run of every five minutes, or that of another modem.
OtherRun ==
    /\ unit # "running" /\ TakeUp
    /\ UNCHANGED <<vars, born, ours, adds, hook, unit, due>>

HookStep ==
    \/ HookTest \/ HookOrder \/ HookRefused
    \/ UnitStarts \/ RunOneRefuses \/ UnitEnds \/ ResetFailed \/ OtherRun

HookNext == Port \/ HookStep

HookSpec == HookInit /\ [][HookNext]_allVars

(***************************************************************************)
(* Properties                                                              *)
(***************************************************************************)
PlugsOK ==
    /\ born \in {None} \cup 0 .. now /\ (born = None <=> dev = None)
    /\ ours \in BOOLEAN /\ adds \in Seq(BOOLEAN) /\ hook \in {"idle", "order"}
    /\ unit \in Units /\ due \in Nat /\ (unit = "running" => due <= now)
    /\ tried \in BOOLEAN /\ excused \in BOOLEAN

\* The types of the port and the hook; the interface is there when the modem is,
\* and a unit that runs waited for its delay.
HookTypeOK == TypeOK /\ PlugsOK

\* "PX modem detected $INTERFACE , gona add it in $DELAY": when the hook is
\* through with its events, a modem at the port whose interface has a name the
\* hook cares for has been taken up, or will be by a run that finds it old enough,
\* or was passed over for one of the reasons that a message gives: the hook
\* disabled, the modem locked, a run under way, the unit's name in use by a run,
\* by a failure or by an order that came before the modem did.  However often the
\* modem appears anew while its timer runs, and whatever names it had before,
\* nothing else leaves it out.  Of a modem under any other name nothing is
\* claimed: the hook passes it over without a word.
Accounted ==
    born # None /\ ours /\ adds = <<>> /\ hook = "idle" =>
        \/ tried \/ excused
        \/ unit = "waiting" /\ due - born >= MinUptime
=============================================================================
