----------------------------- MODULE ModeSwitch -----------------------------
(***************************************************************************)
(* brovi_switch and DW_qmi_switch.sh: udev runs one of them when a modem   *)
(* appears at a USB port.  If the modem is in the wrong mode and was not   *)
(* switched at that port a moment ago, as the time stamp of a lock file    *)
(* tells, the script runs usb_modeswitch, which makes the modem appear     *)
(* again, and udev run the script again.                                   *)
(*                                                                         *)
(* One port; udev handles the events of one port one after the other.      *)
(***************************************************************************)
EXTENDS Integers, Sequences

CONSTANTS
    Window,    \* the ten seconds of the scripts
    MaxTime,   \* bound on the clock
    MaxDev,    \* bound on the device numbers given out
    None

ASSUME BoundsAssumption == Window \in Nat \ {0} /\ MaxTime \in Nat /\ MaxDev \in Nat
ASSUME NoneAssumption == None \notin Nat

Kinds == {"brovi", "dw"}
Modes == {"wrong", "right"}   \* bInterfaceClass e0, bConfigurationValue 2; others

VARIABLES
    kind,     \* the script whose rule matches the modem
    now,      \* date +%s
    dev,      \* the number of the modem at the port, or None
    mode,     \* its mode
    last,     \* the highest device number given out
    events,   \* $DEVNUM of the events that wait for the script
    pc, ev,   \* where the script is; $DEVNUM of its event
    cmd,      \* index in $CMDS
    lock,     \* the time stamp of $LOCKFILE, or None
    rounds,   \* history: when switching began
    handled,  \* history: when the script compared the time stamp last
    hit       \* history: the modes of modems that a command reached

modem  == <<dev, mode, last>>
script == <<pc, ev, cmd, lock>>
ghost  == <<rounds, handled, hit>>
vars == <<kind, now, modem, events, script, ghost>>

(***************************************************************************)
(* Operators                                                               *)
(***************************************************************************)
Commands == IF kind = "brovi" THEN 2 ELSE 1

\* [[ -n $LOCKFILE_AGE ]] && [[ $LOCKFILE_AGE -lt  10 ]]
Recent_Exists == lock # None
Recent_Never  == FALSE
Recent == lock # None /\ now - lock < Window

\* usb_modeswitch -b $BUSNUM -g $DEVNUM finds the modem.
Addressed_Any == dev # None
Addressed == dev = ev

AfterCommand == IF cmd < Commands THEN "run" ELSE "idle"

Init ==
    /\ kind \in Kinds /\ now = 0
    /\ dev = None /\ mode = "right" /\ last = 0 /\ events = <<>>
    /\ pc = "idle" /\ ev = 0 /\ cmd = 1 /\ lock = None
    /\ rounds = <<>> /\ handled = 0 /\ hit = {}

\* The modem at the port gets a new number, and udev an event.
Enumerate ==
    /\ last < MaxDev
    /\ last' = last + 1 /\ dev' = last + 1 /\ mode' \in Modes
    /\ events' = Append(events, last + 1)

(***************************************************************************)
(* The port                                                                *)
(***************************************************************************)
Plug ==
    /\ dev = None /\ Enumerate
    /\ UNCHANGED <<kind, now, script, ghost>>

Unplug ==
    /\ dev # None /\ dev' = None
    /\ UNCHANGED <<kind, now, mode, last, events, script, ghost>>

Tick ==
    /\ now < MaxTime /\ now' = now + 1
    /\ UNCHANGED <<kind, modem, events, script, ghost>>

(***************************************************************************)
(* The scripts                                                             *)
(***************************************************************************)
Start ==
    /\ pc = "idle" /\ events # <<>>
    /\ ev' = Head(events) /\ events' = Tail(events) /\ pc' = "read"
    /\ UNCHANGED <<kind, now, modem, cmd, lock, ghost>>

\* case $IC, case $CONF: the modem at $DEVPATH now, if there is one.
ReadMode ==
    /\ pc = "read"
    /\ pc' = IF dev # None /\ mode = "wrong" THEN "check" ELSE "idle"
    /\ UNCHANGED <<kind, now, modem, events, ev, cmd, lock, ghost>>

CheckLock ==
    /\ pc = "check"
    /\ pc' = IF Recent THEN "idle" ELSE "touch"
    /\ handled' = now
    /\ UNCHANGED <<kind, now, modem, events, ev, cmd, lock, rounds, hit>>

\* set > $LOCKFILE
Touch ==
    /\ pc = "touch"
    /\ lock' = now /\ cmd' = 1 /\ pc' = "run"
    /\ rounds' = Append(rounds, now)
    /\ UNCHANGED <<kind, now, modem, events, ev, handled, hit>>

NextCommand == pc' = AfterCommand /\ cmd' = cmd + 1

\* The command fails, finds no modem, or resets it to what it was.
NoEffect ==
    /\ pc = "run" /\ NextCommand
    /\ hit' = IF Addressed THEN hit \cup {mode} ELSE hit
    /\ UNCHANGED <<kind, now, modem, events, ev, lock, rounds, handled>>

\* brovi_switch: -R resets the modem, which comes back in some mode.
ResetModem ==
    /\ pc = "run" /\ kind = "brovi" /\ Addressed
    /\ NextCommand /\ Enumerate
    /\ hit' = hit \cup {mode}
    /\ UNCHANGED <<kind, now, ev, lock, rounds, handled>>

\* DW_qmi_switch.sh: -u 1 selects the other configuration.
SetConfiguration ==
    /\ pc = "run" /\ kind = "dw" /\ Addressed
    /\ NextCommand /\ mode' = "right"
    /\ hit' = hit \cup {mode}
    /\ UNCHANGED <<kind, now, dev, last, events, ev, lock, rounds, handled>>

Script == Start \/ ReadMode \/ CheckLock \/ Touch \/ NoEffect \/ ResetModem \/ SetConfiguration

Next == Plug \/ Unplug \/ Tick \/ Script

Spec == Init /\ [][Next]_vars

(***************************************************************************)
(* Properties                                                              *)
(***************************************************************************)
\* The types; device numbers only grow, and no command beyond the last is run.
TypeOK ==
    /\ kind \in Kinds /\ now \in 0 .. MaxTime
    /\ last \in 0 .. MaxDev /\ dev \in {None} \cup 1 .. last /\ mode \in Modes
    /\ events \in Seq(1 .. last)
    /\ \A j, m \in DOMAIN events : j < m => events[j] < events[m]
    /\ pc \in {"idle", "read", "check", "touch", "run"} /\ ev \in 0 .. last
    /\ cmd \in Nat \ {0} /\ (pc = "run" => cmd <= Commands)
    /\ lock \in {None} \cup 0 .. now /\ handled \in 0 .. now
    /\ rounds \in Seq(0 .. now) /\ hit \subseteq Modes

\* "was switched VERY recently, noop": two rounds of switching at one port
\* begin at least ten seconds apart, whatever is plugged, reset or read while
\* the script runs and however long its commands take.
Spaced == \A j \in 1 .. Len(rounds) - 1 : rounds[j + 1] - rounds[j] >= Window

\* A modem in the right mode is never touched, although its mode is read
\* through the port and the commands follow later: another modem at the port
\* has another number.
RightUntouched == hit \subseteq {"wrong"}

\* When the scripts are at rest and the modem is still in the wrong mode, the
\* reason is the one they give: the last event was handled within ten seconds
\* of a round of switching at this port.  No modem is forgotten otherwise.
NotForgotten ==
    pc = "idle" /\ events = <<>> /\ dev # None /\ mode = "wrong" =>
        rounds # <<>> /\ handled - rounds[Len(rounds)] < Window
=============================================================================
