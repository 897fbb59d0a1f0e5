---------------------------- MODULE UhubOptions ----------------------------
(***************************************************************************)
(* The command line of uhubctl: main() takes the options one after the     *)
(* other, each into a variable of its own, and stops at the first one it   *)
(* cannot read.  Nothing is undone by a later option, so that of options   *)
(* given twice the last one counts, unless it says nothing.                *)
(*                                                                         *)
(* An option is a record [name, val].  The name is a field of Defaults,    *)
(* "ports" with a sequence of ranges <<a, b>> as atoi reads them, "all"    *)
(* for -p all, "other" (-d, -w, -N), "version", "help" or "unknown"; a     *)
(* flag's value is TRUE.  Whether parameters follow that are no options is *)
(* known when all options have been taken.                                 *)
(***************************************************************************)
EXTENDS Integers, Sequences

CONSTANTS
    CommandLines,   \* records [opts, stray]: the options, and whether more follows
    None

VARIABLES
    line,        \* the command line
    next,        \* the option getopt_long returns next
    o,           \* the options read so far
    opt_ports,
    opc,         \* "args", then "ready" or "stop"
    exit         \* exit code, -1 while running

MaxHubPorts == 14
AllHubPorts == 1 .. MaxHubPorts
Actions     == {"off", "on", "cycle", "toggle"}
Defaults ==
    [action |-> "keep", repeat |-> 1, reset |-> FALSE, nosysfs |-> FALSE, force |-> FALSE,
     exact |-> FALSE, search |-> FALSE, location |-> None, level |-> 0, vendor |-> None]

(***************************************************************************)
(* ports2bitmap                                                            *)
(***************************************************************************)
BadSpec_Unbounded(r) == r[1] > r[2] \/ r[1] <= 0
BadSpec(r) == r[1] > r[2] \/ {r[1], r[2]} \cap AllHubPorts # {r[1], r[2]}
BadList(l) == \E j \in DOMAIN l : BadSpec(l[j])

Bitmap_FirstPorts(l) == {l[j][1] : j \in DOMAIN l}
Bitmap(l) == UNION {l[j][1] .. l[j][2] : j \in DOMAIN l}

(***************************************************************************)
(* The option loop                                                         *)
(***************************************************************************)
Init ==
    /\ line \in CommandLines
    /\ next = 1 /\ o = Defaults /\ opt_ports = AllHubPorts
    /\ opc = "args" /\ exit = -1

AtOption == opc = "args" /\ next <= Len(line.opts)
Opt == line.opts[next]
Take == AtOption /\ next' = next + 1 /\ UNCHANGED <<line, opc, exit>>
Quit(code) == opc' = "stop" /\ exit' = code /\ UNCHANGED <<line, next, o, opt_ports>>

\* A word that is no action leaves the action as it is.
SetAction ==
    /\ Take /\ Opt.name = "action"
    /\ o' = IF Opt.val \in Actions THEN [o EXCEPT !.action = Opt.val] ELSE o
    /\ UNCHANGED opt_ports

SetOption ==
    /\ Take /\ Opt.name \in DOMAIN Defaults \ {"action"}
    /\ o' = [o EXCEPT ![Opt.name] = Opt.val]
    /\ UNCHANGED opt_ports

\* An empty list and "all" leave the ports as they are.
SetPorts ==
    /\ Take /\ Opt.name = "ports" /\ ~BadList(Opt.val)
    /\ opt_ports' = IF Opt.val = <<>> THEN opt_ports ELSE Bitmap(Opt.val)
    /\ UNCHANGED o

NoEffect == Take /\ Opt.name \in {"all", "other"} /\ UNCHANGED <<o, opt_ports>>

BadPorts == AtOption /\ Opt.name = "ports" /\ BadList(Opt.val) /\ Quit(1)

Version == AtOption /\ Opt.name = "version" /\ Quit(0)

Usage == AtOption /\ Opt.name \in {"help", "unknown"} /\ Quit(1)

ArgsDone == opc = "args" /\ next > Len(line.opts)

Stray == ArgsDone /\ line.stray /\ Quit(1)

Ready == ArgsDone /\ ~line.stray /\ opc' = "ready" /\ UNCHANGED <<line, next, o, opt_ports, exit>>

Next ==
    \/ SetAction \/ SetOption \/ SetPorts \/ NoEffect
    \/ BadPorts \/ Version \/ Usage \/ Stray \/ Ready

(***************************************************************************)
(* What a command line asks for                                            *)
(***************************************************************************)
\* The value of the last option among those at the positions in S.
LastOf(S, default) ==
    IF S = {} THEN default ELSE line.opts[CHOOSE j \in S : \A m \in S : m <= j].val
Named(name) == {j \in DOMAIN line.opts : line.opts[j].name = name}

AskedAction == LastOf({j \in Named("action") : line.opts[j].val \in Actions}, "keep")
AskedPorts ==
    LET l == LastOf({j \in Named("ports") : line.opts[j].val # <<>>}, <<<<1, MaxHubPorts>>>>)
    IN  {p \in AllHubPorts : \E j \in DOMAIN l : l[j][1] <= p /\ p <= l[j][2]}

\* Nothing on it stops the program.
Sound ==
    /\ ~line.stray
    /\ \A j \in DOMAIN line.opts :
          LET x == line.opts[j] IN
          /\ x.name \notin {"version", "help", "unknown"}
          /\ x.name = "ports" => \A m \in DOMAIN x.val :
                1 <= x.val[m][1] /\ x.val[m][1] <= x.val[m][2] /\ x.val[m][2] <= MaxHubPorts

(***************************************************************************)
(* Properties                                                              *)
(***************************************************************************)
\* A command line is accepted exactly if nothing on it stops the program, and of
\* each option the last occurrence that says something counts, whatever stands
\* between and in whatever order different options come.
LastWins ==
    /\ opc = "ready" =>
          /\ Sound
          /\ o.action = AskedAction /\ opt_ports = AskedPorts
          /\ \A name \in DOMAIN Defaults \ {"action"} :
                o[name] = LastOf(Named(name), Defaults[name])
    /\ opc = "stop" => ~Sound
=============================================================================
