----------------------------- MODULE ModemNames -----------------------------
(***************************************************************************)
(* modem_names.sh: udev runs it for each network interface that appears,   *)
(* and names the interface by what it prints.  The name is computed from   *)
(* the USB ID (bus, then the port on every hub on the way), unless         *)
(* /etc/modemnames.txt has a line for that ID.                             *)
(*                                                                         *)
(* An ID is a record; a computed name modem<n> is the number n.            *)
(***************************************************************************)
EXTENDS Integers, Sequences, FiniteSets

CONSTANTS
    Ids,        \* the USB IDs, records [bus, ports]
    Tables,     \* the contents /etc/modemnames.txt may have: functions from IDs to names
    MaxPresent  \* bound on the modems present at a time

\* The kernel takes no device with more ports than this between it and the bus.
MAX_TOPO_LEVEL == 6

Number == 1 .. 99
IdsAreIds ==
    /\ Ids \subseteq [bus : Number, ports : Seq(Number)]
    /\ \A id \in Ids : Len(id.ports) \in 1 .. MAX_TOPO_LEVEL
ASSUME IdsAssumption == IdsAreIds
ASSUME TablesAssumption == \A t \in Tables : DOMAIN t \subseteq Ids
ASSUME MaxPresentAssumption == MaxPresent \in Nat

VARIABLES
    table,   \* /etc/modemnames.txt
    name,    \* the name of every interface present, a function on their IDs
    custom   \* history: the present interfaces whose name is from the table

interfaces == <<table, name, custom>>

(***************************************************************************)
(* The script                                                              *)
(***************************************************************************)
\* The decimal digits of a bus or port number.
Decimal(n) == IF n < 10 THEN <<n>> ELSE <<n \div 10, n % 10>>

\* sed 's/[-.:]//g': the digits, without what separates the numbers.
DigitsAfter(start, id) ==
    LET upto[j \in 0 .. Len(id.ports)] ==
            IF j = 0 THEN start ELSE upto[j - 1] \o Decimal(id.ports[j])
    IN  upto[Len(id.ports)]
Digits_NoBus(id) == DigitsAfter(<<>>, id)
Digits(id) == DigitsAfter(Decimal(id.bus), id)

\* sed 's/[89]/2/g'
OctalDigits(s) == [j \in DOMAIN s |-> IF s[j] \in {8, 9} THEN 2 ELSE s[j]]

\* rev | cut -b-5 | rev
Last5_First(s) == IF Len(s) <= 5 THEN s ELSE SubSeq(s, 1, 5)
Last5_All(s) == s
Last5(s) == IF Len(s) <= 5 THEN s ELSE SubSeq(s, Len(s) - 4, Len(s))

\* $((8#$PRE_NUM))
Octal(s) ==
    LET value[j \in 0 .. Len(s)] == IF j = 0 THEN 0 ELSE 8 * value[j - 1] + s[j]
    IN  value[Len(s)]

Computed(id) == Octal(Last5(OctalDigits(Digits(id))))

NamesInit == table \in Tables /\ name = <<>> /\ custom = {}

Present == DOMAIN name

\* The interface of a modem appears: the script runs and prints O.
NameInterface(id) ==
    /\ id \notin Present /\ Cardinality(Present) < MaxPresent
    /\ LET O == IF id \in DOMAIN table THEN table[id] ELSE Computed(id)
       IN  name' = [i \in Present \cup {id} |-> IF i = id THEN O ELSE name[i]]
    /\ custom' = IF id \in DOMAIN table THEN custom \cup {id} ELSE custom
    /\ UNCHANGED table

RemoveInterface(id) ==
    /\ id \in Present
    /\ name' = [i \in Present \ {id} |-> name[i]]
    /\ custom' = custom \ {id}
    /\ UNCHANGED table

\* The administrator edits the table; interfaces keep the names they have.
Edit ==
    /\ table' \in Tables \ {table}
    /\ UNCHANGED <<name, custom>>

NamesNext == Edit \/ \E id \in Ids : NameInterface(id) \/ RemoveInterface(id)

NamesSpec == NamesInit /\ [][NamesNext]_interfaces

(***************************************************************************)
(* Properties                                                              *)
(***************************************************************************)
\* The types; and a computed name has at most five octal digits, so that
\* modem<n> fits an interface name at any depth of the tree: below 8^5.
NamesTypeOK ==
    /\ table \in Tables
    /\ Present \subseteq Ids /\ custom \subseteq Present
    /\ \A id \in Present \ custom : name[id] \in Nat /\ name[id] < 32768

Plain(n) == n \in 1 .. 7

\* A tree of hubs of at most seven ports, with at most three hubs between the
\* modem and the root, on one of seven buses.
Shallow(id) ==
    /\ Plain(id.bus) /\ Len(id.ports) <= 4
    /\ \A j \in DOMAIN id.ports : Plain(id.ports[j])

\* In such a tree no two modems get the same computed name, in whatever order
\* they come and go: the bus and every port on the way tell.
DistinctNames ==
    \A i, k \in Present \ custom :
        i # k /\ Shallow(i) /\ Shallow(k) => name[i] # name[k]

Parent(id) == [bus |-> id.bus, ports |-> SubSeq(id.ports, 1, Len(id.ports) - 1)]
LastPort(id) == id.ports[Len(id.ports)]

\* Modems on one hub never share a computed name, however deep the hub is.
SiblingsDiffer ==
    \A i, k \in Present \ custom :
        i # k /\ Parent(i) = Parent(k) /\ Plain(LastPort(i)) /\ Plain(LastPort(k))
            => name[i] # name[k]

\* The comment on top of the script: the bus has to be honoured.  Modems at the
\* same ports of different buses have different names.
BusHonoured ==
    \A i, k \in Present \ custom :
        i.bus # k.bus /\ i.ports = k.ports => name[i] # name[k]
=============================================================================
