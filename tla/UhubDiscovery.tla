--------------------------- MODULE UhubDiscovery ---------------------------
(***************************************************************************)
(* usb_find_hubs(), and the guards main() puts on its result: scan the USB *)
(* devices for switchable hubs, apply the -l/-L/-n/-s filters, extend the  *)
(* choice to each chosen hub's USB2 or USB3 dual, count the physical hubs, *)
(* and go on only if exactly one would be operated on.                     *)
(*                                                                         *)
(* A device is a record                                                    *)
(*   phys    which physical hub it is a part of (not visible to the code)  *)
(*   bus, path     where it is; the path names the ports from the root     *)
(*   broken  libusb_get_device_descriptor fails                            *)
(*   match   its description contains the text of -s                       *)
(*   hub     its class is HUB; the remaining fields are about hubs         *)
(*   answer  "ok"; "fail": opening it or reading the hub descriptor fails; *)
(*           "empty": the descriptor read returns no byte                  *)
(*   bcd     "2.x", "3.0" or "3.1"                                         *)
(*   nports, lpsm ("indv", "common", "none"), vendor, serial               *)
(*   bos, cid      whether its BOS descriptor can be read, the container   *)
(*                 ID in it, or None                                       *)
(* A vendor filter is the set of ids that start with opt_vendor.           *)
(***************************************************************************)
EXTENDS Integers, Sequences, FiniteSets

CONSTANTS
    UsbTrees,   \* the device lists libusb_get_device_list may return
    Filters,    \* records [action, force, exact, search, location, level, vendor, ports]
    MaxHubs,    \* MAX_HUBS
    None

ASSUME MaxHubsAssumption == MaxHubs \in Nat \ {0}
ASSUME TreesAssumption == \A t \in UsbTrees : Len(t) \in Nat /\ DOMAIN t = 1 .. Len(t)

VARIABLES
    devs,       \* usb_devs
    f,          \* the options that take part in the choice
    hubs,       \* hubs[0 .. hub_count-1], from 1
    mask,       \* opt_ports, as a set of port numbers
    perm_ok,
    overrun,    \* an element was written beyond the end of hubs[]
    pc,         \* "scan", "dual", "count", then "none", "many", "go" or "undefined"
    i,          \* loop index
    phys_count  \* hub_phys_count

vars == <<devs, f, hubs, mask, perm_ok, overrun, pc, i, phys_count>>

(***************************************************************************)
(* get_hub_info                                                            *)
(***************************************************************************)
RootHub3 == "1d6b:0003"
RPi4Hub  == "2109:3431"
RPi4Cid  == "5cf3ee30d5074925b001802d79434c30"

SuperSpeed(d) == d.bcd # "2.x"

\* One-port hubs, and the Raspberry Pi 4B's, are switchable though ganged.
Lpsm(d) == IF d.lpsm = "common" /\ (d.nports = 1 \/ d.vendor = RPi4Hub)
           THEN "indv" ELSE d.lpsm

ContainerId(d) ==
    IF ~d.bos THEN None
    ELSE IF d.cid = None /\ d.vendor = RootHub3 /\ d.path = <<>> /\ d.nports = 4 /\ d.bcd = "3.0"
    THEN RPi4Cid
    ELSE d.cid

Zeroed(d) ==
    [actionable |-> 0, dev |-> 0, super_speed |-> FALSE, nports |-> 0, lpsm |-> "common", cid |-> None,
     vendor |-> "", bus |-> 0, path |-> <<>>, serial |-> d.serial]
Filled(n) ==
    LET d == devs[n] IN
    [actionable |-> 0, dev |-> n, super_speed |-> SuperSpeed(d), nports |-> d.nports, lpsm |-> Lpsm(d),
     cid |-> ContainerId(d), vendor |-> d.vendor, bus |-> d.bus, path |-> d.path, serial |-> d.serial]

\* The caller's record, zeroed beforehand; an empty answer counts as success
\* and leaves it so.
HubInfo_NotZeroed(n) ==
    IF devs[n].answer # "empty" THEN Filled(n)
    ELSE IF hubs = <<>> THEN Zeroed(devs[n]) ELSE [hubs[Len(hubs)] EXCEPT !.actionable = 0]
HubInfo(n) == IF devs[n].answer = "empty" THEN Zeroed(devs[n]) ELSE Filled(n)

(***************************************************************************)
(* The filters                                                             *)
(***************************************************************************)
IsChild(d, info) ==
    /\ d.bus = info.bus
    /\ Len(d.path) = Len(info.path) + 1
    /\ SubSeq(d.path, 1, Len(info.path)) = info.path

\* The search stops at the first child that matches or cannot be described.
SearchEnds(info) == {n \in DOMAIN devs : IsChild(devs[n], info) /\ (devs[n].broken \/ devs[n].match)}
SearchHit(info) ==
    {n \in SearchEnds(info) : ~devs[n].broken /\ \A m \in SearchEnds(info) : n <= m}

Chosen(info) ==
    /\ f.search => SearchHit(info) # {}
    /\ f.location # None => f.location = <<info.bus, info.path>>
    /\ f.level > 0 => f.level = Len(info.path) + 1
    /\ f.vendor # None => info.vendor \in f.vendor

\* Every hub that is searched narrows the one mask of the run.
HitPorts(info) == {devs[n].path[Len(devs[n].path)] : n \in SearchHit(info)}
Narrowed_Added(info) == mask \cup HitPorts(info)
Narrowed_Not(info)   == mask
Narrowed(info) ==
    IF f.search /\ SearchHit(info) # {} THEN mask \cap HitPorts(info) ELSE mask

(***************************************************************************)
(* USB2/USB3 duality                                                       *)
(***************************************************************************)
\* a = hubs[i], b = hubs[j]: b may be the other half of a.
Candidate_AnySpeed(a, b) == a # b /\ b.cid # None /\ a.cid = b.cid
Candidate(a, b) ==
    /\ a # b
    /\ a.super_speed # b.super_speed
    /\ b.cid # None /\ a.cid = b.cid
    /\ a.nports # b.nports => a.nports + b.nports <= 3
    /\ "" \notin {a.serial, b.serial} => a.serial = b.serial

\* How alike the two paths are.
Score_NoBus(a, b) == IF a.path = b.path THEN 4 ELSE 1
Score(a, b) ==
    LET p1 == a.path
        p2 == b.path
        l1 == Len(p1)
        l2 == Len(p2)
        s1 == IF a.super_speed THEN 1 ELSE 0
        s2 == IF b.super_speed THEN 1 ELSE 0
    IN  CASE p1 = p2 /\ a.bus - s1 = b.bus - s2 -> 5
          [] p1 = p2 /\ a.bus - s1 # b.bus - s2 -> 4
          [] p1 # p2 /\ l1 + s1 = l2 + s2 /\ l1 >= s2
               /\ SubSeq(p1, s2 + 1, l1) = SubSeq(p2, s1 + 1, l2) -> 3
          [] p1 # p2 /\ l1 >= 1 /\ l1 = l2 /\ Tail(p1) = Tail(p2) -> 2
          [] OTHER -> 1

\* The first of the candidates with the highest score.
BestMatches(a) ==
    LET cands == {j \in DOMAIN hubs : Candidate(a, hubs[j])}
        best  == {j \in cands : \A m \in cands : Score(a, hubs[m]) <= Score(a, hubs[j])}
    IN  {j \in best : \A m \in best : j <= m}

(***************************************************************************)
(* The scan                                                                *)
(***************************************************************************)
Init ==
    /\ devs \in UsbTrees /\ f \in Filters
    /\ hubs = <<>> /\ mask = f.ports
    /\ perm_ok = TRUE /\ overrun = FALSE
    /\ pc = "scan" /\ i = 1 /\ phys_count = 0

AtDevice == pc = "scan" /\ i <= Len(devs)
Readable(d) == ~d.broken /\ d.answer # "fail"
Switchable(info) == info.lpsm = "indv" \/ f.force

SkipDevice ==
    /\ AtDevice /\ ~devs[i].broken /\ ~devs[i].hub
    /\ i' = i + 1
    /\ UNCHANGED <<devs, f, hubs, mask, perm_ok, overrun, pc, phys_count>>

Unreadable ==
    /\ AtDevice /\ (devs[i].broken \/ devs[i].hub) /\ ~Readable(devs[i])
    /\ perm_ok' = FALSE
    /\ i' = i + 1
    /\ UNCHANGED <<devs, f, hubs, mask, overrun, pc, phys_count>>

AtHub == AtDevice /\ devs[i].hub /\ Readable(devs[i])

NotSwitchable ==
    /\ AtHub /\ ~Switchable(HubInfo(i))
    /\ i' = i + 1
    /\ UNCHANGED <<devs, f, hubs, mask, perm_ok, overrun, pc, phys_count>>

\* What the scan stores for a hub.
Entry(info) == [info EXCEPT !.actionable = IF Chosen(info) THEN 1 ELSE 0]

Room_OneShort == Len(hubs) + 1 < MaxHubs
Room == Len(hubs) < MaxHubs

AddHub ==
    /\ AtHub /\ Switchable(HubInfo(i)) /\ Room
    /\ hubs' = Append(hubs, Entry(HubInfo(i)))
    /\ mask' = Narrowed(HubInfo(i))
    /\ i' = i + 1
    /\ UNCHANGED <<devs, f, perm_ok, overrun, pc, phys_count>>

\* The element is copied before the bound is looked at: what lies behind the
\* table is overwritten, and the run goes on as if nothing had happened or in
\* a way the code does not determine.
TooManyHubs ==
    /\ AtHub /\ Switchable(HubInfo(i)) /\ ~Room
    /\ overrun' = TRUE
    /\ mask' = Narrowed(HubInfo(i))
    /\ pc' \in {IF f.exact THEN "count" ELSE "dual", "undefined"}
    /\ i' = 1
    /\ UNCHANGED <<devs, f, hubs, perm_ok, phys_count>>

ScanDone ==
    /\ pc = "scan" /\ i > Len(devs)
    /\ pc' = IF f.exact THEN "count" ELSE "dual"
    /\ i' = 1
    /\ UNCHANGED <<devs, f, hubs, mask, perm_ok, overrun, phys_count>>

(***************************************************************************)
(* The dual pass, the count and main's guards                              *)
(***************************************************************************)
HasDualRule_Usb3Only(h) == h.actionable = 1 /\ h.cid # None /\ h.super_speed
HasDualRule(h) == h.actionable = 1 /\ h.cid # None

DualOf ==
    /\ pc = "dual" /\ i <= Len(hubs)
    /\ hubs' = [j \in DOMAIN hubs |->
                  IF /\ HasDualRule(hubs[i]) /\ j \in BestMatches(hubs[i])
                     /\ hubs[j].actionable = 0
                  THEN [hubs[j] EXCEPT !.actionable = 2]
                  ELSE hubs[j]]
    /\ i' = i + 1
    /\ UNCHANGED <<devs, f, mask, perm_ok, overrun, pc, phys_count>>

DualsDone ==
    /\ pc = "dual" /\ i > Len(hubs)
    /\ pc' = "count"
    /\ UNCHANGED <<devs, f, hubs, mask, perm_ok, overrun, i, phys_count>>

Counted_Usb3(h) == h.actionable # 0 /\ (h.super_speed \/ f.exact)
Counted(h) == h.actionable # 0 /\ (~h.super_speed \/ f.exact)

Count ==
    /\ pc = "count"
    /\ phys_count' = Cardinality({j \in DOMAIN hubs : Counted(hubs[j])})
    /\ pc' = CASE phys_count' = 0 -> "none"
               [] phys_count' > 1 /\ f.action # "keep" -> "many"
               [] OTHER -> "go"
    /\ UNCHANGED <<devs, f, hubs, mask, perm_ok, overrun, i>>

Next ==
    \/ SkipDevice \/ Unreadable \/ NotSwitchable \/ AddHub \/ TooManyHubs \/ ScanDone
    \/ DualOf \/ DualsDone \/ Count

Spec == Init /\ [][Next]_vars

(***************************************************************************)
(* Properties                                                              *)
(***************************************************************************)
Acted(h) == h.actionable # 0
Phys(h)  == IF h.dev = 0 THEN None ELSE devs[h.dev].phys

\* The types, and: hubs are stored once each and in the order of the scan, and
\* the mask only ever loses ports.
TypeOK ==
    /\ \A j \in DOMAIN hubs : hubs[j].actionable \in 0..2 /\ hubs[j].dev \in 0 .. Len(devs)
    /\ \A g, h \in DOMAIN hubs : g < h /\ hubs[h].dev # 0 => hubs[g].dev < hubs[h].dev
    /\ Len(hubs) <= MaxHubs
    /\ mask \subseteq f.ports
    /\ perm_ok \in BOOLEAN /\ overrun \in BOOLEAN
    /\ pc \in {"scan", "dual", "count", "none", "many", "go", "undefined"}
    /\ i \in Nat /\ phys_count \in Nat

\* main() says "changing port state for multiple hubs at once is not
\* supported" and counts physical hubs to refuse it: all hubs that are going
\* to be operated on are parts of one physical hub.
OneHub ==
    pc = "go" /\ f.action # "keep" =>
        \A g, h \in DOMAIN hubs : Acted(hubs[g]) /\ Acted(hubs[h]) => Phys(hubs[g]) = Phys(hubs[h])

\* Both halves of a USB3 hub are operated on or none, unless -e is given: the
\* one that a filter left out is found as the dual of the other, also among
\* hubs that share a hardcoded container ID.
BothHalves ==
    pc \in {"go", "many"} /\ ~f.exact =>
        \A g, h \in DOMAIN hubs :
            Phys(hubs[g]) = Phys(hubs[h]) /\ Acted(hubs[g]) => Acted(hubs[h])

\* A hub no filter chose is operated on only as the other-speed half, with the
\* same container ID, of one that the filters chose, and never with -e.
DerivedJustified ==
    \A j \in DOMAIN hubs : hubs[j].actionable = 2 =>
        /\ ~f.exact
        /\ \E g \in DOMAIN hubs :
              /\ hubs[g].actionable = 1
              /\ hubs[g].super_speed # hubs[j].super_speed
              /\ hubs[g].cid = hubs[j].cid /\ hubs[j].cid # None

\* The devices that answer as hubs the run may operate on.
Answering ==
    {n \in DOMAIN devs :
        /\ devs[n].hub /\ Readable(devs[n]) /\ devs[n].answer # "empty"
        /\ f.force \/ Lpsm(devs[n]) = "indv"}
Silent == {n \in DOMAIN devs : devs[n].hub /\ ~devs[n].broken /\ devs[n].answer = "empty"}

\* A hub whose descriptor comes back empty counts as read, with nothing known
\* of it: without -f it is still no entry of the table, nor is it a second
\* entry of another device.
NoPhantom ==
    ~f.force => \A h \in DOMAIN hubs :
        /\ hubs[h].dev \in Answering
        /\ \A g \in DOMAIN hubs : hubs[g].dev = hubs[h].dev => g = h

\* The table loses no hub, and nothing is written behind it, as long as the
\* hubs are no more than it has elements for.
TableSuffices ==
    /\ overrun => Cardinality(Answering) + (IF f.force THEN Cardinality(Silent) ELSE 0) > MaxHubs
    /\ pc # "scan" /\ ~overrun => Answering \subseteq {hubs[h].dev : h \in DOMAIN hubs}

Attached(n) == \E h \in DOMAIN hubs : IsChild(devs[n], hubs[h])
Wanted == {n \in DOMAIN devs : devs[n].match /\ Attached(n)}
NoOtherFilter == f.location = None /\ f.level = 0 /\ f.vendor = None

\* With -s as the only filter and one device that matches, the run operates on
\* that device's port and no other.
SearchFocus ==
    pc = "go" /\ f.search /\ NoOtherFilter /\ Cardinality(Wanted) = 1 =>
        \A n \in Wanted : mask \subseteq {devs[n].path[Len(devs[n].path)]}

\* "limit hub by attached device description": a run with -s that goes ahead
\* has a port left to operate on.
SearchSelects == pc = "go" /\ f.search => mask # {}

=============================================================================
