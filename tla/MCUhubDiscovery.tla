-------------------------- MODULE MCUhubDiscovery --------------------------
(* Small USB trees and command lines for checking UhubDiscovery. *)
EXTENDS UhubDiscovery

Dev(ph, bus, path) ==
    [phys |-> ph, bus |-> bus, path |-> path, broken |-> FALSE, match |-> FALSE, hub |-> FALSE]
HubDev(ph, bus, path, bcd, cid, vendor) ==
    [phys |-> ph, bus |-> bus, path |-> path, broken |-> FALSE, match |-> FALSE, hub |-> TRUE,
     answer |-> "ok", bcd |-> bcd, nports |-> 4, lpsm |-> "indv", vendor |-> vendor,
     serial |-> "", bos |-> TRUE, cid |-> cid]
Usb2(ph, bus, path, cid) == HubDev(ph, bus, path, "2.x", cid, "05e3:0610")
Usb3(ph, bus, path, cid) == HubDev(ph, bus, path, "3.1", cid, "05e3:0620")

Modem(bus, path) == [Dev("modem", bus, path) EXCEPT !.match = TRUE]

Orders(S) == {s \in [1 .. Cardinality(S) -> S] : \A a, b \in DOMAIN s : s[a] = s[b] => a = b}

\* Two USB3 hubs with container IDs of their own, a modem on the first.
Unique == {Usb2("A", 1, <<1>>, "a"), Usb3("A", 2, <<1>>, "a"),
           Usb2("B", 1, <<2>>, "b"), Usb3("B", 2, <<2>>, "b"), Modem(1, <<1, 3>>)}
\* Three USB3 hubs of a make with one hardcoded container ID, on two buses.
Hardcoded == {Usb2("A", 1, <<1>>, "x"), Usb3("A", 2, <<1>>, "x"),
              Usb2("B", 1, <<2>>, "x"), Usb3("B", 2, <<2>>, "x")}
TwoBuses  == {Usb2("A", 1, <<1>>, "x"), Usb3("A", 2, <<1>>, "x"),
              Usb2("B", 3, <<1>>, "x"), Usb3("B", 4, <<1>>, "x")}
\* A Raspberry Pi 4B: a ganged USB2 hub and the USB3 root hub belong together.
Raspberry == {[Usb2("pi", 1, <<1>>, RPi4Cid) EXCEPT !.vendor = RPi4Hub, !.lpsm = "common"],
              [Usb3("pi", 2, <<>>, None) EXCEPT !.vendor = RootHub3, !.bcd = "3.0"],
              [Usb2("root", 1, <<>>, None) EXCEPT !.lpsm = "none"],
              Modem(2, <<4>>)}
\* Plain USB2 hubs, one of them behind the other and with a single port, one
\* that cannot be read.
Plain == {Usb2("A", 1, <<1>>, None), Modem(1, <<1, 4>>),
          [Usb2("B", 1, <<1, 2>>, None) EXCEPT !.nports = 1, !.lpsm = "common"],
          [Usb2("C", 1, <<2>>, None) EXCEPT !.answer = "fail"]}
\* A USB3 hub beside a USB2 hub; two USB2 hubs with one hardcoded container ID.
Mixed == {Usb2("A", 1, <<1>>, "a"), Usb3("A", 2, <<1>>, "a"), Usb2("B", 1, <<2>>, None)}
Twins == {Usb2("A", 1, <<1>>, "x"), Usb2("B", 1, <<2>>, "x")}

\* More hubs than the table holds.
Crowd == {Usb2(n, 1, <<n>>, None) : n \in 1..5}

\* A hub that answers with nothing among others.
Silence == {Usb2("A", 1, <<1>>, "a"), Usb3("A", 2, <<1>>, "a"), Modem(1, <<1, 3>>),
            [Usb2("S", 1, <<2>>, None) EXCEPT !.answer = "empty"]}
Mute    == {[Usb2("S", 1, <<2>>, None) EXCEPT !.answer = "empty"], Modem(1, <<2, 1>>)}

MCTrees == UNION {Orders(S) : S \in {Unique, Hardcoded, TwoBuses, Raspberry, Plain, Mixed, Twins, Crowd,
                                   Silence, Mute}}

AnyFilter == [action |-> "off", force |-> FALSE, exact |-> FALSE, search |-> FALSE,
              location |-> None, level |-> 0, vendor |-> None, ports |-> {1, 2, 3, 4}]
At(bus, path) == [AnyFilter EXCEPT !.location = <<bus, path>>]

MCFilters ==
    {AnyFilter, [AnyFilter EXCEPT !.action = "keep"], [AnyFilter EXCEPT !.force = TRUE], [AnyFilter EXCEPT !.search = TRUE],
     [AnyFilter EXCEPT !.search = TRUE, !.ports = {1, 2}],
     At(1, <<1>>), At(2, <<1>>), At(2, <<2>>), At(4, <<1>>), At(2, <<>>), At(1, <<1, 2>>),
     [At(1, <<1>>) EXCEPT !.exact = TRUE], [At(1, <<1>>) EXCEPT !.force = TRUE],
     [AnyFilter EXCEPT !.level = 2], [AnyFilter EXCEPT !.vendor = {"05e3:0620"}]}

\* A hub with a hardcoded container ID plugged in with a USB2 cable, beside
\* another of its make.
Usb2Cable == Orders({Usb2("A", 1, <<1>>, "x"), Usb2("B", 1, <<2>>, "x"), Usb3("B", 2, <<2>>, "x")})
MCAtA == {At(1, <<1>>)}

\* One modem on each of two hubs, the second of which -l asks for.
TwoModems == Orders({Usb2("A", 1, <<1>>, "a"), Modem(1, <<1, 3>>),
                     Usb2("B", 1, <<2>>, "b"), Modem(1, <<2, 4>>)})
MCSearchB == {[At(1, <<2>>) EXCEPT !.search = TRUE]}

=============================================================================
