---------------------------- MODULE MCModemNames ----------------------------
(***************************************************************************)
(* Two buses with hubs of three ports, four deep; and some IDs that are    *)
(* deeper or have ports above 7.                                           *)
(***************************************************************************)
EXTENDS ModemNames

CONSTANT Custom

Id(b, p) == [bus |-> b, ports |-> p]
PathsOf(n) == [1 .. n -> {1, 2, 7}]
MCShallow == {Id(b, p) : b \in {1, 2}, p \in UNION {PathsOf(n) : n \in 1 .. 4}}
MCDeep ==
    {Id(b, <<1, 2, 3, 4>> \o p) : b \in {1, 2}, p \in {<<1>>, <<2>>, <<1, 1>>, <<1, 2>>}}
MCWide == {Id(1, <<8>>), Id(1, <<12>>), Id(2, <<1, 9>>), Id(2, <<10>>)}

MCIds == MCShallow \cup MCDeep \cup MCWide
MCTables ==
    LET moved == {Id(1, <<1>>), Id(2, <<1, 9>>)}
    IN  {<<>>, [i \in moved |-> Custom]}
=============================================================================
