----------------------------- MODULE MCUhubctl -----------------------------
(* A tree of one USB3 hub and a bystander, and command lines of two to  *)
(* four options, for checking Uhubctl.                                     *)
EXTENDS Uhubctl

HubDev(ph, bus, path, bcd, cid) ==
    [phys |-> ph, bus |-> bus, path |-> path, broken |-> FALSE, match |-> FALSE, hub |-> TRUE,
     answer |-> "ok", bcd |-> bcd, nports |-> 2, lpsm |-> "indv", vendor |-> "05e3:0610",
     serial |-> "", bos |-> TRUE, cid |-> cid]

MCTrees == {<<HubDev("A", 1, <<1>>, "2.x", "a"), HubDev("B", 1, <<2>>, "2.x", None),
              HubDev("A", 2, <<1>>, "3.1", "a")>>}

Op(name, vals) == {[name |-> name, val |-> v] : v \in vals}

Act   == Op("action", {"off", "on", "cycle"})
Where == Op("location", {<<1, <<1>>>>, <<2, <<1>>>>})
List  == Op("ports", {<<>>, <<<<1, 1>>>>, <<<<2, 2>>, <<1, 1>>>>, <<<<1, 2>>>>,
                      <<<<2, 1>>>>, <<<<1, 15>>>>, <<<<2, 2>>, <<0, 0>>>>})
Flags == Op("exact", {TRUE}) \cup Op("nosysfs", {TRUE})
Rest  == Op("action", {"offf"}) \cup Op("repeat", {0, 2}) \cup Op("all", {""}) \cup Op("other", {""})
           \cup Op("version", {""}) \cup Op("help", {""}) \cup Op("unknown", {""})
Any   == Act \cup Where \cup List \cup Flags \cup Rest

One(name, v) == [name |-> name, val |-> v]
On1 == One("location", <<1, <<1>>>>)

\* Without a place the bystander makes the run stop at its guard: three of any
\* kind in any order.  With one it goes ahead: the two halves, a slip before or
\* after the options that matter, two lists, two actions.
Refused == {<<x, y, z>> : x \in Any \ Where, y \in List \cup Rest, z \in Act \cup List}
Going ==
    {<<a, w>> : a \in Act, w \in Where}
      \cup {<<On1, One("action", "off"), x>> : x \in Flags \cup Rest}
      \cup {<<x, One("action", "cycle"), On1>> : x \in List}
      \cup {<<One("action", "off"), x, On1, One("ports", <<>>)>> : x \in List}
      \cup {<<One("ports", <<<<1, 2>>>>), On1, x, One("action", "off")>> : x \in List}
      \cup {<<One("action", "on"), On1, x, One("action", "offf")>> : x \in Act}
      \cup {<<a, One("reset", TRUE), On1>> : a \in Act}
MCCommandLines ==
    [opts: Refused \cup Going, stray: {FALSE}] \cup [opts: {<<a, On1>> : a \in Act}, stray: {TRUE}]
=============================================================================
