---------------------------- MODULE MCUhubPower ----------------------------
(* Small hub arrays and command lines for checking UhubPower. *)
EXTENDS UhubContract

H(d, n, a) == [dev |-> d, nports |-> n, actionable |-> a]
R(as, rs, rep, ns) == [action: as, repeat: rep, reset: rs, nosysfs: ns]

\* The two halves of a USB3 hub with unequal port counts; a bystander hub
\* before a single USB2 hub.
MCHubArrays == {<<H(1, 2, 1), H(2, 1, 2)>>, <<H(1, 1, 0), H(2, 2, 1)>>}
MCPortMasks == {{1}, {1, 2}}

MCRequests ==
    R(Actions, {FALSE}, {1}, {FALSE})
      \cup R({"on", "cycle"}, {TRUE}, {1}, {TRUE})
      \cup R({"off"}, {FALSE}, {-1, 2}, {TRUE})
=============================================================================
