---------------------------- MODULE MCUhubShared ----------------------------
(* One hub of two ports for two runs, for checking UhubShared. *)
EXTENDS UhubShared

R(as, rs, ns) == [action: as, repeat: {1}, reset: rs, nosysfs: ns]
MCHubArrays == {<<[dev |-> 1, nports |-> 2, actionable |-> 1]>>}
MCRequestsA == R({"off", "cycle"}, {FALSE}, BOOLEAN)
MCRequestsB == R({"on", "cycle"}, {FALSE}, BOOLEAN)
MCMasksA == {{1}}
MCMasksB == {{1}, {2}}
=============================================================================
