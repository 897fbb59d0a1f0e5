---------------------------- MODULE UhubContract ----------------------------
(***************************************************************************)
(* The action loop keeps the promise of PortContract.  A physical port has *)
(* power as long as one of the two virtual hubs it belongs to powers it;   *)
(* giving power therefore fails only when it failed on every half.         *)
(***************************************************************************)
EXTENDS UhubPower

CONSTANT PhysPorts   \* the numbers of the physical ports

Halves(p) == {h \in ActionableHubs : p \in Selected(h)}

Raising == opt.action = "on" \/ (opt.action = "cycle" /\ k >= 1)
Stage ==
    CASE pc = "done"                                -> "finished"
      [] pc = "sleep"                               -> "dark"
      [] pc \notin {"done", "sleep"} /\ Raising     -> "raising"
      [] pc \notin {"done", "sleep"} /\ ~Raising    -> "dropping"

Wanted == {p \in PhysPorts : Halves(p) # {}}
Vbus   == {p \in PhysPorts : \E h \in ActionableHubs : Cell(h, p) \in on}
\* Going dark is excused by a failure on one half, getting power by one on all.
ExcusedDark  == {p \in PhysPorts : \E h \in ActionableHubs : ExcusedOff(Cell(h, p))}
ExcusedLight == {p \in Wanted : \A h \in Halves(p) : ExcusedOn(Cell(h, p))}

Contract == INSTANCE PortContract WITH
    PhysPorts <- PhysPorts,
    resets    <- opt.reset,
    action    <- opt.action,
    wanted    <- Wanted,
    vbus      <- Vbus,
    stage     <- Stage,
    excused   <- {"dropping"} \X ExcusedDark \cup {"raising"} \X ExcusedLight

\* The loop implements the promise: its user's ports go dark together before
\* any is powered, stay with their power unless asked for, and end as asked.
KeepsContract == Contract!CSpec
=============================================================================
