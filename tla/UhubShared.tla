----------------------------- MODULE UhubShared -----------------------------
(***************************************************************************)
(* Two runs of uhubctl at the same time on one hub: nothing locks a hub,   *)
(* and a run reads a port's status in one call and switches it in another. *)
(* The runs share the hardware and the kernel's record of disabled ports;  *)
(* everything else is their own.                                           *)
(***************************************************************************)
EXTENDS Integers, Sequences, FiniteSets

CONSTANTS RequestsA, RequestsB, HubArrays, MasksA, MasksB

VARIABLES
    hubs, on0, on, blocked, repowered, repowers,
    optA, portsA, pcA, kA, iA, portA, wantA, leftA, sentA, exitA, missedA,
    optB, portsB, pcB, kB, iB, portB, wantB, leftB, sentB, exitB, missedB

A == INSTANCE UhubPower WITH
    Requests <- RequestsA, PortMasks <- MasksA, MaxRepower <- 0,
    opt <- optA, ports <- portsA, pc <- pcA, k <- kA, i <- iA, port <- portA,
    should_be_on <- wantA, left <- leftA, sent <- sentA, exit <- exitA, missed <- missedA

B == INSTANCE UhubPower WITH
    Requests <- RequestsB, PortMasks <- MasksB, MaxRepower <- 0,
    opt <- optB, ports <- portsB, pc <- pcB, k <- kB, i <- iB, port <- portB,
    should_be_on <- wantB, left <- leftB, sent <- sentB, exit <- exitB, missed <- missedB

ASSUME RunsAssumption ==
    /\ RequestsA \subseteq A!Option /\ MasksA \subseteq SUBSET Nat
    /\ RequestsB \subseteq B!Option /\ MasksB \subseteq SUBSET Nat
ASSUME HubsAssumption ==
    /\ HubArrays \subseteq Seq(A!Hub)
    /\ \A hs \in HubArrays : \A g, h \in DOMAIN hs : hs[g].dev = hs[h].dev => g = h

ownA == <<optA, portsA, pcA, kA, iA, portA, wantA, leftA, sentA, exitA, missedA>>
ownB == <<optB, portsB, pcB, kB, iB, portB, wantB, leftB, sentB, exitB, missedB>>
vars == <<hubs, on0, on, blocked, repowered, repowers, ownA, ownB>>

Init == A!Init /\ B!Init

StepA == A!Run /\ UNCHANGED ownB
StepB == B!Run /\ UNCHANGED ownA

Next == StepA \/ StepB

Spec == Init /\ [][Next]_vars

(***************************************************************************)
(* Properties                                                              *)
(***************************************************************************)
Disjoint == A!SelectedCells \cap B!SelectedCells = {}
BothDone == pcA = "done" /\ pcB = "done"

\* Runs on different ports of a hub do not disturb each other: each ends as if
\* it had been alone.
IndependentPorts ==
    Disjoint => /\ A!OffReached /\ A!OnReached
                /\ B!OffReached /\ B!OnReached

\* Two cycles of one port end with the port powered, whichever read, skipped
\* or switched what the other had just switched, unless a call of a second
\* phase failed.
CyclesEndOn ==
    BothDone /\ optA.action = "cycle" /\ optB.action = "cycle" =>
        \A c \in A!SelectedCells \cup B!SelectedCells :
            c \in on \/ A!ExcusedOn(c) \/ B!ExcusedOn(c)
=============================================================================
