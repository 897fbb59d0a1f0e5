-------------------------- MODULE UhubSharedProofs --------------------------
(***************************************************************************)
(* Theorems about two runs of uhubctl on the same hubs, in every           *)
(* interleaving of their calls: for any hub array, masks and command       *)
(* lines.  What holds of one run, and what it does to another one, is      *)
(* proved in UhubPowerProofs.                                              *)
(***************************************************************************)
EXTENDS UhubShared, TLAPS

AP == INSTANCE UhubPowerProofs WITH
    Requests <- RequestsA, PortMasks <- MasksA, MaxRepower <- 0, PhysPorts <- {},
    opt <- optA, ports <- portsA, pc <- pcA, k <- kA, i <- iA, port <- portA,
    should_be_on <- wantA, left <- leftA, sent <- sentA, exit <- exitA, missed <- missedA

BP == INSTANCE UhubPowerProofs WITH
    Requests <- RequestsB, PortMasks <- MasksB, MaxRepower <- 0, PhysPorts <- {},
    opt <- optB, ports <- portsB, pc <- pcB, k <- kB, i <- iB, port <- portB,
    should_be_on <- wantB, left <- leftB, sent <- sentB, exit <- exitB, missed <- missedB

(***************************************************************************)
(* The steps of a run are the steps of the loop                            *)
(***************************************************************************)
LEMMA SameA == (A!Init => AP!Init) /\ (A!Run => AP!Run)
BY DEF A!Init, AP!Init, A!AllCells, AP!AllCells, A!HubCells, AP!HubCells, A!Cell, AP!Cell,
    A!PortsOf, AP!PortsOf, A!Run, AP!Run, A!SkipPhase, AP!SkipPhase, A!StartPhase, AP!StartPhase,
    A!Finish, AP!Finish, A!EndPhase, AP!EndPhase, A!Wake, AP!Wake, A!SkipHub, AP!SkipHub,
    A!OpenHub, AP!OpenHub, A!OpenFails, AP!OpenFails, A!PortsDone, AP!PortsDone,
    A!ResetHub, AP!ResetHub, A!SkipPort, AP!SkipPort, A!ReadStatus, AP!ReadStatus,
    A!SysfsWrite, AP!SysfsWrite, A!FallBack, AP!FallBack, A!Transfer, AP!Transfer,
    A!TransfersDone, AP!TransfersDone, A!input, AP!input, A!env, AP!env, A!ghost, AP!ghost,
    A!PhaseSkipped, AP!PhaseSkipped, A!AfterSleep, AP!AfterSleep, A!ExitCode, AP!ExitCode,
    A!AtHub, AP!AtHub, A!AtPort, AP!AtPort, A!WantedIn, AP!WantedIn, A!Selected, AP!Selected,
    A!NextPort, AP!NextPort, A!InMask, AP!InMask, A!ReadsOn, AP!ReadsOn, A!Here, AP!Here,
    A!Switched, AP!Switched

LEMMA SameB == (B!Init => BP!Init) /\ (B!Run => BP!Run)
BY DEF B!Init, BP!Init, B!AllCells, BP!AllCells, B!HubCells, BP!HubCells, B!Cell, BP!Cell,
    B!PortsOf, BP!PortsOf, B!Run, BP!Run, B!SkipPhase, BP!SkipPhase, B!StartPhase, BP!StartPhase,
    B!Finish, BP!Finish, B!EndPhase, BP!EndPhase, B!Wake, BP!Wake, B!SkipHub, BP!SkipHub,
    B!OpenHub, BP!OpenHub, B!OpenFails, BP!OpenFails, B!PortsDone, BP!PortsDone,
    B!ResetHub, BP!ResetHub, B!SkipPort, BP!SkipPort, B!ReadStatus, BP!ReadStatus,
    B!SysfsWrite, BP!SysfsWrite, B!FallBack, BP!FallBack, B!Transfer, BP!Transfer,
    B!TransfersDone, BP!TransfersDone, B!input, BP!input, B!env, BP!env, B!ghost, BP!ghost,
    B!PhaseSkipped, BP!PhaseSkipped, B!AfterSleep, BP!AfterSleep, B!ExitCode, BP!ExitCode,
    B!AtHub, BP!AtHub, B!AtPort, BP!AtPort, B!WantedIn, BP!WantedIn, B!Selected, BP!Selected,
    B!NextPort, BP!NextPort, B!InMask, BP!InMask, B!ReadsOn, BP!ReadsOn, B!Here, BP!Here,
    B!Switched, BP!Switched

\* What UhubPowerProofs assumes of the constants.
LEMMA Assumed ==
  /\ RequestsA \subseteq AP!Option /\ RequestsB \subseteq BP!Option
  /\ MasksA \subseteq SUBSET Nat /\ MasksB \subseteq SUBSET Nat
  /\ HubArrays \subseteq Seq(AP!Hub) /\ HubArrays \subseteq Seq(BP!Hub)
  /\ \A hs \in HubArrays : \A g, h \in DOMAIN hs : hs[g].dev = hs[h].dev => g = h
  /\ 0 \in Nat
<1>1. AP!Option = A!Option /\ BP!Option = B!Option
  BY DEF AP!Option, A!Option, AP!Actions, A!Actions, BP!Option, B!Option, BP!Actions, B!Actions
<1>2. AP!Hub = A!Hub /\ BP!Hub = A!Hub
  BY DEF AP!Hub, A!Hub, BP!Hub
<1> QED
  BY <1>1, <1>2, RunsAssumption, HubsAssumption

(***************************************************************************)
(* Types                                                                   *)
(***************************************************************************)
TypesA == AP!TypeOK /\ AP!ControlOK
TypesB == BP!TypeOK /\ BP!ControlOK
OneEach == \A g, h \in DOMAIN hubs : hubs[g].dev = hubs[h].dev => g = h
Types == TypesA /\ TypesB /\ OneEach

LEMMA InitTypes == Init => Types
<1>1. Init => AP!Init /\ BP!Init
  BY SameA, SameB DEF Init
<1>2. AP!Init => TypesA
  BY AP!InitTypeOK, AP!InitControlOK, Assumed DEF TypesA
<1>3. BP!Init => TypesB
  BY BP!InitTypeOK, BP!InitControlOK, Assumed DEF TypesB
<1>4. AP!Init => OneEach
  BY Assumed DEF AP!Init, OneEach
<1> QED
  BY <1>1, <1>2, <1>3, <1>4 DEF Types

\* What a step of a run leaves to the other one.
LEMMA StepOfA ==
  ASSUME Types, StepA
  PROVE  /\ AP!Run /\ AP!Next /\ TypesA' /\ UNCHANGED hubs
         /\ UNCHANGED BP!own /\ TypesB' /\ BP!CellsOK'
<1>1. AP!Run /\ AP!Next /\ UNCHANGED ownB
  BY SameA DEF StepA, AP!Next
<1>2. TypesA' /\ UNCHANGED hubs /\ UNCHANGED on0
  <2>1. AP!TypeOK'
    BY <1>1, AP!StepInputOK, AP!StepCellsOK, AP!StepLocalsOK, Assumed DEF Types, TypesA, AP!TypeOK
  <2>2. AP!ControlOK'
    BY <1>1, AP!StepControlOK, Assumed DEF Types, TypesA
  <2>3. UNCHANGED AP!input
    BY <1>1, AP!InputKept, Assumed
  <2> QED
    BY <2>1, <2>2, <2>3 DEF TypesA, AP!input
<1>3. UNCHANGED <<repowered, repowers>>
  BY <1>1, AP!RunIsNotKernel, Assumed
<1>4. UNCHANGED BP!own
  BY <1>1, <1>2, <1>3 DEF ownB, BP!own, BP!ghost
<1>5. BP!CellsOK'
  BY <1>2, <1>4 DEF TypesA, AP!TypeOK, AP!CellsOK, BP!CellsOK, Types, TypesB, BP!TypeOK, BP!own, BP!ghost
<1>6. TypesB'
  BY <1>4, <1>5, BP!UndisturbedTypes, Assumed DEF Types, TypesB
<1> QED
  BY <1>1, <1>2, <1>4, <1>5, <1>6

LEMMA StepOfB ==
  ASSUME Types, StepB
  PROVE  /\ BP!Run /\ BP!Next /\ TypesB' /\ UNCHANGED hubs
         /\ UNCHANGED AP!own /\ TypesA' /\ AP!CellsOK'
<1>1. BP!Run /\ BP!Next /\ UNCHANGED ownA
  BY SameB DEF StepB, BP!Next
<1>2. TypesB' /\ UNCHANGED hubs /\ UNCHANGED on0
  <2>1. BP!TypeOK'
    BY <1>1, BP!StepInputOK, BP!StepCellsOK, BP!StepLocalsOK, Assumed DEF Types, TypesB, BP!TypeOK
  <2>2. BP!ControlOK'
    BY <1>1, BP!StepControlOK, Assumed DEF Types, TypesB
  <2>3. UNCHANGED BP!input
    BY <1>1, BP!InputKept, Assumed
  <2> QED
    BY <2>1, <2>2, <2>3 DEF TypesB, BP!input
<1>3. UNCHANGED <<repowered, repowers>>
  BY <1>1, BP!RunIsNotKernel, Assumed
<1>4. UNCHANGED AP!own
  BY <1>1, <1>2, <1>3 DEF ownA, AP!own, AP!ghost
<1>5. AP!CellsOK'
  BY <1>2, <1>4 DEF TypesB, BP!TypeOK, BP!CellsOK, AP!CellsOK, Types, TypesA, AP!TypeOK, AP!own, AP!ghost
<1>6. TypesA'
  BY <1>4, <1>5, AP!UndisturbedTypes, Assumed DEF Types, TypesA
<1> QED
  BY <1>1, <1>2, <1>4, <1>5, <1>6

LEMMA StepTypes == Types /\ [Next]_vars => Types'
<1> SUFFICES ASSUME Types, [Next]_vars PROVE Types'
  OBVIOUS
<1>1. CASE StepA
  BY <1>1, StepOfA DEF Types, OneEach
<1>2. CASE StepB
  BY <1>2, StepOfB DEF Types, OneEach
<1>3. CASE UNCHANGED vars
  <2>1. UNCHANGED <<AP!own, on, blocked>> /\ UNCHANGED <<BP!own, hubs>>
    BY <1>3 DEF vars, ownA, ownB, AP!own, AP!ghost, BP!own, BP!ghost
  <2>2. AP!CellsOK' /\ BP!CellsOK'
    BY <2>1 DEF Types, TypesA, TypesB, AP!TypeOK, BP!TypeOK, AP!CellsOK, BP!CellsOK,
       AP!own, AP!ghost, BP!own, BP!ghost
  <2>3. TypesA'
    BY <2>1, <2>2, AP!UndisturbedTypes, Assumed DEF Types, TypesA
  <2>4. TypesB'
    BY <2>1, <2>2, BP!UndisturbedTypes, Assumed DEF Types, TypesB
  <2> QED
    BY <2>1, <2>3, <2>4 DEF Types, OneEach
<1> QED
  BY <1>1, <1>2, <1>3 DEF Next

(***************************************************************************)
(* Runs on different ports                                                 *)
(***************************************************************************)
\* Neither run resets the hub: a reset may power any port of it.
NoReset == ~optA.reset /\ ~optB.reset
Apart   == AP!SelectedCells \cap BP!SelectedCells = {}

\* Each run keeps the invariant it has when it is alone.
Alone == Apart => AP!Inv /\ BP!Inv
AloneInv == Types /\ NoReset /\ Alone

\* What the runs are asked does not change.
LEMMA AskedKept ==
  ASSUME Types, [Next]_vars
  PROVE  UNCHANGED <<hubs, optA, optB, portsA, portsB>>
<1>1. CASE StepA
  <2>1. UNCHANGED AP!input /\ UNCHANGED BP!own
    BY <1>1, StepOfA, AP!InputKept, Assumed
  <2> QED
    BY <2>1 DEF AP!input, BP!own
<1>2. CASE StepB
  <2>1. UNCHANGED BP!input /\ UNCHANGED AP!own
    BY <1>2, StepOfB, BP!InputKept, Assumed
  <2> QED
    BY <2>1 DEF BP!input, AP!own
<1> QED
  BY <1>1, <1>2 DEF Next, vars, ownA, ownB

LEMMA CellsKept ==
  ASSUME UNCHANGED <<hubs, portsA, portsB>>
  PROVE  /\ AP!SelectedCells' = AP!SelectedCells
         /\ BP!SelectedCells' = BP!SelectedCells
BY DEF AP!SelectedCells, BP!SelectedCells, AP!ActionableHubs, BP!ActionableHubs, AP!Selected,
   BP!Selected, AP!PortsOf, BP!PortsOf, AP!Cell, BP!Cell

LEMMA AloneStepA ==
  ASSUME AloneInv, Apart, StepA
  PROVE  AP!Inv' /\ BP!Inv'
<1>1. /\ AP!Run /\ AP!Next /\ AP!ControlOK /\ ~optA.reset
      /\ UNCHANGED BP!own /\ BP!CellsOK'
  BY StepOfA DEF AloneInv, Types, TypesA, NoReset
<1>2. AP!Inv'
  BY <1>1, AP!StepInv, Assumed DEF AloneInv, Alone
<1>3. \A c \in BP!SelectedCells : c \in on' <=> c \in on
  BY <1>1, AP!OthersCells, Assumed DEF Apart
<1>4. BP!Inv'
  BY <1>1, <1>3, BP!Undisturbed, Assumed DEF AloneInv, Alone
<1> QED
  BY <1>2, <1>4

LEMMA AloneStepB ==
  ASSUME AloneInv, Apart, StepB
  PROVE  BP!Inv' /\ AP!Inv'
<1>1. /\ BP!Run /\ BP!Next /\ BP!ControlOK /\ ~optB.reset
      /\ UNCHANGED AP!own /\ AP!CellsOK'
  BY StepOfB DEF AloneInv, Types, TypesB, NoReset
<1>2. BP!Inv'
  BY <1>1, BP!StepInv, Assumed DEF AloneInv, Alone
<1>3. \A c \in AP!SelectedCells : c \in on' <=> c \in on
  BY <1>1, BP!OthersCells, Assumed DEF Apart
<1>4. AP!Inv'
  BY <1>1, <1>3, AP!Undisturbed, Assumed DEF AloneInv, Alone
<1> QED
  BY <1>2, <1>4

LEMMA AloneStep == AloneInv /\ [Next]_vars => AloneInv'
<1> SUFFICES ASSUME AloneInv, [Next]_vars PROVE AloneInv'
  OBVIOUS
<1>1. Types' /\ NoReset'
  BY StepTypes, AskedKept DEF AloneInv, NoReset
<1>2. Apart' <=> Apart
  BY AskedKept, CellsKept DEF AloneInv, Apart
<1>3. ASSUME Apart PROVE AP!Inv' /\ BP!Inv'
  <2>1. CASE StepA
    BY <1>3, <2>1, AloneStepA
  <2>2. CASE StepB
    BY <1>3, <2>2, AloneStepB
  <2>3. CASE UNCHANGED vars
    <3>1. UNCHANGED AP!vars /\ UNCHANGED BP!vars
      BY <2>3 DEF vars, ownA, ownB, AP!vars, AP!input, AP!env, AP!ghost, BP!vars, BP!input, BP!env,
         BP!ghost
    <3> QED
      BY <1>3, <3>1, AP!StepInv, BP!StepInv, Assumed DEF AloneInv, Alone
  <2> QED
    BY <2>1, <2>2, <2>3 DEF Next
<1> QED
  BY <1>1, <1>2, <1>3 DEF AloneInv, Alone

LEMMA AloneInit == Init /\ NoReset => AloneInv
<1>1. Init => AP!Init /\ BP!Init
  BY SameA, SameB DEF Init
<1>2. (AP!Init => AP!Inv) /\ (BP!Init => BP!Inv)
  BY AP!InitInv, BP!InitInv, Assumed
<1> QED
  BY <1>1, <1>2, InitTypes DEF AloneInv, Alone

LEMMA AloneGoals == AloneInv => IndependentPorts
<1>1. Disjoint <=> Apart
  BY DEF Disjoint, Apart, A!SelectedCells, B!SelectedCells, AP!SelectedCells, BP!SelectedCells,
     A!ActionableHubs, B!ActionableHubs, AP!ActionableHubs, BP!ActionableHubs, A!Selected,
     B!Selected, AP!Selected, BP!Selected, A!PortsOf, B!PortsOf, AP!PortsOf, BP!PortsOf,
     A!Cell, B!Cell, AP!Cell, BP!Cell
<1>2. AP!Inv => AP!OffReached /\ AP!OnReached
  BY AP!InvGoals, Assumed
<1>3. BP!Inv => BP!OffReached /\ BP!OnReached
  BY BP!InvGoals, Assumed
<1>4. AP!OffReached /\ AP!OnReached => A!OffReached /\ A!OnReached
  BY DEF A!OffReached, AP!OffReached, A!OnReached, AP!OnReached, A!ExcusedOff, AP!ExcusedOff,
     A!ExcusedOn, AP!ExcusedOn, A!SelectedCells, AP!SelectedCells, A!ActionableHubs,
     AP!ActionableHubs, A!Selected, AP!Selected, A!PortsOf, AP!PortsOf, A!Cell, AP!Cell
<1>5. BP!OffReached /\ BP!OnReached => B!OffReached /\ B!OnReached
  BY DEF B!OffReached, BP!OffReached, B!OnReached, BP!OnReached, B!ExcusedOff, BP!ExcusedOff,
     B!ExcusedOn, BP!ExcusedOn, B!SelectedCells, BP!SelectedCells, B!ActionableHubs,
     BP!ActionableHubs, B!Selected, BP!Selected, B!PortsOf, BP!PortsOf, B!Cell, BP!Cell
<1> QED
  BY <1>1, <1>2, <1>3, <1>4, <1>5 DEF AloneInv, Alone, IndependentPorts

\* Two runs on different ports of the same hubs, neither of which resets a hub,
\* do not disturb each other: in every interleaving of their reads and switches
\* each ends, and sleeps, as if it had been alone.
THEOREM IndependentPortsSafe == Spec /\ NoReset => []IndependentPorts
BY AloneInit, AloneStep, AloneGoals, PTL DEF Spec

(***************************************************************************)
(* Runs that both end by switching on                                      *)
(*                                                                         *)
(* While one of the runs still has the port before it nothing is claimed:  *)
(* the first phase of a late cycle may take the power an early one gave.   *)
(* Once both have powered a port, neither takes power any more.            *)
(***************************************************************************)
BothPower == optA.action \in {"on", "cycle"} /\ optB.action \in {"on", "cycle"}

DoneA(h, p) == p \in AP!Selected(h) => AP!Powered(h, p)
DoneB(h, p) == p \in BP!Selected(h) => BP!Powered(h, p)
Excused(h, p) == <<1, hubs[h].dev, p>> \in missedA \cup missedB

\* A port that every run which is asked to has powered, is powered, unless a
\* call of a second phase has failed on it.
Lit ==
    \A h \in AP!ActionableHubs : \A p \in AP!Selected(h) \cup BP!Selected(h) :
        DoneA(h, p) /\ DoneB(h, p) => Excused(h, p) \/ AP!Cell(h, p) \in on

LitInv == Types /\ (BothPower => Lit)

LEMMA LitStepA ==
  ASSUME Types, Lit, BothPower, StepA,
         NEW h \in AP!ActionableHubs, NEW p \in AP!Selected(h) \cup BP!Selected(h),
         DoneA(h, p)', DoneB(h, p)'
  PROVE  Excused(h, p)' \/ AP!Cell(h, p) \in on'
<1>1. /\ AP!Run /\ AP!Next /\ TypesA /\ OneEach /\ UNCHANGED hubs /\ UNCHANGED BP!own
  BY StepOfA DEF Types
<1>2. UNCHANGED <<optA, optB, portsA, portsB>>
  BY AskedKept DEF Next
<1>3. AP!Selected(h)' = AP!Selected(h) /\ BP!Selected(h)' = BP!Selected(h)
  BY <1>1, <1>2 DEF AP!Selected, BP!Selected, AP!PortsOf, BP!PortsOf
<1>4. DoneB(h, p)
  BY <1>1, <1>3 DEF DoneB, BP!Powered, BP!PassedOn, BP!Passed, BP!InHub, BP!own
<1>5. Excused(h, p) => Excused(h, p)'
  <2>1. missedA \subseteq missedA'
    BY <1>1, AP!StepCellsOK, Assumed DEF TypesA
  <2>2. missedB' = missedB
    BY <1>1 DEF BP!own, BP!ghost
  <2> QED
    BY <1>1, <2>1, <2>2 DEF Excused
<1>6. DoneA(h, p) => Excused(h, p) \/ AP!Cell(h, p) \in on
  BY <1>4 DEF Lit
<1>7. CASE p \in AP!Selected(h)
  <2>1. AP!Powered(h, p)'
    BY <1>3, <1>7 DEF DoneA
  <2>2. CASE AP!Powered(h, p)
    <3>1. on \subseteq on'
      BY <1>1, <1>7, <2>2, AP!PoweredStays, Assumed DEF TypesA, BothPower
    <3>2. DoneA(h, p)
      BY <2>2 DEF DoneA
    <3> QED
      BY <1>5, <1>6, <3>1, <3>2
  <2>3. CASE ~AP!Powered(h, p)
    <3>1. AP!Cell(h, p) \in on' \/ <<1, hubs[h].dev, p>> \in missedA'
      BY <1>1, <1>7, <2>1, <2>3, AP!PoweredThen, Assumed DEF TypesA, BothPower
    <3> QED
      BY <1>1, <3>1 DEF Excused
  <2> QED
    BY <2>2, <2>3
<1>8. CASE p \notin AP!Selected(h)
  <2>1. AP!Cell(h, p) \notin AP!SelectedCells
    <3> SUFFICES ASSUME NEW g \in AP!ActionableHubs, NEW q \in AP!Selected(g),
                        AP!Cell(h, p) = AP!Cell(g, q)
                 PROVE  FALSE
      BY DEF AP!SelectedCells
    <3>1. hubs[g].dev = hubs[h].dev /\ q = p
      BY DEF AP!Cell
    <3>2. g = h
      BY <1>1, <3>1 DEF OneEach, AP!ActionableHubs
    <3> QED
      BY <1>8, <3>1, <3>2
  <2>2. AP!Cell(h, p) \in on => AP!Cell(h, p) \in on'
    BY <1>1, <2>1, AP!OthersCells, Assumed DEF TypesA
  <2>3. DoneA(h, p)
    BY <1>8 DEF DoneA
  <2> QED
    BY <1>5, <1>6, <2>2, <2>3
<1> QED
  BY <1>7, <1>8

LEMMA LitStepB ==
  ASSUME Types, Lit, BothPower, StepB,
         NEW h \in AP!ActionableHubs, NEW p \in AP!Selected(h) \cup BP!Selected(h),
         DoneA(h, p)', DoneB(h, p)'
  PROVE  Excused(h, p)' \/ AP!Cell(h, p) \in on'
<1>0. BP!ActionableHubs = AP!ActionableHubs /\ \A g, q : BP!Cell(g, q) = AP!Cell(g, q)
  BY DEF BP!ActionableHubs, AP!ActionableHubs, BP!Cell, AP!Cell
<1>1. /\ BP!Run /\ BP!Next /\ TypesB /\ OneEach /\ UNCHANGED hubs /\ UNCHANGED AP!own
  BY StepOfB DEF Types
<1>2. UNCHANGED <<optB, optA, portsB, portsA>>
  BY AskedKept DEF Next
<1>3. BP!Selected(h)' = BP!Selected(h) /\ AP!Selected(h)' = AP!Selected(h)
  BY <1>1, <1>2 DEF BP!Selected, AP!Selected, BP!PortsOf, AP!PortsOf
<1>4. DoneA(h, p)
  BY <1>1, <1>3 DEF DoneA, AP!Powered, AP!PassedOn, AP!Passed, AP!InHub, AP!own
<1>5. Excused(h, p) => Excused(h, p)'
  <2>1. missedB \subseteq missedB'
    BY <1>1, BP!StepCellsOK, Assumed DEF TypesB
  <2>2. missedA' = missedA
    BY <1>1 DEF AP!own, AP!ghost
  <2> QED
    BY <1>1, <2>1, <2>2 DEF Excused
<1>6. DoneB(h, p) => Excused(h, p) \/ BP!Cell(h, p) \in on
  BY <1>0, <1>4 DEF Lit
<1>7. CASE p \in BP!Selected(h)
  <2>1. BP!Powered(h, p)'
    BY <1>3, <1>7 DEF DoneB
  <2>2. CASE BP!Powered(h, p)
    <3>1. on \subseteq on'
      BY <1>0, <1>1, <1>7, <2>2, BP!PoweredStays, Assumed DEF TypesB, BothPower
    <3>2. DoneB(h, p)
      BY <2>2 DEF DoneB
    <3> QED
      BY <1>0, <1>5, <1>6, <3>1, <3>2
  <2>3. CASE ~BP!Powered(h, p)
    <3>1. BP!Cell(h, p) \in on' \/ <<1, hubs[h].dev, p>> \in missedB'
      BY <1>0, <1>1, <1>7, <2>1, <2>3, BP!PoweredThen, Assumed DEF TypesB, BothPower
    <3> QED
      BY <1>0, <1>1, <3>1 DEF Excused
  <2> QED
    BY <2>2, <2>3
<1>8. CASE p \notin BP!Selected(h)
  <2>1. BP!Cell(h, p) \notin BP!SelectedCells
    <3> SUFFICES ASSUME NEW g \in BP!ActionableHubs, NEW q \in BP!Selected(g),
                        BP!Cell(h, p) = BP!Cell(g, q)
                 PROVE  FALSE
      BY DEF BP!SelectedCells
    <3>1. hubs[g].dev = hubs[h].dev /\ q = p
      BY DEF BP!Cell
    <3>2. g = h
      BY <1>0, <1>1, <3>1 DEF OneEach, AP!ActionableHubs
    <3> QED
      BY <1>8, <3>1, <3>2
  <2>2. BP!Cell(h, p) \in on => BP!Cell(h, p) \in on'
    BY <1>1, <2>1, BP!OthersCells, Assumed DEF TypesB
  <2>3. DoneB(h, p)
    BY <1>8 DEF DoneB
  <2> QED
    BY <1>0, <1>5, <1>6, <2>2, <2>3
<1> QED
  BY <1>7, <1>8

LEMMA LitStep == LitInv /\ [Next]_vars => LitInv'
<1> SUFFICES ASSUME LitInv, [Next]_vars PROVE LitInv'
  OBVIOUS
<1>1. Types /\ Types' /\ UNCHANGED <<hubs, optA, optB, portsA, portsB>>
  BY StepTypes, AskedKept DEF LitInv
<1>2. BothPower' <=> BothPower
  BY <1>1 DEF BothPower
<1>3. /\ AP!ActionableHubs' = AP!ActionableHubs
      /\ \A h : AP!Selected(h)' = AP!Selected(h) /\ BP!Selected(h)' = BP!Selected(h)
      /\ \A h, p : AP!Cell(h, p)' = AP!Cell(h, p)
  BY <1>1 DEF AP!ActionableHubs, AP!Selected, BP!Selected, AP!PortsOf, BP!PortsOf, AP!Cell
<1>4. ASSUME BothPower PROVE Lit'
  <2> SUFFICES ASSUME NEW h \in AP!ActionableHubs, NEW p \in AP!Selected(h) \cup BP!Selected(h),
                      DoneA(h, p)', DoneB(h, p)'
               PROVE  Excused(h, p)' \/ AP!Cell(h, p) \in on'
    BY <1>3 DEF Lit
  <2>1. CASE StepA
    BY <1>1, <1>4, <2>1, LitStepA DEF LitInv
  <2>2. CASE StepB
    BY <1>1, <1>4, <2>2, LitStepB DEF LitInv
  <2>3. CASE UNCHANGED vars
    BY <1>4, <2>3 DEF LitInv, Lit, vars, ownA, ownB, DoneA, DoneB, Excused, AP!Powered, BP!Powered,
       AP!PassedOn, BP!PassedOn, AP!Passed, BP!Passed, AP!Selected, BP!Selected, AP!PortsOf,
       BP!PortsOf
  <2> QED
    BY <2>1, <2>2, <2>3 DEF Next
<1> QED
  BY <1>1, <1>2, <1>4 DEF LitInv

LEMMA LitInit == Init => LitInv
<1> SUFFICES ASSUME Init PROVE LitInv
  OBVIOUS
<1>1. pcA = "phase" /\ kA = 0 /\ pcB = "phase" /\ kB = 0
  BY DEF Init, A!Init, B!Init
<1>2. ASSUME NEW h, NEW p PROVE ~AP!Powered(h, p) /\ ~BP!Powered(h, p)
  BY <1>1 DEF AP!Powered, BP!Powered, AP!PassedOn, BP!PassedOn, AP!Passed, BP!Passed,
     AP!InHub, BP!InHub
<1>3. Lit
  BY <1>2 DEF Lit, DoneA, DoneB
<1> QED
  BY <1>3, InitTypes DEF LitInv

LEMMA LitGoal == LitInv => CyclesEndOn
<1> SUFFICES ASSUME LitInv, BothDone, optA.action = "cycle", optB.action = "cycle",
                    NEW c \in A!SelectedCells \cup B!SelectedCells
             PROVE  c \in on \/ A!ExcusedOn(c) \/ B!ExcusedOn(c)
  BY DEF CyclesEndOn
<1>1. Lit /\ kA = 2 /\ kB = 2
  BY DEF LitInv, BothPower, BothDone, Types, TypesA, TypesB, AP!ControlOK, BP!ControlOK
<1>0. PICK h \in AP!ActionableHubs :
         \E p \in AP!Selected(h) \cup BP!Selected(h) : c = AP!Cell(h, p)
  BY DEF A!SelectedCells, B!SelectedCells, A!ActionableHubs, B!ActionableHubs, AP!ActionableHubs,
     A!Selected, B!Selected, AP!Selected, BP!Selected, A!PortsOf, B!PortsOf, AP!PortsOf,
     BP!PortsOf, A!Cell, B!Cell, AP!Cell
<1>2. PICK p \in AP!Selected(h) \cup BP!Selected(h) : c = AP!Cell(h, p)
  BY <1>0
<1>3. DoneA(h, p) /\ DoneB(h, p)
  BY <1>1 DEF DoneA, DoneB, AP!Powered, BP!Powered, AP!PassedOn, BP!PassedOn
<1>4. Excused(h, p) \/ c \in on
  BY <1>1, <1>2, <1>3 DEF Lit
<1>5. c[1] = hubs[h].dev /\ c[2] = p
  BY <1>2 DEF AP!Cell
<1> QED
  BY <1>4, <1>5 DEF Excused, A!ExcusedOn, B!ExcusedOn

\* Two cycles of the same ports, also with resets, end with every port of both
\* powered, in every interleaving of their reads and switches, unless a call of
\* a second phase failed on the port.
THEOREM CyclesEndOnSafe == Spec => []CyclesEndOn
BY LitInit, LitStep, LitGoal, PTL DEF Spec
=============================================================================
