-------------------------- MODULE UhubPowerProofs --------------------------
(***************************************************************************)
(* Theorems about the action loop of uhubctl, for every hub array, mask    *)
(* and command line, any failures and any number of kernel re-powerings.   *)
(***************************************************************************)
EXTENDS UhubContract, TLAPS

(***************************************************************************)
(* Type correctness                                                        *)
(***************************************************************************)
LEMMA HubType ==
  ASSUME hubs \in Seq(Hub), NEW h \in DOMAIN hubs
  PROVE  /\ hubs[h] \in Hub
         /\ hubs[h].dev \in Nat /\ hubs[h].nports \in Nat /\ hubs[h].actionable \in 0..2
<1>1. hubs[h] \in Hub
  OBVIOUS
<1> QED
  BY <1>1 DEF Hub

LEMMA HubCellsType ==
  ASSUME hubs \in Seq(Hub), NEW h \in DOMAIN hubs
  PROVE  HubCells(h) \subseteq Nat \X Nat
<1>1. hubs[h].dev \in Nat /\ hubs[h].nports \in Nat
  BY HubType
<1> QED
  BY <1>1 DEF HubCells, Cell, PortsOf

LEMMA AllCellsType ==
  ASSUME hubs \in Seq(Hub)
  PROVE  AllCells \subseteq Nat \X Nat
<1> SUFFICES ASSUME NEW c \in AllCells PROVE c \in Nat \X Nat
  OBVIOUS
<1>1. PICK h \in DOMAIN hubs : c \in HubCells(h)
  BY DEF AllCells
<1> QED
  BY <1>1, HubCellsType

\* A cell the loop works on is a pair of numbers.
LEMMA HereType ==
  ASSUME TypeOK, i \in DOMAIN hubs
  PROVE  Here \in Nat \X Nat
<1>1. hubs[i].dev \in Nat
  BY HubType DEF TypeOK, InputOK
<1> QED
  BY <1>1 DEF TypeOK, LocalsOK, Here, Cell

LEMMA InitTypeOK == Init => TypeOK
<1> SUFFICES ASSUME Init PROVE TypeOK
  OBVIOUS
<1>1. InputOK
  BY RequestsAssumption, HubArraysAssumption, PortMasksAssumption DEF Init, InputOK
<1>2. AllCells \subseteq Nat \X Nat
  BY <1>1, AllCellsType DEF InputOK
<1>3. CellsOK
  <2>1. on0 \subseteq Nat \X Nat /\ on \subseteq Nat \X Nat
    BY <1>2 DEF Init
  <2>2. blocked \subseteq Nat \X Nat
    BY <1>2 DEF Init
  <2>3. missed = {} /\ repowered = {}
    BY DEF Init
  <2> QED
    BY <2>1, <2>2, <2>3 DEF CellsOK
<1>4. LocalsOK
  <2>1. sent \in BOOLEAN /\ should_be_on \in BOOLEAN
    BY DEF Init
  <2> QED
    BY <2>1, MaxRepowerAssumption DEF Init, LocalsOK
<1> QED
  BY <1>1, <1>3, <1>4 DEF TypeOK

(***************************************************************************)
(* Where the loop is, as far as what it does depends on it                 *)
(***************************************************************************)
InHub == {"port", "set", "transfer", "reset"}
ControlOK ==
    /\ pc \in {"hub", "port", "set", "transfer", "reset", "sleep"} =>
          k < 2 /\ ~PhaseSkipped(opt.action, k)
    /\ pc \in InHub => i \in ActionableHubs /\ opt.action # "keep"
    /\ pc \in {"set", "transfer"} => port \in Selected(i)
    /\ pc = "reset" => k = 1 /\ opt.reset /\ port > hubs[i].nports
    /\ pc \in InHub /\ opt.action # "toggle" => (should_be_on <=> k = 1)
    /\ pc = "sleep" => k = 0 /\ opt.action = "cycle"
    /\ pc = "done" => k = 2
    /\ i >= 1 /\ port >= 1

LEMMA InitControlOK == Init => ControlOK
BY DEF Init, ControlOK, InHub

\* What no step changes.
LEMMA InputKept == [Next]_vars => UNCHANGED input
BY DEF Next, Run, vars, SkipPhase, StartPhase, Finish, EndPhase, Wake, SkipHub, OpenHub,
       OpenFails, PortsDone, ResetHub, SkipPort, ReadStatus, SysfsWrite, FallBack, Transfer,
       TransfersDone, KernelRepower

LEMMA StepInputOK == InputOK /\ [Next]_vars => InputOK'
BY InputKept DEF InputOK, input

LEMMA StepLocalsOK ==
  ASSUME TypeOK, ControlOK, [Next]_vars
  PROVE  LocalsOK'
<1>1. opt.repeat \in Int
  BY DEF TypeOK, InputOK, Option
<1>2. LocalsOK
  BY DEF TypeOK
<1>a. CASE SkipPhase
  BY <1>a, <1>2 DEF SkipPhase, LocalsOK, ghost
<1>b. CASE StartPhase
  BY <1>b, <1>2 DEF StartPhase, LocalsOK, ghost
<1>c. CASE Finish
  BY <1>c, <1>2 DEF Finish, ExitCode, LocalsOK, ghost
<1>d. CASE EndPhase
  BY <1>d, <1>2 DEF EndPhase, LocalsOK, ControlOK, ghost
<1>e. CASE Wake
  BY <1>e, <1>2 DEF Wake, AfterSleep, LocalsOK, ControlOK, ghost
<1>f. CASE SkipHub
  BY <1>f, <1>2 DEF SkipHub, LocalsOK, ghost
<1>g. CASE OpenHub
  BY <1>g, <1>2 DEF OpenHub, AtHub, WantedIn, LocalsOK, ghost
<1>h. CASE OpenFails
  BY <1>h, <1>2 DEF OpenFails, AtHub, LocalsOK
<1>i. CASE PortsDone
  BY <1>i, <1>2 DEF PortsDone, LocalsOK, ghost
<1>j. CASE ResetHub
  BY <1>j, <1>2 DEF ResetHub, LocalsOK, ghost
<1>k. CASE SkipPort
  BY <1>k, <1>2 DEF SkipPort, NextPort, LocalsOK, ghost
<1>l. CASE ReadStatus
  <2>1. should_be_on' \in BOOLEAN
    BY <1>l, <1>2 DEF ReadStatus, LocalsOK
  <2>2. pc' \in {"port", "set"} /\ port' \in Nat
    BY <1>l, <1>2 DEF ReadStatus, NextPort, LocalsOK
  <2> QED
    BY <1>l, <1>2, <2>1, <2>2 DEF ReadStatus, LocalsOK
<1>m. CASE SysfsWrite
  BY <1>m, <1>2 DEF SysfsWrite, NextPort, LocalsOK, ghost
<1>n. CASE FallBack
  <2>1. sent' \in BOOLEAN
    BY <1>n DEF FallBack
  <2>2. left' \in Int
    BY <1>n, <1>1 DEF FallBack
  <2> QED
    BY <1>n, <1>2, <2>1, <2>2 DEF FallBack, LocalsOK, ghost
<1>o. CASE Transfer
  <2>1. sent' \in BOOLEAN
    BY <1>o, <1>2 DEF Transfer, LocalsOK
  <2>2. left' \in Int
    BY <1>o, <1>2 DEF Transfer, LocalsOK
  <2> QED
    BY <1>o, <1>2, <2>1, <2>2 DEF Transfer, LocalsOK, ghost
<1>p. CASE TransfersDone
  <2>1. sent' \in BOOLEAN
    BY <1>p DEF TransfersDone
  <2>2. left' \in Int
    BY <1>p DEF TransfersDone
  <2> QED
    BY <1>p, <1>2, <2>1, <2>2 DEF TransfersDone, NextPort, LocalsOK
<1>q. CASE KernelRepower
  BY <1>q, <1>2, MaxRepowerAssumption DEF KernelRepower, LocalsOK
<1>r. CASE UNCHANGED vars
  BY <1>r, <1>2 DEF vars, LocalsOK, ghost
<1> QED
  BY <1>a, <1>b, <1>c, <1>d, <1>e, <1>f, <1>g, <1>h, <1>i, <1>j, <1>k, <1>l, <1>m,
     <1>n, <1>o, <1>p, <1>q, <1>r DEF Next, Run

\* The history only grows, and the hardware cells stay pairs of numbers.
LEMMA StepCellsOK ==
  ASSUME TypeOK, ControlOK, [Next]_vars
  PROVE  CellsOK' /\ missed \subseteq missed' /\ repowered \subseteq repowered'
<1>1. /\ on0 \subseteq Nat \X Nat /\ on \subseteq Nat \X Nat /\ blocked \subseteq Nat \X Nat
      /\ missed \subseteq (0..1) \X Nat \X Nat /\ repowered \subseteq Nat \X Nat
  BY DEF TypeOK, CellsOK
<1>2. i \in Nat /\ port \in Nat /\ k \in 0..2 /\ hubs \in Seq(Hub) /\ ports \subseteq Nat
  BY DEF TypeOK, LocalsOK, InputOK
<1>3. pc \in InHub => i \in DOMAIN hubs
  BY DEF ControlOK, ActionableHubs
<1>4. pc \in InHub => Here \in Nat \X Nat
  BY <1>3, HereType
<1>5. pc \in InHub => k \in 0..1 /\ <<k, hubs[i].dev, port>> \in (0..1) \X Nat \X Nat
  <2> SUFFICES ASSUME pc \in InHub PROVE k \in 0..1 /\ <<k, hubs[i].dev, port>> \in (0..1) \X Nat \X Nat
    OBVIOUS
  <2>1. k \in 0..1
    BY <1>2 DEF ControlOK, InHub
  <2> QED
    BY <1>2, <1>3, <2>1, HubType
<1>6. on0' = on0
  BY InputKept DEF input
<1>a. CASE UNCHANGED <<env, ghost>>
  BY <1>a, <1>1, <1>6 DEF CellsOK, env, ghost
<1>b. CASE OpenFails
  <2>1. i \in DOMAIN hubs /\ k \in 0..1
    BY <1>b, <1>2 DEF OpenFails, AtHub, ControlOK
  <2>2. hubs[i].dev \in Nat /\ Selected(i) \subseteq Nat
    BY <2>1, <1>2, HubType DEF Selected
  <2>3. {<<k, hubs[i].dev, p>> : p \in Selected(i)} \subseteq (0..1) \X Nat \X Nat
    BY <2>1, <2>2
  <2>4. missed' \subseteq (0..1) \X Nat \X Nat
    BY <1>b, <1>1, <2>3 DEF OpenFails
  <2> QED
    BY <1>b, <1>1, <1>6, <2>4 DEF OpenFails, CellsOK, env
<1>c. CASE ResetHub
  <2>1. HubCells(i) \subseteq Nat \X Nat
    BY <1>c, <1>2, <1>3, HubCellsType DEF ResetHub, InHub
  <2>2. on' \subseteq Nat \X Nat
    BY <1>c, <1>1, <2>1 DEF ResetHub
  <2> QED
    BY <1>c, <1>1, <1>6, <2>2 DEF ResetHub, CellsOK, ghost
<1>d. CASE ReadStatus
  <2>1. missed' \subseteq (0..1) \X Nat \X Nat /\ missed \subseteq missed'
    BY <1>d, <1>1, <1>5 DEF ReadStatus, AtPort, InHub
  <2> QED
    BY <1>d, <1>1, <1>6, <2>1 DEF ReadStatus, CellsOK, env
<1>e. CASE SysfsWrite
  <2>1. on' \subseteq Nat \X Nat /\ blocked' \subseteq Nat \X Nat
    BY <1>e, <1>1, <1>4 DEF SysfsWrite, Switched, InHub
  <2> QED
    BY <1>e, <1>1, <1>6, <2>1 DEF SysfsWrite, CellsOK, ghost
<1>f. CASE Transfer
  <2>1. on' \subseteq Nat \X Nat
    BY <1>f, <1>1, <1>4 DEF Transfer, Switched, InHub
  <2> QED
    BY <1>f, <1>1, <1>6, <2>1 DEF Transfer, CellsOK, ghost
<1>g. CASE TransfersDone
  <2>1. missed' \subseteq (0..1) \X Nat \X Nat /\ missed \subseteq missed'
    BY <1>g, <1>1, <1>5 DEF TransfersDone, InHub
  <2> QED
    BY <1>g, <1>1, <1>6, <2>1 DEF TransfersDone, CellsOK, env
<1>h. CASE KernelRepower
  <2>1. PICK c \in AllCells : on' = on \cup {c} /\ repowered' = repowered \cup {c}
    BY <1>h DEF KernelRepower
  <2>2. c \in Nat \X Nat
    BY <1>2, AllCellsType
  <2> QED
    BY <1>h, <1>1, <1>6, <2>1, <2>2 DEF KernelRepower, CellsOK
<1> QED
  BY <1>a, <1>b, <1>c, <1>d, <1>e, <1>f, <1>g, <1>h DEF Next, Run, vars, SkipPhase, StartPhase,
     Finish, EndPhase, Wake, SkipHub, OpenHub, PortsDone, SkipPort, FallBack

LEMMA StepControlOK ==
  ASSUME TypeOK, ControlOK, [Next]_vars
  PROVE  ControlOK'
<1>1. /\ i \in Nat /\ port \in Nat /\ k \in 0..2 /\ hubs \in Seq(Hub) /\ ports \subseteq Nat
      /\ should_be_on \in BOOLEAN /\ opt.action \in Actions
  BY DEF TypeOK, LocalsOK, InputOK, Option
<1>2. UNCHANGED <<opt, hubs, ports>>
  BY InputKept DEF input
<1>3. i \in DOMAIN hubs => hubs[i].nports \in Nat
  BY <1>1, HubType
<1>a. CASE SkipPhase
  BY <1>a, <1>1, <1>2 DEF SkipPhase, ControlOK, InHub
<1>b. CASE StartPhase
  BY <1>b, <1>1, <1>2 DEF StartPhase, ControlOK, InHub, PhaseSkipped
<1>c. CASE Finish
  BY <1>c, <1>1, <1>2 DEF Finish, ControlOK, InHub
<1>d. CASE EndPhase
  BY <1>d, <1>1, <1>2 DEF EndPhase, ControlOK, InHub, PhaseSkipped
<1>e. CASE Wake
  BY <1>e, <1>1, <1>2 DEF Wake, AfterSleep, ControlOK, InHub
<1>f. CASE SkipHub
  BY <1>f, <1>1, <1>2 DEF SkipHub, ControlOK, InHub, PhaseSkipped
<1>g. CASE OpenHub
  <2>1. should_be_on' <=> k = 1
    BY <1>g DEF OpenHub, WantedIn
  <2>2. pc = "hub" /\ pc' = "port" /\ port' = 1 /\ UNCHANGED <<k, i>>
    BY <1>g DEF OpenHub, AtHub
  <2>3. i \in ActionableHubs /\ opt.action # "keep"
    BY <1>g, <1>1 DEF OpenHub, AtHub, ActionableHubs, ControlOK
  <2> QED
    BY <1>1, <1>2, <2>1, <2>2, <2>3 DEF ControlOK, InHub, PhaseSkipped, ActionableHubs
<1>h. CASE OpenFails
  BY <1>h, <1>1, <1>2 DEF OpenFails, AtHub, ControlOK, InHub, PhaseSkipped
<1>i. CASE PortsDone
  BY <1>i, <1>1, <1>2 DEF PortsDone, ControlOK, InHub, PhaseSkipped, ActionableHubs
<1>j. CASE ResetHub
  BY <1>j, <1>1, <1>2 DEF ResetHub, ControlOK, InHub, PhaseSkipped
<1>k. CASE SkipPort
  BY <1>k, <1>1, <1>2 DEF SkipPort, AtPort, NextPort, ControlOK, InHub, PhaseSkipped, ActionableHubs
<1>l. CASE ReadStatus
  <2>1. pc = "port" /\ port \in Selected(i) /\ pc' \in {"port", "set"}
    BY <1>l, <1>1, <1>3 DEF ReadStatus, AtPort, InMask, NextPort, ControlOK, InHub, ActionableHubs,
       Selected, PortsOf
  <2>2. pc' = "set" => port' = port
    BY <1>l DEF ReadStatus, NextPort
  <2>3. port' >= 1
    BY <1>l, <1>1 DEF ReadStatus, NextPort, ControlOK
  <2>4. opt.action # "toggle" => should_be_on' = should_be_on
    BY <1>l DEF ReadStatus
  <2>5. UNCHANGED <<k, i>>
    BY <1>l DEF ReadStatus
  <2> QED
    BY <1>1, <1>2, <2>1, <2>2, <2>3, <2>4, <2>5 DEF ControlOK, InHub, PhaseSkipped,
       ActionableHubs, Selected, PortsOf
<1>m. CASE SysfsWrite
  BY <1>m, <1>1, <1>2 DEF SysfsWrite, NextPort, ControlOK, InHub, PhaseSkipped, ActionableHubs
<1>n. CASE FallBack
  BY <1>n, <1>1, <1>2 DEF FallBack, ControlOK, InHub, PhaseSkipped, ActionableHubs, Selected, PortsOf
<1>o. CASE Transfer
  BY <1>o, <1>1, <1>2 DEF Transfer, ControlOK, InHub, PhaseSkipped, ActionableHubs, Selected, PortsOf
<1>p. CASE TransfersDone
  BY <1>p, <1>1, <1>2 DEF TransfersDone, NextPort, ControlOK, InHub, PhaseSkipped, ActionableHubs
<1>q. CASE KernelRepower
  BY <1>q, <1>1, <1>2 DEF KernelRepower, ControlOK, InHub, PhaseSkipped, ActionableHubs, Selected, PortsOf
<1>r. CASE UNCHANGED vars
  BY <1>r DEF vars, input, env, ControlOK, InHub, PhaseSkipped, ActionableHubs, Selected, PortsOf
<1> QED
  BY <1>a, <1>b, <1>c, <1>d, <1>e, <1>f, <1>g, <1>h, <1>i, <1>j, <1>k, <1>l, <1>m,
     <1>n, <1>o, <1>p, <1>q, <1>r DEF Next, Run

\* The variables keep their types, for every constant.
THEOREM TypeCorrect == Spec => [](TypeOK /\ ControlOK)
<1>1. Init => TypeOK /\ ControlOK
  BY InitTypeOK, InitControlOK
<1>2. TypeOK /\ ControlOK /\ [Next]_vars => (TypeOK /\ ControlOK)'
  BY StepInputOK, StepCellsOK, StepLocalsOK, StepControlOK DEF TypeOK
<1> QED
  BY <1>1, <1>2, PTL DEF Spec

(***************************************************************************)
(* The goals are reached                                                   *)
(*                                                                         *)
(* The loops pass the ports one after the other; the invariant says that   *)
(* every port passed in the current phase is as the phase wants it, or     *)
(* excused.  Nothing the loop does later in the phase, and nothing the     *)
(* environment does without an entry in the history, undoes that.          *)
(***************************************************************************)
Passed(h, p) == pc \in {"hub"} \cup InHub /\ (h < i \/ (h = i /\ pc \in InHub /\ p < port))

PassedOff(h, p) ==
    /\ opt.action \in {"off", "cycle"}
    /\ \/ k = 0 /\ Passed(h, p)
       \/ pc = "sleep"
       \/ opt.action = "off" /\ k >= 1
PassedOn(h, p) ==
    /\ opt.action \in {"on", "cycle"}
    /\ (k = 1 /\ Passed(h, p)) \/ k = 2

OffSoFar == \A h \in ActionableHubs : \A p \in Selected(h) :
    PassedOff(h, p) /\ Cell(h, p) \in on => ExcusedOff(Cell(h, p))
OnSoFar == \A h \in ActionableHubs : \A p \in Selected(h) :
    PassedOn(h, p) /\ Cell(h, p) \notin on => ExcusedOn(Cell(h, p))

\* A transfer that succeeded is not undone by a later one of its round.
SentOK ==
    pc = "transfer" /\ sent =>
        /\ should_be_on => Here \in on
        /\ ~should_be_on => Here \notin on \/ Here \in repowered

LEMMA StepSentOK ==
  ASSUME TypeOK, ControlOK, SentOK, [Next]_vars
  PROVE  SentOK'
<1>1. UNCHANGED <<opt, hubs, ports>>
  BY InputKept DEF input
<1>2. sent \in BOOLEAN /\ should_be_on \in BOOLEAN
  BY DEF TypeOK, LocalsOK
<1>a. CASE FallBack
  BY <1>a DEF FallBack, SentOK
<1>b. CASE Transfer
  <2>1. pc = "transfer" /\ Here' = Here /\ should_be_on' = should_be_on /\ repowered' = repowered
    BY <1>b, <1>1 DEF Transfer, Here, Cell, ghost
  <2>2. CASE on' = Switched(Here, should_be_on) /\ sent' = TRUE
    BY <1>2, <2>1, <2>2 DEF SentOK, Switched
  <2>3. CASE on' \in {on, Switched(Here, should_be_on)} /\ sent' = sent
    BY <1>2, <2>1, <2>3 DEF SentOK, Switched
  <2> QED
    BY <1>b, <2>2, <2>3 DEF Transfer
<1>c. CASE KernelRepower
  <2>1. PICK c \in AllCells : on' = on \cup {c} /\ repowered' = repowered \cup {c}
    BY <1>c DEF KernelRepower
  <2>2. Here' = Here /\ pc' = pc /\ sent' = sent /\ should_be_on' = should_be_on
    BY <1>c, <1>1 DEF KernelRepower, Here, Cell
  <2> QED
    BY <2>1, <2>2 DEF SentOK
<1>d. CASE UNCHANGED vars
  BY <1>d DEF vars, input, env, ghost, SentOK, Here, Cell
<1>e. CASE Run /\ ~FallBack /\ ~Transfer
  <2>1. pc' # "transfer"
    BY <1>e DEF Run, SkipPhase, StartPhase, Finish, EndPhase, Wake, SkipHub, OpenHub,
       OpenFails, PortsDone, ResetHub, SkipPort, AtPort, AtHub, ReadStatus, NextPort,
       SysfsWrite, TransfersDone
  <2> QED
    BY <2>1 DEF SentOK
<1> QED
  BY <1>a, <1>b, <1>c, <1>d, <1>e DEF Next

LEMMA StepOffSoFar ==
  ASSUME TypeOK, ControlOK, SentOK, OffSoFar, [Next]_vars
  PROVE  OffSoFar'
<1>1. /\ i \in Nat /\ port \in Nat /\ k \in 0..2 /\ hubs \in Seq(Hub) /\ ports \subseteq Nat
      /\ should_be_on \in BOOLEAN /\ opt.action \in Actions /\ sent \in BOOLEAN
  BY DEF TypeOK, LocalsOK, InputOK, Option
<1>2. UNCHANGED <<opt, hubs, ports>>
  BY InputKept DEF input
<1>3. missed \subseteq missed' /\ repowered \subseteq repowered'
  BY StepCellsOK
<1> SUFFICES ASSUME NEW h \in ActionableHubs, NEW p \in Selected(h),
                    PassedOff(h, p)', Cell(h, p) \in on'
             PROVE  ExcusedOff(Cell(h, p))'
  BY <1>2 DEF OffSoFar, ActionableHubs, Selected, PortsOf, Cell, ExcusedOff
<1>4. h \in DOMAIN hubs /\ h \in 1..Len(hubs) /\ hubs[h].nports \in Nat /\ p \in 1..hubs[h].nports
  BY <1>1, HubType DEF ActionableHubs, Selected, PortsOf
<1>5. ExcusedOff(Cell(h, p)) => ExcusedOff(Cell(h, p))'
  BY <1>2, <1>3 DEF ExcusedOff, Cell
<1>6. PassedOff(h, p) /\ Cell(h, p) \in on => ExcusedOff(Cell(h, p))'
  BY <1>5 DEF OffSoFar
<1>7. opt.action \in {"off", "cycle"}
  BY <1>2 DEF PassedOff
<1>8. <<0, hubs[h].dev, p>> \in missed' \/ Cell(h, p) \in repowered' => ExcusedOff(Cell(h, p))'
  BY <1>2 DEF ExcusedOff, Cell
<1> USE DEF PassedOff, Passed, InHub
<1>a. CASE SkipPhase
  BY <1>a, <1>1, <1>2, <1>6 DEF SkipPhase, PhaseSkipped, env
<1>b. CASE StartPhase
  BY <1>b, <1>1, <1>2, <1>4, <1>6 DEF StartPhase, PhaseSkipped, env
<1>c. CASE Finish
  BY <1>c, <1>1, <1>2, <1>6 DEF Finish, env
<1>d. CASE EndPhase
  BY <1>d, <1>1, <1>2, <1>4, <1>6 DEF EndPhase, ControlOK, PhaseSkipped, env
<1>e. CASE Wake
  BY <1>e, <1>1, <1>2, <1>6 DEF Wake, AfterSleep, ControlOK, env
<1>f. CASE SkipHub
  BY <1>f, <1>1, <1>2, <1>4, <1>6, <1>7 DEF SkipHub, ActionableHubs, env
<1>g. CASE OpenHub
  BY <1>g, <1>1, <1>2, <1>4, <1>6 DEF OpenHub, AtHub, env
<1>h. CASE OpenFails
  <2>1. CASE h = i /\ k = 0
    <3>1. <<0, hubs[h].dev, p>> \in missed'
      BY <1>h, <2>1 DEF OpenFails
    <3> QED
      BY <1>8, <3>1
  <2>2. CASE ~(h = i /\ k = 0)
    BY <1>h, <1>1, <1>2, <1>4, <1>6, <2>2 DEF OpenFails, AtHub, env
  <2> QED
    BY <2>1, <2>2
<1>i. CASE PortsDone
  BY <1>i, <1>1, <1>2, <1>4, <1>6 DEF PortsDone, ControlOK, PhaseSkipped, env
<1>j. CASE ResetHub
  BY <1>j, <1>1, <1>2, <1>7 DEF ResetHub, ControlOK, PhaseSkipped
<1>k. CASE SkipPort
  BY <1>k, <1>1, <1>2, <1>4, <1>6 DEF SkipPort, AtPort, InMask, NextPort, Selected, env
<1>l. CASE ReadStatus
  <2>1. CASE h = i /\ p = port /\ k = 0
    \* skipped: the status, whether read or failed, said "off", so it is off
    <3>1. pc' = "port" /\ port' = port + 1 /\ on' = on /\ Here = Cell(h, p) /\ pc = "port"
      BY <1>l, <1>1, <1>2, <1>4, <2>1 DEF ReadStatus, AtPort, NextPort, Here, env
    <3>2. ~should_be_on
      BY <1>7, <2>1, <3>1 DEF ControlOK
    <3>3. PICK failed \in BOOLEAN : ~(ReadsOn(failed, Here) # should_be_on)
      BY <1>l, <1>7, <3>1 DEF ReadStatus
    <3>4. Here \notin on
      BY <3>2, <3>3 DEF ReadsOn
    <3> QED
      BY <3>1, <3>4
  <2>2. CASE ~(h = i /\ p = port /\ k = 0)
    <3>1. PassedOff(h, p)
      BY <1>l, <1>1, <1>2, <1>4, <2>2 DEF ReadStatus, AtPort, NextPort
    <3> QED
      BY <1>l, <1>6, <3>1 DEF ReadStatus, env
  <2> QED
    BY <2>1, <2>2
<1>m. CASE SysfsWrite
  <2>1. on' = Switched(Here, should_be_on) /\ port' = port + 1 /\ pc' = "port" /\ pc = "set"
    BY <1>m DEF SysfsWrite, NextPort
  <2>2. k = 0 => ~should_be_on
    BY <1>7, <2>1 DEF ControlOK
  <2>3. k = 0
    BY <1>1, <1>2, <1>7, <1>m, <2>1 DEF SysfsWrite, ControlOK, PhaseSkipped
  <2>4. Cell(h, p) \in on /\ Cell(h, p) # Here
    BY <2>1, <2>2, <2>3 DEF Switched
  <2>5. ~(h = i /\ p = port)
    BY <2>4 DEF Here
  <2>6. PassedOff(h, p)
    BY <1>m, <1>1, <1>2, <1>4, <2>1, <2>5 DEF SysfsWrite
  <2> QED
    BY <1>6, <2>4, <2>6
<1>n. CASE FallBack
  BY <1>n, <1>1, <1>2, <1>6 DEF FallBack, env
<1>o. CASE Transfer
  <2>1. k = 0 /\ ~should_be_on
    BY <1>o, <1>1, <1>2, <1>7 DEF Transfer, ControlOK, PhaseSkipped
  <2>2. Cell(h, p) \in on
    BY <1>o, <2>1 DEF Transfer, Switched
  <2> QED
    BY <1>o, <1>1, <1>2, <1>6, <2>2 DEF Transfer
<1>p. CASE TransfersDone
  <2>1. k = 0 /\ ~should_be_on /\ pc = "transfer"
    BY <1>p, <1>1, <1>2, <1>7 DEF TransfersDone, NextPort, ControlOK, PhaseSkipped
  <2>2. CASE h = i /\ p = port
    <3>1. CASE sent
      <4>1. Here = Cell(h, p) /\ on' = on /\ repowered' = repowered
        BY <1>p, <2>2 DEF TransfersDone, Here, env
      <4>2. Here \in repowered
        BY <2>1, <3>1, <4>1 DEF SentOK
      <4> QED
        BY <1>8, <4>1, <4>2
    <3>2. CASE ~sent
      BY <1>p, <1>8, <2>1, <2>2, <3>2 DEF TransfersDone
    <3> QED
      BY <3>1, <3>2
  <2>3. CASE ~(h = i /\ p = port)
    BY <1>p, <1>1, <1>2, <1>4, <1>6, <2>3 DEF TransfersDone, NextPort, env
  <2> QED
    BY <2>2, <2>3
<1>q. CASE KernelRepower
  <2>1. PICK c \in AllCells : on' = on \cup {c} /\ repowered' = repowered \cup {c}
    BY <1>q DEF KernelRepower
  <2>2. CASE Cell(h, p) = c
    BY <1>2, <2>1, <2>2 DEF ExcusedOff, Cell
  <2>3. CASE Cell(h, p) # c
    BY <1>q, <1>2, <1>6, <2>1, <2>3 DEF KernelRepower
  <2> QED
    BY <2>2, <2>3
<1>r. CASE UNCHANGED vars
  BY <1>r, <1>6 DEF vars, input, env
<1> QED
  BY <1>a, <1>b, <1>c, <1>d, <1>e, <1>f, <1>g, <1>h, <1>i, <1>j, <1>k, <1>l, <1>m,
     <1>n, <1>o, <1>p, <1>q, <1>r DEF Next, Run

LEMMA StepOnSoFar ==
  ASSUME TypeOK, ControlOK, SentOK, OnSoFar, [Next]_vars
  PROVE  OnSoFar'
<1>1. /\ i \in Nat /\ port \in Nat /\ k \in 0..2 /\ hubs \in Seq(Hub) /\ ports \subseteq Nat
      /\ should_be_on \in BOOLEAN /\ opt.action \in Actions /\ sent \in BOOLEAN
  BY DEF TypeOK, LocalsOK, InputOK, Option
<1>2. UNCHANGED <<opt, hubs, ports>>
  BY InputKept DEF input
<1>3. missed \subseteq missed'
  BY StepCellsOK
<1> SUFFICES ASSUME NEW h \in ActionableHubs, NEW p \in Selected(h),
                    PassedOn(h, p)', Cell(h, p) \notin on'
             PROVE  ExcusedOn(Cell(h, p))'
  BY <1>2 DEF OnSoFar, ActionableHubs, Selected, PortsOf, Cell, ExcusedOn
<1>4. h \in DOMAIN hubs /\ h \in 1..Len(hubs) /\ hubs[h].nports \in Nat /\ p \in 1..hubs[h].nports
  BY <1>1, HubType DEF ActionableHubs, Selected, PortsOf
<1>5. ExcusedOn(Cell(h, p)) => ExcusedOn(Cell(h, p))'
  BY <1>2, <1>3 DEF ExcusedOn, Cell
<1>6. PassedOn(h, p) /\ Cell(h, p) \notin on => ExcusedOn(Cell(h, p))'
  BY <1>5 DEF OnSoFar
<1>7. opt.action \in {"on", "cycle"}
  BY <1>2 DEF PassedOn
<1>8. <<1, hubs[h].dev, p>> \in missed' => ExcusedOn(Cell(h, p))'
  BY <1>2 DEF ExcusedOn, Cell
<1> USE DEF PassedOn, Passed, InHub
<1>a. CASE SkipPhase
  BY <1>a, <1>1, <1>2, <1>6 DEF SkipPhase, PhaseSkipped, env
<1>b. CASE StartPhase
  BY <1>b, <1>1, <1>2, <1>4, <1>6 DEF StartPhase, PhaseSkipped, env
<1>c. CASE Finish
  BY <1>c, <1>1, <1>2, <1>6 DEF Finish, env
<1>d. CASE EndPhase
  BY <1>d, <1>1, <1>2, <1>4, <1>6 DEF EndPhase, ControlOK, PhaseSkipped, env
<1>e. CASE Wake
  BY <1>e, <1>1, <1>2, <1>6 DEF Wake, AfterSleep, ControlOK, env
<1>f. CASE SkipHub
  BY <1>f, <1>1, <1>2, <1>4, <1>6, <1>7 DEF SkipHub, ActionableHubs, env
<1>g. CASE OpenHub
  BY <1>g, <1>1, <1>2, <1>4, <1>6 DEF OpenHub, AtHub, env
<1>h. CASE OpenFails
  <2>1. CASE h = i /\ k = 1
    <3>1. <<1, hubs[h].dev, p>> \in missed'
      BY <1>h, <2>1 DEF OpenFails
    <3> QED
      BY <1>8, <3>1
  <2>2. CASE ~(h = i /\ k = 1)
    BY <1>h, <1>1, <1>2, <1>4, <1>6, <2>2 DEF OpenFails, AtHub, env
  <2> QED
    BY <2>1, <2>2
<1>i. CASE PortsDone
  BY <1>i, <1>1, <1>2, <1>4, <1>6 DEF PortsDone, ControlOK, PhaseSkipped, env
<1>j. CASE ResetHub
  <2>1. Cell(h, p) \notin on
    BY <1>j DEF ResetHub
  <2>2. PassedOn(h, p)
    BY <1>j, <1>1, <1>2, <1>4 DEF ResetHub, ControlOK
  <2> QED
    BY <1>6, <2>1, <2>2
<1>k. CASE SkipPort
  BY <1>k, <1>1, <1>2, <1>4, <1>6 DEF SkipPort, AtPort, InMask, NextPort, Selected, env
<1>l. CASE ReadStatus
  <2>1. CASE h = i /\ p = port /\ k = 1
    \* skipped: the status said "on", and if that was not so the port is missed
    <3>1. pc' = "port" /\ port' = port + 1 /\ on' = on /\ Here = Cell(h, p) /\ pc = "port"
      BY <1>l, <1>1, <1>2, <1>4, <2>1 DEF ReadStatus, AtPort, NextPort, Here, env
    <3>2. should_be_on
      BY <1>7, <2>1, <3>1 DEF ControlOK
    <3>3. PICK failed \in BOOLEAN :
             /\ ReadsOn(failed, Here)
             /\ missed' = IF ReadsOn(failed, Here) # (Here \in on)
                          THEN missed \cup {<<1, hubs[i].dev, port>>} ELSE missed
      BY <1>l, <1>7, <2>1, <3>1, <3>2 DEF ReadStatus
    <3>4. Here \notin on
      BY <3>1
    <3>5. <<1, hubs[h].dev, p>> \in missed'
      BY <2>1, <3>3, <3>4
    <3> QED
      BY <1>8, <3>5
  <2>2. CASE ~(h = i /\ p = port /\ k = 1)
    <3>1. PassedOn(h, p)
      BY <1>l, <1>1, <1>2, <1>4, <2>2 DEF ReadStatus, AtPort, NextPort
    <3> QED
      BY <1>l, <1>6, <3>1 DEF ReadStatus, env
  <2> QED
    BY <2>1, <2>2
<1>m. CASE SysfsWrite
  <2>1. on' = Switched(Here, should_be_on) /\ port' = port + 1 /\ pc' = "port" /\ pc = "set"
    BY <1>m DEF SysfsWrite, NextPort
  <2>2. k = 1 /\ should_be_on
    BY <1>1, <1>2, <1>7, <1>m, <2>1 DEF SysfsWrite, ControlOK, PhaseSkipped
  <2>3. Cell(h, p) \notin on /\ Cell(h, p) # Here
    BY <2>1, <2>2 DEF Switched
  <2>4. ~(h = i /\ p = port)
    BY <2>3 DEF Here
  <2>5. PassedOn(h, p)
    BY <1>m, <1>1, <1>2, <1>4, <2>1, <2>4 DEF SysfsWrite
  <2> QED
    BY <1>6, <2>3, <2>5
<1>n. CASE FallBack
  BY <1>n, <1>1, <1>2, <1>6 DEF FallBack, env
<1>o. CASE Transfer
  <2>1. k = 1 /\ should_be_on
    BY <1>o, <1>1, <1>2, <1>7 DEF Transfer, ControlOK, PhaseSkipped
  <2>2. Cell(h, p) \notin on
    BY <1>o, <2>1 DEF Transfer, Switched
  <2> QED
    BY <1>o, <1>1, <1>2, <1>6, <2>2 DEF Transfer
<1>p. CASE TransfersDone
  <2>1. k = 1 /\ should_be_on /\ pc = "transfer"
    BY <1>p, <1>1, <1>2, <1>7 DEF TransfersDone, NextPort, ControlOK, PhaseSkipped
  <2>2. CASE h = i /\ p = port
    <3>1. Here = Cell(h, p) /\ on' = on
      BY <1>p, <2>2 DEF TransfersDone, Here, env
    <3>2. ~sent
      BY <2>1, <3>1 DEF SentOK
    <3> QED
      BY <1>p, <1>8, <2>1, <2>2, <3>2 DEF TransfersDone
  <2>3. CASE ~(h = i /\ p = port)
    BY <1>p, <1>1, <1>2, <1>4, <1>6, <2>3 DEF TransfersDone, NextPort, env
  <2> QED
    BY <2>2, <2>3
<1>q. CASE KernelRepower
  <2>1. PICK c \in AllCells : on' = on \cup {c}
    BY <1>q DEF KernelRepower
  <2> QED
    BY <1>q, <1>2, <1>6, <2>1 DEF KernelRepower
<1>r. CASE UNCHANGED vars
  BY <1>r, <1>6 DEF vars, input, env
<1> QED
  BY <1>a, <1>b, <1>c, <1>d, <1>e, <1>f, <1>g, <1>h, <1>i, <1>j, <1>k, <1>l, <1>m,
     <1>n, <1>o, <1>p, <1>q, <1>r DEF Next, Run

\* The inductive invariant.
Inv == TypeOK /\ ControlOK /\ SentOK /\ OffSoFar /\ OnSoFar

LEMMA InitInv == Init => Inv
<1> SUFFICES ASSUME Init PROVE Inv
  OBVIOUS
<1>1. TypeOK /\ ControlOK
  BY InitTypeOK, InitControlOK
<1>2. SentOK
  BY DEF Init, SentOK
<1>3. OffSoFar /\ OnSoFar
  BY DEF Init, OffSoFar, OnSoFar, PassedOff, PassedOn, Passed, InHub
<1> QED
  BY <1>1, <1>2, <1>3 DEF Inv

LEMMA StepInv == Inv /\ [Next]_vars => Inv'
BY StepInputOK, StepCellsOK, StepLocalsOK, StepControlOK, StepSentOK, StepOffSoFar, StepOnSoFar
   DEF Inv, TypeOK

LEMMA Invariance == Spec => []Inv
BY InitInv, StepInv, PTL DEF Spec

LEMMA InvGoals == Inv => OffReached /\ OnReached
<1> SUFFICES ASSUME Inv PROVE OffReached /\ OnReached
  OBVIOUS
<1>1. ASSUME NEW c \in SelectedCells
      PROVE  \E h \in ActionableHubs : \E p \in Selected(h) : c = Cell(h, p)
  BY <1>1 DEF SelectedCells
<1>2. OffReached
  <2> SUFFICES ASSUME (pc = "done" /\ opt.action = "off") \/ pc = "sleep",
                      NEW c \in SelectedCells, c \in on
               PROVE  ExcusedOff(c)
    BY DEF OffReached
  <2>0. PICK h \in ActionableHubs : \E p \in Selected(h) : c = Cell(h, p)
    BY <1>1
  <2>1. PICK p \in Selected(h) : c = Cell(h, p)
    BY <2>0
  <2>2. PassedOff(h, p)
    BY DEF Inv, ControlOK, PassedOff
  <2> QED
    BY <2>1, <2>2 DEF Inv, OffSoFar
<1>3. OnReached
  <2> SUFFICES ASSUME pc = "done", opt.action \in {"on", "cycle"},
                      NEW c \in SelectedCells, c \notin on
               PROVE  ExcusedOn(c)
    BY DEF OnReached
  <2>0. PICK h \in ActionableHubs : \E p \in Selected(h) : c = Cell(h, p)
    BY <1>1
  <2>1. PICK p \in Selected(h) : c = Cell(h, p)
    BY <2>0
  <2>2. PassedOn(h, p)
    BY DEF Inv, ControlOK, PassedOn
  <2> QED
    BY <2>1, <2>2 DEF Inv, OnSoFar
<1> QED
  BY <1>2, <1>3

\* Every "off" run, and every "cycle" before it sleeps, has each selected port
\* of each operated hub off, but for the ports whose own calls failed or that
\* the kernel powered again: for any number of hubs, ports, repeats and failures.
THEOREM OffGoal == Spec => []OffReached
BY Invariance, InvGoals, PTL

\* Every "on" and "cycle" run ends with each selected port on, but for those
\* whose own calls failed in the second phase.
THEOREM OnGoal == Spec => []OnReached
BY Invariance, InvGoals, PTL

(***************************************************************************)
(* What a step may never do                                                *)
(***************************************************************************)
\* The four ways the power of the ports can change in one step: not at all, by
\* a switch of the port at hand, by a reset, by the kernel.
LEMMA PowerSteps ==
  ASSUME ControlOK, [Next]_vars
  PROVE  \/ on' = on
         \/ pc \in {"set", "transfer"} /\ on' = Switched(Here, should_be_on)
         \/ k = 1 /\ opt.reset /\ ~PhaseSkipped(opt.action, k) /\ on \subseteq on'
         \/ on \subseteq on' /\ on' \subseteq on \cup repowered'
<1>a. CASE UNCHANGED env
  BY <1>a DEF env
<1>b. CASE ResetHub
  BY <1>b DEF ResetHub, ControlOK
<1>c. CASE SysfsWrite
  BY <1>c DEF SysfsWrite
<1>d. CASE Transfer
  BY <1>d DEF Transfer
<1>e. CASE KernelRepower
  <2>1. PICK c \in AllCells : on' = on \cup {c} /\ repowered' = repowered \cup {c}
    BY <1>e DEF KernelRepower
  <2> QED
    BY <2>1
<1>f. CASE UNCHANGED vars
  BY <1>f DEF vars, env
<1> QED
  BY <1>a, <1>b, <1>c, <1>d, <1>e, <1>f DEF Next, Run, SkipPhase, StartPhase, Finish,
     EndPhase, Wake, SkipHub, OpenHub, OpenFails, PortsDone, SkipPort, ReadStatus, FallBack,
     TransfersDone

\* Where a port is switched, it was asked for, and the direction is the phase's.
LEMMA SwitchedHere ==
  ASSUME ControlOK, pc \in {"set", "transfer"}
  PROVE  /\ Here \in SelectedCells
         /\ ~PhaseSkipped(opt.action, k)
         /\ opt.action # "toggle" => (should_be_on <=> k = 1)
<1>1. i \in ActionableHubs /\ port \in Selected(i)
  BY DEF ControlOK, InHub
<1>2. Here \in SelectedCells
  BY <1>1 DEF Here, SelectedCells
<1> QED
  BY <1>2 DEF ControlOK, InHub

LEMMA StepOthers ==
  ASSUME ControlOK, [Next]_vars
  PROVE  /\ on \ on' \subseteq SelectedCells
         /\ ~opt.reset => on' \ on \subseteq SelectedCells \cup repowered'
<1>1. CASE pc \in {"set", "transfer"} /\ on' = Switched(Here, should_be_on)
  BY <1>1, SwitchedHere DEF Switched
<1> QED
  BY <1>1, PowerSteps

LEMMA StepDirection ==
  ASSUME ControlOK, k \in 0..2, [Next]_vars
  PROVE  /\ opt.action = "on" => on \subseteq on'
         /\ opt.action = "off" => on' \subseteq on \cup repowered'
         /\ opt.action = "cycle" /\ k = 0 => on' \subseteq on \cup repowered'
<1>1. CASE pc \in {"set", "transfer"} /\ on' = Switched(Here, should_be_on)
  <2>1. ~PhaseSkipped(opt.action, k) /\ (opt.action # "toggle" => (should_be_on <=> k = 1)) /\ k < 2
    BY <1>1, SwitchedHere DEF ControlOK
  <2>2. CASE opt.action = "on"
    BY <1>1, <2>1, <2>2 DEF PhaseSkipped, Switched
  <2>3. CASE opt.action = "off" \/ (opt.action = "cycle" /\ k = 0)
    BY <1>1, <2>1, <2>3 DEF PhaseSkipped, Switched
  <2> QED
    BY <2>2, <2>3
<1>2. CASE k = 1 /\ opt.reset /\ ~PhaseSkipped(opt.action, k) /\ on \subseteq on'
  BY <1>2 DEF PhaseSkipped
<1> QED
  BY <1>1, <1>2, PowerSteps

\* A run takes power only from ports it was asked to operate on, and gives it to
\* others only by a reset.
THEOREM OthersSafe == Spec => OthersLeftAlone
<1>1. ControlOK /\ [Next]_vars =>
         [/\ on \ on' \subseteq SelectedCells
          /\ ~opt.reset => on' \ on \subseteq SelectedCells \cup repowered']_vars
  BY StepOthers
<1> QED
  BY <1>1, TypeCorrect, PTL DEF Spec, OthersLeftAlone

\* An "on" run never interrupts power, an "off" run never gives it.
THEOREM NeverBackwards == Spec => OneDirection
<1>1. (TypeOK /\ ControlOK) /\ [Next]_vars =>
         [/\ opt.action = "on" => on \subseteq on'
          /\ opt.action = "off" => on' \subseteq on \cup repowered']_vars
  BY StepDirection DEF TypeOK, LocalsOK
<1> QED
  BY <1>1, TypeCorrect, PTL DEF Spec, OneDirection

\* A cycle gives no power in its first phase, at the end of which (GoalsReached)
\* every selected port is dark.
THEOREM DarkBeforeLight == Spec => DarkFirst
<1>1. (TypeOK /\ ControlOK) /\ [Next]_vars =>
         [opt.action = "cycle" /\ k = 0 => on' \subseteq on \cup repowered']_vars
  BY StepDirection DEF TypeOK, LocalsOK
<1> QED
  BY <1>1, TypeCorrect, PTL DEF Spec, DarkFirst

(***************************************************************************)
(* Toggling                                                                *)
(*                                                                         *)
(* A port is inverted once: until the loop reaches it, its power is what   *)
(* it was at the start; while it is switched, the wanted state is the      *)
(* opposite of that; from then on so is its power.  No two hubs of the     *)
(* array are one device, so that no other port's switching interferes.     *)
(***************************************************************************)
Distinct == \A g, h \in DOMAIN hubs : hubs[g].dev = hubs[h].dev => g = h

Over(h, p)  == k >= 1 \/ Passed(h, p)
Under(h, p) == h = i /\ p = port /\ pc \in {"set", "transfer"}
Toggled(h, p) ==
    LET c == Cell(h, p) IN
    \/ ExcusedOff(c)
    \/ /\ Over(h, p) => (c \in on <=> c \notin on0)
       /\ Under(h, p) => (should_be_on <=> c \notin on0)
       /\ ~Over(h, p) /\ ~Under(h, p) => (c \in on <=> c \in on0)
ToggleSoFar ==
    opt.action = "toggle" => \A h \in ActionableHubs : \A p \in Selected(h) : Toggled(h, p)

LEMMA StepToggleSoFar ==
  ASSUME TypeOK, ControlOK, SentOK, Distinct, ToggleSoFar, [Next]_vars
  PROVE  ToggleSoFar'
<1>1. /\ i \in Nat /\ port \in Nat /\ k \in 0..2 /\ hubs \in Seq(Hub) /\ ports \subseteq Nat
      /\ should_be_on \in BOOLEAN /\ sent \in BOOLEAN
  BY DEF TypeOK, LocalsOK, InputOK
<1>2. UNCHANGED <<opt, hubs, ports, on0>>
  BY InputKept DEF input
<1>3. missed \subseteq missed' /\ repowered \subseteq repowered'
  BY StepCellsOK
<1> SUFFICES ASSUME opt.action = "toggle", NEW h \in ActionableHubs, NEW p \in Selected(h)
             PROVE  Toggled(h, p)'
  BY <1>2 DEF ToggleSoFar, ActionableHubs, Selected, PortsOf
<1> DEFINE c == Cell(h, p)
<1>4. h \in DOMAIN hubs /\ h \in 1..Len(hubs) /\ hubs[h].nports \in Nat /\ p \in 1..hubs[h].nports
      /\ hubs[h].actionable # 0 /\ p \in ports
  BY <1>1, HubType DEF ActionableHubs, Selected, PortsOf
<1>5. c' = c
  BY <1>2 DEF Cell
<1>6. ExcusedOff(c) => ExcusedOff(c)'
  BY <1>3, <1>5 DEF ExcusedOff
<1>7. <<0, hubs[h].dev, p>> \in missed' => ExcusedOff(c)'
  BY <1>5 DEF ExcusedOff, Cell
<1>8. i \in DOMAIN hubs /\ Here = c => h = i /\ p = port
  BY <1>4 DEF Here, Cell, Distinct
<1>9. pc \in {"hub"} \cup InHub => k = 0
  BY <1>1 DEF ControlOK, PhaseSkipped, InHub
<1>10. pc \in InHub => i \in DOMAIN hubs
  BY DEF ControlOK, ActionableHubs
<1> HIDE DEF c
<1>11. \/ ExcusedOff(c)'
       \/ /\ Over(h, p) => (c \in on <=> c \notin on0)
          /\ Under(h, p) => (should_be_on <=> c \notin on0)
          /\ ~Over(h, p) /\ ~Under(h, p) => (c \in on <=> c \in on0)
  BY <1>6 DEF ToggleSoFar, Toggled, c
<1>12. SUFFICES ASSUME ~ExcusedOff(c)'
                PROVE  /\ Over(h, p)' => (c \in on' <=> c \notin on0)
                       /\ Under(h, p)' => (should_be_on' <=> c \notin on0)
                       /\ ~Over(h, p)' /\ ~Under(h, p)' => (c \in on' <=> c \in on0)
  BY <1>2, <1>5 DEF Toggled, c
<1>13. \* Nothing about this port changes.
       ASSUME on' = on, should_be_on' = should_be_on, Over(h, p)' <=> Over(h, p),
              Under(h, p)' <=> Under(h, p)
       PROVE  /\ Over(h, p)' => (c \in on' <=> c \notin on0)
              /\ Under(h, p)' => (should_be_on' <=> c \notin on0)
              /\ ~Over(h, p)' /\ ~Under(h, p)' => (c \in on' <=> c \in on0)
  BY <1>11, <1>12, <1>13
<1> USE DEF Over, Under, Passed, InHub
<1>a. CASE SkipPhase
  BY <1>a, <1>1, <1>13 DEF SkipPhase, PhaseSkipped, env
<1>b. CASE StartPhase
  BY <1>b, <1>1, <1>4, <1>13 DEF StartPhase, PhaseSkipped, env
<1>c. CASE Finish
  BY <1>c, <1>1, <1>13 DEF Finish, env
<1>d. CASE EndPhase
  BY <1>d, <1>1, <1>2, <1>4, <1>9, <1>13 DEF EndPhase, env
<1>e. CASE Wake
  BY <1>e DEF Wake, ControlOK
<1>f. CASE SkipHub
  BY <1>f, <1>1, <1>2, <1>4, <1>9, <1>13 DEF SkipHub, env
<1>g. CASE OpenHub
  BY <1>g, <1>1, <1>2, <1>4, <1>9, <1>11, <1>12 DEF OpenHub, AtHub, env
<1>h. CASE OpenFails
  <2>1. CASE h = i
    <3>1. <<0, hubs[h].dev, p>> \in missed'
      BY <1>h, <1>9, <2>1 DEF OpenFails, AtHub
    <3> QED
      BY <1>7, <1>12, <3>1
  <2>2. CASE h # i
    BY <1>h, <1>1, <1>2, <1>4, <1>9, <1>13, <2>2 DEF OpenFails, AtHub, env
  <2> QED
    BY <2>1, <2>2
<1>i. CASE PortsDone
  BY <1>i, <1>1, <1>2, <1>4, <1>9, <1>13 DEF PortsDone, env
<1>j. CASE ResetHub
  BY <1>j, <1>9 DEF ResetHub, ControlOK
<1>k. CASE SkipPort
  BY <1>k, <1>1, <1>2, <1>4, <1>9, <1>13 DEF SkipPort, AtPort, InMask, NextPort, env
<1>l. CASE ReadStatus
  <2>1. on' = on /\ pc = "port" /\ UNCHANGED <<k, i>>
    BY <1>l DEF ReadStatus, AtPort, env
  <2>2. PICK failed \in BOOLEAN :
           /\ should_be_on' = ~ReadsOn(failed, Here)
           /\ IF ReadsOn(failed, Here) # ~ReadsOn(failed, Here)
              THEN pc' = "set" /\ port' = port ELSE NextPort
           /\ missed' = IF ReadsOn(failed, Here) # (Here \in on)
                        THEN missed \cup {<<k, hubs[i].dev, port>>} ELSE missed
    BY <1>l DEF ReadStatus
  <2>3. pc' = "set" /\ port' = port
    BY <2>2 DEF ReadsOn
  <2>4. CASE h = i /\ p = port
    <3>1. Here = c
      BY <2>4 DEF Here, c
    <3>2. missed' = missed \/ <<0, hubs[h].dev, p>> \in missed'
      BY <1>9, <2>1, <2>2, <2>4
    <3>3. missed' = missed => (should_be_on' <=> c \notin on) \/ <<0, hubs[h].dev, p>> \in missed'
      BY <1>9, <2>1, <2>2, <2>4, <3>1 DEF ReadsOn
    <3>4. c \in on <=> c \in on0
      BY <1>1, <1>9, <1>11, <1>12, <2>1, <2>4
    <3>5. should_be_on' <=> c \notin on0
      BY <1>7, <1>12, <3>2, <3>3, <3>4
    <3>6. Under(h, p)' /\ ~Over(h, p)'
      BY <1>1, <1>9, <2>1, <2>3, <2>4
    <3> QED
      BY <3>5, <3>6
  <2>5. CASE ~(h = i /\ p = port)
    <3>1. Over(h, p)' <=> Over(h, p)
      BY <2>1, <2>3
    <3>2. ~Under(h, p)' /\ ~Under(h, p)
      BY <2>1, <2>3, <2>5
    <3> QED
      BY <1>11, <1>12, <2>1, <3>1, <3>2
  <2> QED
    BY <2>4, <2>5
<1>m. CASE SysfsWrite
  <2>1. /\ on' = Switched(Here, should_be_on) /\ port' = port + 1 /\ pc' = "port" /\ pc = "set"
        /\ UNCHANGED <<k, i, should_be_on>>
    BY <1>m DEF SysfsWrite, NextPort
  <2>2. CASE h = i /\ p = port
    <3>1. Here = c /\ Under(h, p)
      BY <2>1, <2>2 DEF Here, c
    <3>2. Over(h, p)' /\ ~Under(h, p)'
      BY <1>1, <2>1, <2>2
    <3>3. c \in on' <=> should_be_on
      BY <1>1, <2>1, <3>1 DEF Switched
    <3> QED
      BY <1>11, <1>12, <3>1, <3>2, <3>3
  <2>3. CASE ~(h = i /\ p = port)
    <3>1. Here # c
      BY <1>8, <1>10, <2>1, <2>3
    <3>2. c \in on' <=> c \in on
      BY <2>1, <3>1 DEF Switched
    <3>3. (Over(h, p)' <=> Over(h, p)) /\ ~Under(h, p)' /\ ~Under(h, p)
      BY <1>1, <1>4, <2>1, <2>3
    <3> QED
      BY <1>11, <1>12, <3>2, <3>3
  <2> QED
    BY <2>2, <2>3
<1>n. CASE FallBack
  BY <1>n, <1>1, <1>13 DEF FallBack, env
<1>o. CASE Transfer
  <2>1. on' \in {on, Switched(Here, should_be_on)} /\ UNCHANGED <<pc, k, i, port, should_be_on>>
        /\ pc = "transfer"
    BY <1>o DEF Transfer
  <2>2. (Over(h, p)' <=> Over(h, p)) /\ (Under(h, p)' <=> Under(h, p))
    BY <2>1
  <2>3. CASE h = i /\ p = port
    <3>1. Under(h, p) /\ ~Over(h, p)
      BY <1>1, <1>9, <2>1, <2>3
    <3> QED
      BY <1>11, <1>12, <2>1, <2>2, <3>1
  <2>4. CASE ~(h = i /\ p = port)
    <3>1. Here # c
      BY <1>8, <1>10, <2>1, <2>4
    <3>2. c \in on' <=> c \in on
      BY <2>1, <3>1 DEF Switched
    <3> QED
      BY <1>11, <1>12, <2>1, <2>2, <3>2
  <2> QED
    BY <2>3, <2>4
<1>p. CASE TransfersDone
  <2>1. /\ on' = on /\ port' = port + 1 /\ pc' = "port" /\ pc = "transfer"
        /\ UNCHANGED <<k, i, should_be_on, repowered>>
        /\ missed' = IF sent THEN missed ELSE missed \cup {<<k, hubs[i].dev, port>>}
    BY <1>p DEF TransfersDone, NextPort, env
  <2>2. CASE h = i /\ p = port
    <3>1. Here = c /\ Under(h, p) /\ Over(h, p)' /\ ~Under(h, p)'
      BY <1>1, <2>1, <2>2 DEF Here, c
    <3>2. CASE sent
      <4>1. c \notin repowered
        BY <1>3, <1>5, <1>12 DEF ExcusedOff
      <4>2. c \in on <=> should_be_on
        BY <1>1, <2>1, <3>1, <3>2, <4>1 DEF SentOK
      <4> QED
        BY <1>11, <1>12, <2>1, <3>1, <4>2
    <3>3. CASE ~sent
      BY <1>7, <1>9, <1>12, <2>1, <2>2, <3>3
    <3> QED
      BY <3>2, <3>3
  <2>3. CASE ~(h = i /\ p = port)
    <3>1. (Over(h, p)' <=> Over(h, p)) /\ ~Under(h, p)' /\ ~Under(h, p)
      BY <1>1, <1>4, <2>1, <2>3
    <3> QED
      BY <1>11, <1>12, <2>1, <3>1
  <2> QED
    BY <2>2, <2>3
<1>q. CASE KernelRepower
  <2>1. PICK x \in AllCells : on' = on \cup {x} /\ repowered' = repowered \cup {x}
    BY <1>q DEF KernelRepower
  <2>2. c # x
    BY <1>5, <1>12, <2>1 DEF ExcusedOff
  <2>3. UNCHANGED <<pc, k, i, port, should_be_on>>
    BY <1>q DEF KernelRepower
  <2>4. (Over(h, p)' <=> Over(h, p)) /\ (Under(h, p)' <=> Under(h, p))
    BY <2>3
  <2> QED
    BY <1>11, <1>12, <2>1, <2>2, <2>3, <2>4
<1>r. CASE UNCHANGED vars
  BY <1>r, <1>13 DEF vars, env
<1> QED
  BY <1>a, <1>b, <1>c, <1>d, <1>e, <1>f, <1>g, <1>h, <1>i, <1>j, <1>k, <1>l, <1>m,
     <1>n, <1>o, <1>p, <1>q, <1>r DEF Next, Run

LEMMA InitToggle == Init => Distinct /\ ToggleSoFar
<1> SUFFICES ASSUME Init PROVE Distinct /\ ToggleSoFar
  OBVIOUS
<1>1. Distinct
  BY HubArraysAssumption DEF Init, Distinct
<1>2. on0 = on /\ k = 0 /\ pc = "phase"
  BY DEF Init
<1> QED
  BY <1>1, <1>2 DEF ToggleSoFar, Toggled, Over, Under, Passed, InHub

\* Every "toggle" run ends with each selected port the opposite of what it was
\* when the run began, but for the ports that failed or were powered again.
THEOREM ToggleGoal == Spec => []ToggleReached
<1>1. Init => Distinct /\ ToggleSoFar
  BY InitToggle
<1>2. Distinct /\ [Next]_vars => Distinct'
  BY InputKept DEF Distinct, input
<1>3. Inv /\ Distinct /\ ToggleSoFar /\ [Next]_vars => ToggleSoFar'
  BY StepToggleSoFar DEF Inv
<1>4. Inv /\ ToggleSoFar => ToggleReached
  <2> SUFFICES ASSUME Inv, ToggleSoFar, pc = "done", opt.action = "toggle",
                      NEW c \in SelectedCells, (c \in on) = (c \in on0)
               PROVE  ExcusedOff(c)
    BY DEF ToggleReached
  <2>1. PICK h \in ActionableHubs : c \in {Cell(h, p) : p \in Selected(h)}
    BY DEF SelectedCells
  <2>2. PICK p \in Selected(h) : c = Cell(h, p)
    BY <2>1
  <2>3. Over(h, p)
    BY DEF Inv, ControlOK, Over
  <2> QED
    BY <2>2, <2>3 DEF ToggleSoFar, Toggled
<1> QED
  BY <1>1, <1>2, <1>3, <1>4, Invariance, PTL DEF Spec

\* Every run of the action loop reaches the goal of its action.
THEOREM ReachesGoal == Spec => []GoalReached
<1>1. OffReached /\ OnReached /\ ToggleReached => GoalReached
  BY DEF GoalReached
<1> QED
  BY <1>1, OffGoal, OnGoal, ToggleGoal, PTL

(***************************************************************************)
(* The action loop implements PortContract: every behaviour of the loop,   *)
(* for every hub array, mask and command line, is one the contract allows. *)
(* Most steps of the loop are stutters of the contract; the others switch  *)
(* one port of one half, excuse a port, or end a stage.                    *)
(***************************************************************************)

(***************************************************************************)
(* The contract's variables                                                *)
(***************************************************************************)
Excuses == {"dropping"} \X ExcusedDark \cup {"raising"} \X ExcusedLight

\* The power feature is set only of ports that exist.
OnReal == on \subseteq AllCells

RInv == Inv /\ Distinct /\ OnReal

LEMMA StepOnReal == ControlOK /\ OnReal /\ [Next]_vars => OnReal'
<1> SUFFICES ASSUME ControlOK, OnReal, [Next]_vars PROVE OnReal'
  OBVIOUS
<1>1. UNCHANGED hubs
  BY InputKept DEF input
<1>2. AllCells' = AllCells
  BY <1>1 DEF AllCells, HubCells, Cell, PortsOf
<1>3. CASE pc \in {"set", "transfer"} /\ on' \subseteq on \cup {Here}
  <2>1. i \in DOMAIN hubs /\ port \in PortsOf(i)
    BY <1>3 DEF ControlOK, InHub, ActionableHubs, Selected
  <2>2. Here \in AllCells
    BY <2>1 DEF Here, AllCells, HubCells
  <2> QED
    BY <1>2, <1>3, <2>2 DEF OnReal
<1>4. CASE ResetHub
  <2>1. i \in DOMAIN hubs /\ on' \subseteq on \cup HubCells(i)
    BY <1>4 DEF ResetHub, ControlOK, InHub, ActionableHubs
  <2> QED
    BY <1>2, <2>1 DEF OnReal, AllCells
<1>5. CASE KernelRepower
  <2>1. PICK c \in AllCells : on' = on \cup {c}
    BY <1>5 DEF KernelRepower
  <2> QED
    BY <1>2, <2>1 DEF OnReal
<1>6. CASE on' = on
  BY <1>2, <1>6 DEF OnReal
<1> QED
  BY <1>3, <1>4, <1>5, <1>6 DEF Next, Run, SysfsWrite, Transfer, Switched, vars, env, SkipPhase,
     StartPhase, Finish, EndPhase, Wake, SkipHub, OpenHub, OpenFails, PortsDone, SkipPort,
     ReadStatus, FallBack, TransfersDone

LEMMA RInvHolds == Spec => []RInv
<1>1. Init => Distinct /\ OnReal
  BY InitToggle DEF Init, OnReal
<1>2. Distinct /\ [Next]_vars => Distinct'
  BY InputKept DEF Distinct, input
<1>3. Inv => ControlOK
  BY DEF Inv
<1> QED
  BY <1>1, <1>2, <1>3, StepOnReal, Invariance, PTL DEF Spec, RInv

LEMMA WantedKept == [Next]_vars => Wanted' = Wanted
BY InputKept DEF input, Wanted, Halves, ActionableHubs, Selected, PortsOf

LEMMA AllKept ==
  ASSUME UNCHANGED <<hubs, opt, ports, on, missed, repowered>>
  PROVE  UNCHANGED <<opt.reset, opt.action, Wanted, Vbus, ExcusedDark, ExcusedLight>>
<1>1. ActionableHubs' = ActionableHubs /\ \A h : Selected(h)' = Selected(h)
  BY DEF ActionableHubs, Selected, PortsOf
<1>2. Wanted' = Wanted /\ \A p : Halves(p)' = Halves(p)
  BY <1>1 DEF Wanted, Halves
<1>3. \A h, p : Cell(h, p)' = Cell(h, p)
  BY DEF Cell
<1>4. Vbus' = Vbus
  BY <1>1, <1>3 DEF Vbus
<1>5. ExcusedDark' = ExcusedDark
  BY <1>1, <1>3 DEF ExcusedDark, ExcusedOff
<1>6. ExcusedLight' = ExcusedLight
  BY <1>2, <1>3 DEF ExcusedLight, ExcusedOn
<1> QED
  BY <1>2, <1>4, <1>5, <1>6

\* What is excused stays so.
LEMMA ExcusesGrow ==
  ASSUME RInv, [Next]_vars
  PROVE  Excuses \subseteq Excuses'
<1>1. UNCHANGED <<hubs, opt, ports>>
  BY InputKept DEF input
<1>2. missed \subseteq missed' /\ repowered \subseteq repowered'
  BY StepCellsOK DEF RInv, Inv
<1>3. ActionableHubs' = ActionableHubs /\ \A p : Halves(p)' = Halves(p)
  BY <1>1 DEF Halves, ActionableHubs, Selected, PortsOf
<1>4. ExcusedDark \subseteq ExcusedDark'
  BY <1>1, <1>2, <1>3 DEF ExcusedDark, ExcusedOff, Cell
<1>5. ExcusedLight \subseteq ExcusedLight'
  BY <1>1, <1>2, <1>3, WantedKept DEF ExcusedLight, ExcusedOn, Cell
<1> QED
  BY <1>4, <1>5 DEF Excuses

\* Power that comes or goes at one cell comes or goes at that cell's port.
LEMMA VbusMoves ==
  ASSUME UNCHANGED hubs
  PROVE  /\ on' \subseteq on => Vbus' \subseteq Vbus
         /\ on \subseteq on' => Vbus \subseteq Vbus'
         /\ \A p \in (Vbus \ Vbus') \cup (Vbus' \ Vbus) :
               \E h \in ActionableHubs : Cell(h, p) \in (on \ on') \cup (on' \ on)
BY DEF Vbus, ActionableHubs, Cell

(***************************************************************************)
(* Steps that switch                                                       *)
(***************************************************************************)
LEMMA SwitchStep ==
  ASSUME RInv, [Next]_vars, pc \in {"set", "transfer"}, on' = Switched(Here, should_be_on),
         Stage' = Stage, Excuses' = Excuses
  PROVE  Contract!Drop \/ Contract!Flip \/ Contract!Raise
<1>1. UNCHANGED <<hubs, opt>> /\ Wanted' = Wanted
  BY InputKept, WantedKept DEF input
<1>2. /\ i \in ActionableHubs /\ port \in Selected(i) /\ opt.action # "keep"
      /\ k < 2 /\ ~PhaseSkipped(opt.action, k)
      /\ opt.action # "toggle" => (should_be_on <=> k = 1)
      /\ k \in 0..2 /\ should_be_on \in BOOLEAN /\ opt.action \in Actions
  BY DEF RInv, Inv, ControlOK, InHub, TypeOK, LocalsOK, InputOK, Option
<1>3. (Vbus \ Vbus') \cup (Vbus' \ Vbus) \subseteq Wanted
  <2> SUFFICES ASSUME NEW p \in (Vbus \ Vbus') \cup (Vbus' \ Vbus) PROVE p \in Wanted
    OBVIOUS
  <2>1. PICK h \in ActionableHubs : Cell(h, p) \in (on \ on') \cup (on' \ on)
    BY <1>1, VbusMoves
  <2>2. Cell(h, p) = Here
    BY <2>1 DEF Switched
  <2>3. p = port
    BY <2>2 DEF Here, Cell
  <2>4. p \in PhysPorts
    BY <1>1 DEF Vbus
  <2> QED
    BY <1>2, <2>3, <2>4 DEF Wanted, Halves
<1>4. CASE opt.action = "toggle"
  <2>1. Stage = "dropping"
    BY <1>2, <1>4 DEF Stage, Raising
  <2> QED
    BY <1>1, <1>3, <1>4, <2>1 DEF Contract!Flip, Excuses
<1>5. CASE opt.action # "toggle" /\ k = 0
  <2>1. opt.action \in {"off", "cycle"} /\ ~should_be_on
    BY <1>2, <1>5 DEF PhaseSkipped, Actions
  <2>2. Stage = "dropping"
    BY <1>5, <2>1 DEF Stage, Raising
  <2>3. Vbus' \subseteq Vbus
    BY <1>1, <2>1, VbusMoves DEF Switched
  <2> QED
    BY <1>1, <1>3, <2>1, <2>2, <2>3 DEF Contract!Drop, Excuses
<1>6. CASE opt.action # "toggle" /\ k = 1
  <2>1. opt.action \in {"on", "cycle"} /\ should_be_on
    BY <1>2, <1>6 DEF PhaseSkipped, Actions
  <2>2. Stage = "raising"
    BY <1>6, <2>1 DEF Stage, Raising
  <2>3. Vbus \subseteq Vbus'
    BY <1>1, <2>1, VbusMoves DEF Switched
  <2> QED
    BY <1>1, <1>3, <2>2, <2>3 DEF Contract!Raise, Excuses
<1> QED
  BY <1>2, <1>4, <1>5, <1>6

LEMMA ResetStep ==
  ASSUME RInv, ResetHub
  PROVE  Contract!Raise
<1>0. [Next]_vars
  BY DEF Next, Run
<1>1. UNCHANGED <<hubs, opt>> /\ Wanted' = Wanted /\ ports' = ports
  BY <1>0, InputKept, WantedKept DEF input
<1>2. k = 1 /\ opt.reset /\ ~PhaseSkipped(opt.action, k) /\ opt.action \in Actions \ {"keep"}
  BY DEF RInv, Inv, ControlOK, InHub, TypeOK, InputOK, Option, ResetHub
<1>3. opt.action \in {"on", "cycle"}
  BY <1>2 DEF PhaseSkipped, Actions
<1>4. Stage = "raising" /\ Stage' = "raising"
  BY <1>1, <1>2, <1>3 DEF Stage, Raising, ResetHub
<1>5. Vbus \subseteq Vbus'
  BY <1>1, VbusMoves DEF ResetHub
<1>6. UNCHANGED <<missed, repowered>>
  BY DEF ResetHub, ghost
<1>7. ExcusedDark' = ExcusedDark /\ ExcusedLight' = ExcusedLight
  BY <1>1, <1>6 DEF ExcusedDark, ExcusedLight, ExcusedOff, ExcusedOn, Cell, ActionableHubs, Wanted,
     Halves, Selected, PortsOf
<1> QED
  BY <1>1, <1>2, <1>4, <1>5, <1>7 DEF Contract!Raise

(***************************************************************************)
(* Steps that end a stage                                                  *)
(***************************************************************************)
\* A port of the contract that is lit is one of a half's own ports, so that the
\* loop has passed it there.
LEMMA DarkOrExcused ==
  ASSUME RInv, NEW p \in Vbus \cap Wanted,
         \A h \in ActionableHubs : \A q \in Selected(h) : PassedOff(h, q)
  PROVE  p \in ExcusedDark
<1>1. p \in PhysPorts
  BY DEF Vbus
<1>2. PICK h \in ActionableHubs : Cell(h, p) \in on
  BY DEF Vbus
<1>3. PICK g \in ActionableHubs : p \in Selected(g)
  BY DEF Wanted, Halves
<1>4. PICK x \in DOMAIN hubs : Cell(h, p) \in HubCells(x)
  BY <1>2 DEF RInv, OnReal, AllCells
<1>5. PICK q \in PortsOf(x) : Cell(h, p) = Cell(x, q)
  BY <1>4 DEF HubCells
<1>6. hubs[h].dev = hubs[x].dev /\ p = q
  BY <1>5 DEF Cell
<1>7. h = x
  BY <1>6 DEF RInv, Distinct, ActionableHubs
<1>8. p \in Selected(h)
  BY <1>3, <1>5, <1>6, <1>7 DEF Selected
<1>9. ExcusedOff(Cell(h, p))
  BY <1>2, <1>8 DEF RInv, Inv, OffSoFar
<1> QED
  BY <1>1, <1>9 DEF ExcusedDark

LEMMA LitOrExcused ==
  ASSUME RInv, NEW p \in Wanted \ Vbus,
         \A h \in ActionableHubs : \A q \in Selected(h) : PassedOn(h, q)
  PROVE  p \in ExcusedLight
<1>1. p \in PhysPorts
  BY DEF Wanted
<1>2. SUFFICES ASSUME NEW h \in Halves(p) PROVE ExcusedOn(Cell(h, p))
  BY DEF ExcusedLight
<1>3. h \in ActionableHubs /\ p \in Selected(h)
  BY DEF Halves
<1>4. Cell(h, p) \notin on
  BY <1>1, <1>3 DEF Vbus
<1> QED
  BY <1>3, <1>4 DEF RInv, Inv, OnSoFar

LEMMA FinishStep ==
  ASSUME RInv, Finish
  PROVE  Contract!Advance
<1>0. [Next]_vars
  BY DEF Next, Run
<1>1. UNCHANGED <<hubs, opt, ports, on, missed, repowered>> /\ pc = "phase" /\ k = 2 /\ pc' = "done"
  <2>1. UNCHANGED <<hubs, opt, ports>>
    BY <1>0, InputKept DEF input
  <2>2. UNCHANGED <<on, missed, repowered>> /\ pc = "phase" /\ k = 2 /\ pc' = "done"
    BY DEF Finish, env, ghost
  <2> QED
    BY <2>1, <2>2
<1>2. UNCHANGED <<opt.reset, opt.action, Wanted, Vbus, ExcusedDark, ExcusedLight>>
  BY <1>1, AllKept
<1>3. Stage' = "finished" /\ opt.action \in Actions
  <2>1. opt \in Option
    BY DEF RInv, Inv, TypeOK, InputOK
  <2>2. opt.action \in Actions
    BY <2>1 DEF Option
  <2>3. Stage' = "finished"
    BY <1>1 DEF Stage, Raising
  <2> QED
    BY <2>2, <2>3
<1>4. CASE opt.action = "off"
  <2>1. Stage = "dropping"
    BY <1>1, <1>4 DEF Stage, Raising
  <2>2. \A h \in ActionableHubs : \A q \in Selected(h) : PassedOff(h, q)
    BY <1>1, <1>4 DEF PassedOff
  <2>3. Vbus \cap Wanted \subseteq ExcusedDark
    BY <2>2, DarkOrExcused
  <2>4. Contract!AllDark
    BY <2>3 DEF Contract!AllDark, Contract!Excused, Vbus
  <2> QED
    BY <1>2, <1>3, <1>4, <2>1, <2>4 DEF Contract!Advance, Contract!FinishOff
<1>5. CASE opt.action \in {"keep", "toggle"}
  <2>1. Stage = "dropping"
    BY <1>1, <1>5 DEF Stage, Raising
  <2> QED
    BY <1>2, <1>3, <1>5, <2>1 DEF Contract!Advance, Contract!FinishElse
<1>6. CASE opt.action \in {"on", "cycle"}
  <2>1. Stage = "raising"
    BY <1>1, <1>6 DEF Stage, Raising
  <2>2. \A h \in ActionableHubs : \A q \in Selected(h) : PassedOn(h, q)
    BY <1>1, <1>6 DEF PassedOn
  <2>3. Wanted \ Vbus \subseteq ExcusedLight
    BY <2>2, LitOrExcused
  <2>4. Wanted \ Vbus \subseteq Contract!Excused("raising")
    BY <2>3 DEF Contract!Excused, Wanted
  <2> QED
    BY <1>2, <1>3, <2>1, <2>4 DEF Contract!Advance, Contract!FinishOn
<1> QED
  BY <1>3, <1>4, <1>5, <1>6 DEF Actions

LEMMA EndPhaseStep ==
  ASSUME RInv, EndPhase
  PROVE  Contract!Advance \/ Stage' = Stage
<1>0. [Next]_vars
  BY DEF Next, Run
<1>1. UNCHANGED <<hubs, opt, ports, on, missed, repowered, i>> /\ pc = "hub" /\ i > Len(hubs)
  BY <1>0, InputKept DEF EndPhase, input, env, ghost
<1>2. i \in Nat /\ k \in 0..2 /\ hubs \in Seq(Hub) /\ (k = 0 => ~PhaseSkipped(opt.action, k))
  BY <1>1 DEF RInv, Inv, TypeOK, LocalsOK, InputOK, ControlOK
<1>3. CASE k = 0 /\ opt.action = "cycle"
  <2>1. Stage = "dropping" /\ Stage' = "dark"
    BY <1>1, <1>3 DEF EndPhase, Stage, Raising
  <2>2. UNCHANGED <<opt.reset, opt.action, Wanted, Vbus, ExcusedDark, ExcusedLight>>
    BY <1>1, AllKept
  <2>3. \A h \in ActionableHubs : h < i
    BY <1>1, <1>2 DEF ActionableHubs
  <2>4. \A h \in ActionableHubs : \A q \in Selected(h) : PassedOff(h, q)
    BY <1>1, <1>3, <2>3 DEF PassedOff, Passed
  <2>5. Vbus \cap Wanted \subseteq ExcusedDark
    BY <2>4, DarkOrExcused
  <2>6. Contract!AllDark
    BY <2>5 DEF Contract!AllDark, Contract!Excused, Vbus
  <2> QED
    BY <1>3, <2>1, <2>2, <2>6 DEF Contract!Advance, Contract!Pause
<1>4. CASE ~(k = 0 /\ opt.action = "cycle")
  <2>1. pc' = "phase" /\ k' = k + 1
    BY <1>4 DEF EndPhase
  <2> QED
    BY <1>1, <1>2, <1>4, <2>1 DEF Stage, Raising
<1> QED
  BY <1>3, <1>4

LEMMA WakeStep ==
  ASSUME RInv, Wake
  PROVE  Contract!Advance
<1>0. [Next]_vars
  BY DEF Next, Run
<1>1. /\ UNCHANGED <<hubs, opt, ports, on, missed, repowered>> /\ pc = "sleep" /\ pc' = "phase"
      /\ k = 0 /\ k' = 1 /\ opt.action = "cycle"
  BY <1>0, InputKept DEF Wake, AfterSleep, input, env, ghost, RInv, Inv, ControlOK
<1>2. UNCHANGED <<opt.reset, opt.action, Wanted, Vbus, ExcusedDark, ExcusedLight>>
  BY <1>1, AllKept
<1>3. Stage = "dark" /\ Stage' = "raising"
  BY <1>1 DEF Stage, Raising
<1> QED
  BY <1>2, <1>3 DEF Contract!Advance, Contract!Resume

(***************************************************************************)
(* Every step                                                              *)
(***************************************************************************)
\* A step that changes no power is a stutter, or excuses ports.
LEMMA QuietStep ==
  ASSUME RInv, [Next]_vars, on' = on, Stage' = Stage
  PROVE  Contract!Mishap
<1>1. UNCHANGED <<hubs, opt>> /\ Wanted' = Wanted /\ Excuses \subseteq Excuses'
  BY InputKept, WantedKept, ExcusesGrow DEF input
<1>2. Vbus' = Vbus
  BY <1>1 DEF Vbus, ActionableHubs, Cell
<1> QED
  BY <1>1, <1>2 DEF Contract!Mishap, Excuses

LEMMA RepowerStep ==
  ASSUME RInv, KernelRepower
  PROVE  Contract!Mishap
<1>0. [Next]_vars
  BY DEF Next
<1>1. UNCHANGED <<hubs, opt, pc, k>> /\ Wanted' = Wanted /\ Excuses \subseteq Excuses'
  BY <1>0, InputKept, WantedKept, ExcusesGrow DEF input, KernelRepower
<1>2. PICK c \in AllCells : on' = on \cup {c} /\ repowered' = repowered \cup {c}
  BY DEF KernelRepower
<1>3. Stage' = Stage /\ Vbus \subseteq Vbus'
  BY <1>1, <1>2, VbusMoves DEF Stage, Raising
<1>4. ASSUME NEW p \in Vbus' \ Vbus PROVE p \in PhysPorts /\ p \in ExcusedDark'
  <2>1. p \in PhysPorts
    BY <1>4 DEF Vbus
  <2>2. PICK h \in ActionableHubs : Cell(h, p) \in (on \ on') \cup (on' \ on)
    BY <1>1, <1>4, VbusMoves
  <2>3. Cell(h, p) \in repowered'
    BY <1>2, <2>2
  <2>4. h \in ActionableHubs' /\ Cell(h, p)' = Cell(h, p)
    BY <1>1 DEF ActionableHubs, Cell
  <2> QED
    BY <2>1, <2>3, <2>4 DEF ExcusedDark, ExcusedOff
<1>5. Vbus' \ Vbus \subseteq {p \in PhysPorts : <<"dropping", p>> \in Excuses'}
  BY <1>4 DEF Excuses
<1> QED
  BY <1>1, <1>3, <1>5 DEF Contract!Mishap, Excuses

LEMMA Simulates == RInv /\ [Next]_vars => [Contract!CNext]_(Contract!cvars)
<1> SUFFICES ASSUME RInv, [Next]_vars
             PROVE  Contract!CNext \/ UNCHANGED Contract!cvars
  OBVIOUS
<1>1. /\ opt' = opt /\ k \in 0..2
      /\ pc \in InHub \cup {"hub"} => ~PhaseSkipped(opt.action, k)
  BY InputKept DEF input, RInv, Inv, TypeOK, LocalsOK, ControlOK, InHub
<1>a. CASE SkipPhase \/ StartPhase \/ SkipHub \/ OpenHub \/ OpenFails \/ PortsDone \/ SkipPort
             \/ ReadStatus \/ FallBack \/ TransfersDone
  <2>1. on' = on /\ pc \notin {"sleep", "done"} /\ pc' \notin {"sleep", "done"}
    BY <1>a DEF SkipPhase, StartPhase, SkipHub, OpenHub, OpenFails, PortsDone, SkipPort, ReadStatus,
       FallBack, TransfersDone, AtHub, AtPort, NextPort, env
  <2>2. k' = k \/ opt.action # "cycle"
    BY <1>a DEF SkipPhase, StartPhase, SkipHub, OpenHub, OpenFails, PortsDone, SkipPort, ReadStatus,
       FallBack, TransfersDone, PhaseSkipped
  <2>3. Stage' = Stage
    BY <1>1, <2>1, <2>2 DEF Stage, Raising
  <2> QED
    BY <2>1, <2>3, QuietStep DEF Contract!CNext
<1>b. CASE Finish
  BY <1>b, FinishStep DEF Contract!CNext
<1>c. CASE EndPhase
  <2>1. on' = on
    BY <1>c DEF EndPhase, env
  <2> QED
    BY <1>c, <2>1, EndPhaseStep, QuietStep DEF Contract!CNext
<1>d. CASE Wake
  BY <1>d, WakeStep DEF Contract!CNext
<1>e. CASE ResetHub
  BY <1>e, ResetStep DEF Contract!CNext
<1>f. CASE SysfsWrite \/ Transfer
  <2>1. /\ UNCHANGED <<k, missed, repowered>> /\ pc \in {"set", "transfer"}
        /\ pc' \notin {"sleep", "done"}
        /\ on' \in {on, Switched(Here, should_be_on)}
    BY <1>f DEF SysfsWrite, Transfer, NextPort, ghost
  <2>2. Stage' = Stage
    BY <1>1, <2>1 DEF Stage, Raising
  <2>3. Excuses' = Excuses
    <3>1. UNCHANGED <<hubs, ports>>
      BY InputKept DEF input
    <3> QED
      BY <2>1, <3>1 DEF Excuses, ExcusedDark, ExcusedLight, ExcusedOff, ExcusedOn, Cell,
         ActionableHubs, Wanted, Halves, Selected, PortsOf
  <2> QED
    BY <2>1, <2>2, <2>3, QuietStep, SwitchStep DEF Contract!CNext
<1>g. CASE KernelRepower
  BY <1>g, RepowerStep DEF Contract!CNext
<1>h. CASE UNCHANGED vars
  <2>1. on' = on /\ Stage' = Stage
    BY <1>h DEF vars, env, input, Stage, Raising
  <2> QED
    BY <2>1, QuietStep DEF Contract!CNext
<1> QED
  BY <1>a, <1>b, <1>c, <1>d, <1>e, <1>f, <1>g, <1>h DEF Next, Run

LEMMA InitContract == Init => Contract!CInit
<1> SUFFICES ASSUME Init PROVE Contract!CInit
  OBVIOUS
<1>1. opt \in Option
  BY RequestsAssumption DEF Init
<1>2. opt.reset \in BOOLEAN /\ opt.action \in Actions
  BY <1>1 DEF Option
<1>3. Wanted \subseteq PhysPorts /\ Vbus \subseteq PhysPorts
  BY DEF Wanted, Vbus
<1>4. Stage = IF opt.action = "on" THEN "raising" ELSE "dropping"
  BY DEF Init, Stage, Raising
<1>5. missed = {} /\ repowered = {}
  BY DEF Init
<1>6. ExcusedDark = {} /\ ExcusedLight = {}
  BY <1>5 DEF ExcusedDark, ExcusedLight, ExcusedOff, ExcusedOn, Wanted
<1>7. {"dropping"} \X ExcusedDark \cup {"raising"} \X ExcusedLight = {}
  BY <1>6
<1> QED
  BY <1>2, <1>3, <1>4, <1>7 DEF Contract!CInit, Actions

\* The loop implements the contract of the physical ports: dark together before
\* any is powered, every wanted port as asked at the end unless excused, no
\* other port touched but by a reset, for every hub array, mask and command line.
THEOREM Implements == Spec => KeepsContract
<1>1. RInv /\ [Next]_vars => [Contract!CNext]_(Contract!cvars)
  BY Simulates
<1> QED
  BY <1>1, InitContract, RInvHolds, PTL DEF Spec, KeepsContract, Contract!CSpec


(***************************************************************************)
(* Another run on the same hub                                             *)
(*                                                                         *)
(* What a step of a run can do to the cells of another run, what a run     *)
(* keeps when a step of another one leaves its cells alone, and what two   *)
(* runs that both switch on guarantee together (module UhubShared).        *)
(***************************************************************************)
\* How a step of the run changes the power of the ports.
LEMMA RunPower ==
  ASSUME ControlOK, Run
  PROVE  \/ on' = on
         \/ pc \in {"set", "transfer"} /\ on' = Switched(Here, should_be_on)
         \/ opt.reset /\ on \subseteq on'
<1>a. CASE UNCHANGED env
  BY <1>a DEF env
<1>b. CASE ResetHub
  BY <1>b DEF ResetHub, ControlOK
<1>c. CASE SysfsWrite \/ Transfer
  BY <1>c DEF SysfsWrite, Transfer
<1> QED
  BY <1>a, <1>b, <1>c DEF Run, SkipPhase, StartPhase, Finish, EndPhase, Wake, SkipHub, OpenHub,
     OpenFails, PortsDone, SkipPort, ReadStatus, FallBack, TransfersDone

\* A port the run does not operate keeps its power, and gets none unless the
\* hub is reset.
LEMMA OthersCells ==
  ASSUME ControlOK, Run, NEW c, c \notin SelectedCells
  PROVE  /\ c \in on => c \in on'
         /\ ~opt.reset /\ c \in on' => c \in on
<1>1. pc \in {"set", "transfer"} => c # Here
  BY SwitchedHere
<1> QED
  BY <1>1, RunPower DEF Switched

\* The kernel's history is not the run's.
LEMMA RunIsNotKernel == Run => UNCHANGED <<repowered, repowers>>
BY DEF Run, SkipPhase, StartPhase, Finish, EndPhase, Wake, SkipHub, OpenHub, OpenFails, PortsDone,
   ResetHub, SkipPort, ReadStatus, SysfsWrite, FallBack, Transfer, TransfersDone, ghost

own == <<opt, hubs, ports, on0, pc, k, i, port, should_be_on, left, sent, exit, ghost>>

LEMMA UndisturbedTypes ==
  ASSUME TypeOK, ControlOK, UNCHANGED own, CellsOK'
  PROVE  TypeOK' /\ ControlOK'
<1>1. InputOK'
  BY DEF TypeOK, InputOK, own
<1>2. LocalsOK'
  BY DEF TypeOK, LocalsOK, own, ghost
<1>3. ControlOK'
  BY DEF ControlOK, InHub, PhaseSkipped, ActionableHubs, Selected, PortsOf, own
<1> QED
  BY <1>1, <1>2, <1>3 DEF TypeOK

\* When nothing touches the ports it operates, the run keeps its invariant.
LEMMA Undisturbed ==
  ASSUME Inv, UNCHANGED own, CellsOK', \A c \in SelectedCells : c \in on' <=> c \in on
  PROVE  Inv'
<1>1. UNCHANGED <<opt, hubs, ports, pc, k, i, port, should_be_on, sent, missed, repowered>>
  BY DEF own, ghost
<1>2. TypeOK' /\ ControlOK'
  BY UndisturbedTypes DEF Inv
<1>3. SentOK'
  <2>1. pc = "transfer" => Here \in SelectedCells
    BY SwitchedHere DEF Inv
  <2>2. Here' = Here
    BY <1>1 DEF Here, Cell
  <2> QED
    BY <1>1, <2>1, <2>2 DEF Inv, SentOK
<1>4. ASSUME NEW h \in ActionableHubs, NEW p \in Selected(h)
      PROVE  /\ Cell(h, p) \in SelectedCells /\ Cell(h, p)' = Cell(h, p)
             /\ PassedOff(h, p)' = PassedOff(h, p) /\ PassedOn(h, p)' = PassedOn(h, p)
             /\ \A c : ExcusedOff(c)' = ExcusedOff(c) /\ ExcusedOn(c)' = ExcusedOn(c)
  <2>1. Cell(h, p) \in SelectedCells
    BY <1>4 DEF SelectedCells
  <2> QED
    BY <1>1, <2>1 DEF Cell, PassedOff, PassedOn, Passed, ExcusedOff, ExcusedOn
<1>5. ActionableHubs' = ActionableHubs /\ \A h : Selected(h)' = Selected(h)
  BY <1>1 DEF ActionableHubs, Selected, PortsOf
<1>6. OffSoFar'
  BY <1>4, <1>5 DEF Inv, OffSoFar
<1>7. OnSoFar'
  BY <1>4, <1>5 DEF Inv, OnSoFar
<1> QED
  BY <1>2, <1>3, <1>6, <1>7 DEF Inv

\* The run has powered the port, as far as its calls told: it has passed the
\* port in its second phase, or is at it and a transfer has succeeded.
Powered(h, p) ==
    \/ PassedOn(h, p)
    \/ pc = "transfer" /\ k = 1 /\ sent /\ h = i /\ p = port

\* From then on the run takes no power from any port, and the port stays passed.
LEMMA PoweredStays ==
  ASSUME TypeOK, ControlOK, Run, opt.action \in {"on", "cycle"},
         NEW h \in ActionableHubs, NEW p \in Selected(h), Powered(h, p)
  PROVE  Powered(h, p)' /\ on \subseteq on'
<1>1. /\ i \in Nat /\ port \in Nat /\ k \in 0..2 /\ sent \in BOOLEAN /\ should_be_on \in BOOLEAN
      /\ h \in 1..Len(hubs) /\ p \in 1..hubs[h].nports /\ hubs[h].nports \in Nat
      /\ hubs \in Seq(Hub)
  BY HubType DEF TypeOK, LocalsOK, InputOK, ActionableHubs, Selected, PortsOf
<1>2. UNCHANGED <<opt, hubs, ports>>
  BY InputKept DEF input, Next
<1>3. k >= 1
  BY <1>1 DEF Powered, PassedOn
<1>4. on \subseteq on'
  <2>1. pc \in {"set", "transfer"} => should_be_on
    <3>1. pc \in {"set", "transfer"} => k = 1
      BY <1>1, <1>3 DEF ControlOK
    <3> QED
      BY <3>1 DEF ControlOK, InHub
  <2> QED
    BY <2>1, RunPower DEF Switched
<1> USE DEF Powered, PassedOn, Passed, InHub
<1>a. CASE SkipPhase \/ StartPhase \/ Finish \/ EndPhase \/ Wake
  BY <1>a, <1>1, <1>2, <1>3, <1>4 DEF SkipPhase, StartPhase, Finish, EndPhase, Wake, AfterSleep,
     PhaseSkipped, ControlOK
<1>b. CASE SkipHub \/ OpenHub \/ OpenFails
  BY <1>b, <1>1, <1>2, <1>3, <1>4 DEF SkipHub, OpenHub, OpenFails, AtHub
<1>c. CASE PortsDone \/ ResetHub
  BY <1>c, <1>1, <1>2, <1>3, <1>4 DEF PortsDone, ResetHub, ControlOK
<1>d. CASE SkipPort \/ ReadStatus
  BY <1>d, <1>1, <1>2, <1>3, <1>4 DEF SkipPort, ReadStatus, AtPort, NextPort
<1>e. CASE SysfsWrite \/ FallBack
  BY <1>e, <1>1, <1>2, <1>3, <1>4 DEF SysfsWrite, FallBack, NextPort
<1>f. CASE Transfer
  BY <1>f, <1>1, <1>2, <1>3, <1>4 DEF Transfer
<1>g. CASE TransfersDone
  BY <1>g, <1>1, <1>2, <1>3, <1>4 DEF TransfersDone, NextPort
<1> QED
  BY <1>a, <1>b, <1>c, <1>d, <1>e, <1>f, <1>g DEF Run

\* Where a step makes the run pass a port in its second phase, or sends a
\* transfer to it, the port has power or the run has noted its failure.
LEMMA PoweredThen ==
  ASSUME TypeOK, ControlOK, Run, opt.action \in {"on", "cycle"},
         NEW h \in ActionableHubs, NEW p \in Selected(h), ~Powered(h, p), Powered(h, p)'
  PROVE  Cell(h, p) \in on' \/ <<1, hubs[h].dev, p>> \in missed'
<1>1. /\ i \in Nat /\ port \in Nat /\ k \in 0..2 /\ sent \in BOOLEAN /\ should_be_on \in BOOLEAN
      /\ h \in 1..Len(hubs) /\ p \in 1..hubs[h].nports /\ hubs[h].nports \in Nat
      /\ hubs \in Seq(Hub)
  BY HubType DEF TypeOK, LocalsOK, InputOK, ActionableHubs, Selected, PortsOf
<1>2. UNCHANGED <<opt, hubs, ports>>
  BY InputKept DEF input, Next
<1> USE DEF Powered, PassedOn, Passed, InHub
<1>a. CASE SkipPhase \/ StartPhase \/ Finish \/ Wake
  BY <1>a, <1>1, <1>2 DEF SkipPhase, StartPhase, Finish, Wake, AfterSleep, PhaseSkipped, ControlOK
<1>b. CASE EndPhase
  BY <1>b, <1>1, <1>2 DEF EndPhase, PhaseSkipped, ControlOK
<1>c. CASE SkipHub \/ OpenHub
  BY <1>c, <1>1, <1>2 DEF SkipHub, OpenHub, AtHub, ActionableHubs, ControlOK
<1>d. CASE OpenFails
  <2>1. h = i /\ k = 1
    BY <1>d, <1>1, <1>2 DEF OpenFails, AtHub
  <2> QED
    BY <1>d, <2>1 DEF OpenFails
<1>e. CASE PortsDone \/ ResetHub
  BY <1>e, <1>1, <1>2 DEF PortsDone, ResetHub, ControlOK
<1>f. CASE SkipPort
  BY <1>f, <1>1, <1>2 DEF SkipPort, AtPort, InMask, NextPort, Selected
<1>g. CASE ReadStatus
  <2>1. h = i /\ p = port /\ k = 1 /\ pc' = "port" /\ pc = "port"
    BY <1>g, <1>1, <1>2 DEF ReadStatus, AtPort, NextPort
  <2>2. should_be_on /\ on' = on /\ Here = Cell(h, p) /\ port' # port /\ opt.action # "toggle"
    BY <1>g, <1>1, <2>1 DEF ReadStatus, ControlOK, Here, env
  <2>3. PICK failed \in BOOLEAN :
           /\ ReadsOn(failed, Here)
           /\ missed' = IF ReadsOn(failed, Here) # (Here \in on)
                        THEN missed \cup {<<1, hubs[i].dev, port>>} ELSE missed
    BY <1>g, <2>1, <2>2 DEF ReadStatus
  <2> QED
    BY <2>1, <2>2, <2>3
<1>h. CASE SysfsWrite
  <2>1. h = i /\ p = port /\ k = 1
    BY <1>h, <1>1, <1>2 DEF SysfsWrite, NextPort
  <2>2. should_be_on /\ Here = Cell(h, p)
    BY <1>h, <2>1 DEF SysfsWrite, ControlOK, Here
  <2> QED
    BY <1>h, <2>2 DEF SysfsWrite, Switched
<1>i. CASE FallBack
  BY <1>i, <1>1, <1>2 DEF FallBack
<1>j. CASE Transfer
  <2>1. h = i /\ p = port /\ k = 1 /\ sent' /\ ~sent
    BY <1>j, <1>1, <1>2 DEF Transfer
  <2>2. should_be_on /\ Here = Cell(h, p)
    BY <1>j, <2>1 DEF Transfer, ControlOK, Here
  <2> QED
    BY <1>j, <2>1, <2>2 DEF Transfer, Switched
<1>k. CASE TransfersDone
  <2>1. h = i /\ p = port /\ k = 1 /\ ~sent
    BY <1>k, <1>1, <1>2 DEF TransfersDone, NextPort
  <2> QED
    BY <1>k, <2>1 DEF TransfersDone
<1> QED
  BY <1>a, <1>b, <1>c, <1>d, <1>e, <1>f, <1>g, <1>h, <1>i, <1>j, <1>k DEF Run
=============================================================================
