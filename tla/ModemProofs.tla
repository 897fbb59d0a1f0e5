---------------------------- MODULE ModemProofs ----------------------------
(***************************************************************************)
(* Theorems about the modem scripts.  Mode switching and its hook, for any *)
(* window, any number of modems that come and go, and commands of any      *)
(* duration; and the naming of interfaces, for any set of USB IDs and any  *)
(* table of the administrator.                                             *)
(***************************************************************************)
EXTENDS PlugAndPlay, ModemNames, SequenceTheorems, TLAPS

(***************************************************************************)
(* The invariant                                                           *)
(***************************************************************************)
\* The lock file carries the time of the last round.
LockOK ==
    /\ lock = None <=> rounds = <<>>
    /\ rounds # <<>> => lock = rounds[Len(rounds)]

\* Once the age was found to suffice it stays so: time only grows, and only
\* this script writes the file.
GapOK == pc = "touch" => lock = None \/ now - lock >= Window

\* From the reading of the mode to the last command, the modem with the number
\* of the event is in the wrong mode.
AimOK == pc \in {"check", "touch", "run"} /\ dev = ev => mode = "wrong"

Waits == \E j \in DOMAIN events : events[j] = dev
JustNow == rounds # <<>> /\ handled - rounds[Len(rounds)] < Window

\* A modem in the wrong mode has an event that waits or is being handled, or
\* the last event was handled just after a round.
CareOK ==
    dev # None /\ mode = "wrong" => Waits \/ pc \in {"read", "check", "touch"} \/ JustNow

Inv == TypeOK /\ LockOK /\ GapOK /\ AimOK /\ CareOK /\ Spaced /\ RightUntouched

LEMMA InitInv == Init => Inv
<1> SUFFICES ASSUME Init PROVE Inv
  OBVIOUS
<1> USE BoundsAssumption, NoneAssumption DEF Init
<1>1. TypeOK
  BY DEF TypeOK, Kinds, Modes
<1>2. LockOK /\ GapOK /\ AimOK /\ CareOK
  BY DEF LockOK, GapOK, AimOK, CareOK
<1>3. Spaced /\ RightUntouched
  BY DEF Spaced, RightUntouched
<1> QED
  BY <1>1, <1>2, <1>3 DEF Inv

(***************************************************************************)
(* Types                                                                   *)
(***************************************************************************)
EventsOK(s, n) ==
    s \in Seq(1 .. n) /\ \A j, m \in DOMAIN s : j < m => s[j] < s[m]

LEMMA AppendEvent ==
  ASSUME NEW n \in Nat, NEW s, EventsOK(s, n)
  PROVE  EventsOK(Append(s, n + 1), n + 1)
<1>1. s \in Seq(1 .. n + 1) /\ n + 1 \in 1 .. n + 1
  BY DEF EventsOK
<1>2. Append(s, n + 1) \in Seq(1 .. n + 1)
  BY <1>1
<1>3. \A j \in 1 .. Len(s) : s[j] \in 1 .. n
  BY DEF EventsOK
<1>4. \A j, m \in 1 .. Len(s) : j < m => s[j] < s[m]
  BY DEF EventsOK
<1>5. /\ DOMAIN Append(s, n + 1) = 1 .. Len(s) + 1 /\ Len(s) \in Nat
      /\ \A j \in 1 .. Len(s) + 1 : Append(s, n + 1)[j] = IF j <= Len(s) THEN s[j] ELSE n + 1
  BY <1>1
<1> QED
  BY <1>2, <1>3, <1>4, <1>5 DEF EventsOK

LEMMA TailEvent ==
  ASSUME NEW n \in Nat, NEW s, EventsOK(s, n), s # <<>>
  PROVE  EventsOK(Tail(s), n) /\ Head(s) \in 1 .. n
BY SMTT(20) DEF EventsOK

LEMMA EnumerateType ==
  ASSUME TypeOK, Enumerate
  PROVE  /\ last' \in 0 .. MaxDev /\ dev' \in 1 .. last' /\ mode' \in Modes
         /\ EventsOK(events', last') /\ last' = last + 1
<1>1. last \in Nat /\ last' = last + 1 /\ EventsOK(events, last) /\ events' = Append(events, last + 1)
  BY BoundsAssumption DEF TypeOK, Enumerate, EventsOK
<1>2. EventsOK(Append(events, last + 1), last + 1)
  BY <1>1, AppendEvent
<1>3. EventsOK(events', last')
  BY <1>1, <1>2 DEF EventsOK
<1> QED
  BY <1>1, <1>3, BoundsAssumption DEF TypeOK, Enumerate

LEMMA StepTypeOK ==
  ASSUME TypeOK, [Next]_vars
  PROVE  TypeOK'
<1> USE BoundsAssumption, NoneAssumption
<1>0. EventsOK(events, last) /\ last \in Nat /\ MaxDev \in Nat
  BY DEF TypeOK, EventsOK
<1>1. CASE UNCHANGED vars
  BY <1>1 DEF TypeOK, Commands, vars, modem, script, ghost
<1>2. CASE Plug
  <2>1. UNCHANGED <<kind, now, script, ghost>>
    BY <1>2 DEF Plug
  <2>2. /\ last' \in 0 .. MaxDev /\ dev' \in 1 .. last' /\ mode' \in Modes
        /\ EventsOK(events', last') /\ last' = last + 1
    BY <1>2, EnumerateType DEF Plug
  <2> QED
    BY <2>1, <2>2, <1>0 DEF TypeOK, EventsOK, Commands, script, ghost
<1>3. CASE Unplug
  BY <1>3 DEF Unplug, TypeOK, Commands, script, ghost
<1>4. CASE Tick
  <2>1. now' \in 0 .. MaxTime /\ now' = now + 1 /\ now \in Nat
    BY <1>4 DEF Tick, TypeOK
  <2>2. rounds' \in Seq(0 .. now')
    BY <1>4, <2>1 DEF Tick, TypeOK, ghost
  <2> QED
    BY <1>4, <2>1, <2>2 DEF Tick, TypeOK, Commands, modem, script, ghost
<1>5. CASE Start
  <2>1. EventsOK(Tail(events), last) /\ Head(events) \in 1 .. last
    BY <1>0, <1>5, TailEvent DEF Start
  <2> QED
    BY <1>5, <2>1 DEF Start, TypeOK, EventsOK, Commands, modem, ghost
<1>6. CASE ReadMode
  BY <1>6 DEF ReadMode, TypeOK, Commands, modem, ghost
<1>7. CASE CheckLock
  BY <1>7 DEF CheckLock, TypeOK, Commands, modem
<1>8. CASE Touch
  <2>1. now \in 0 .. now /\ rounds' \in Seq(0 .. now)
    BY <1>8 DEF Touch, TypeOK
  <2> QED
    BY <1>8, <2>1 DEF Touch, TypeOK, Commands, modem
<1>9. ASSUME pc = "run", NextCommand, kind' = kind
      PROVE  /\ pc' \in {"idle", "run"} /\ cmd' \in Nat \ {0}
             /\ pc' = "run" => cmd' <= Commands'
  BY <1>9 DEF NextCommand, AfterCommand, TypeOK, Commands
<1>10. CASE NoEffect
  BY <1>9, <1>10 DEF NoEffect, TypeOK, modem
<1>11. CASE ResetModem
  <2>1. /\ last' \in 0 .. MaxDev /\ dev' \in 1 .. last' /\ mode' \in Modes
        /\ EventsOK(events', last') /\ last' = last + 1
    BY <1>11, EnumerateType DEF ResetModem
  <2> QED
    BY <1>9, <1>11, <2>1, <1>0 DEF ResetModem, TypeOK, EventsOK
<1>12. CASE SetConfiguration
  BY <1>9, <1>12 DEF SetConfiguration, TypeOK, Modes
<1> QED
  BY <1>1, <1>2, <1>3, <1>4, <1>5, <1>6, <1>7, <1>8, <1>10, <1>11, <1>12 DEF Next, Script

(***************************************************************************)
(* The lock                                                                *)
(***************************************************************************)
LEMMA StepLock ==
  ASSUME TypeOK, LockOK, GapOK, Spaced, [Next]_vars
  PROVE  LockOK' /\ GapOK' /\ Spaced'
<1> USE BoundsAssumption, NoneAssumption
<1>0. ASSUME UNCHANGED <<lock, rounds>>, pc' = "touch" => pc = "touch", now' \in Nat, now' >= now
      PROVE  LockOK' /\ GapOK' /\ Spaced'
  <2>1. now \in Nat /\ lock \in {None} \cup Nat
    BY DEF TypeOK
  <2>2. GapOK'
    BY <1>0, <2>1 DEF GapOK
  <2> QED
    BY <1>0, <2>2 DEF LockOK, Spaced
<1>n. now \in Nat
  BY DEF TypeOK
<1>1. CASE Touch
  <2>1. rounds \in Seq(Nat) /\ rounds' = Append(rounds, now) /\ lock' = now /\ pc' = "run"
    BY <1>1 DEF Touch, TypeOK
  <2>2. LockOK' /\ GapOK'
    BY <2>1, <1>n DEF LockOK, GapOK
  <2>3. rounds # <<>> => now - rounds[Len(rounds)] >= Window
    BY <1>1, <1>n DEF Touch, LockOK, GapOK
  <2>4. Spaced'
    <3> SUFFICES ASSUME NEW j \in 1 .. Len(rounds') - 1
                 PROVE  rounds'[j + 1] - rounds'[j] >= Window
      BY DEF Spaced
    <3>1. Len(rounds) \in Nat /\ Len(rounds') = Len(rounds) + 1
      BY <2>1
    <3>2. CASE j < Len(rounds)
      <4>1. rounds'[j] = rounds[j] /\ rounds'[j + 1] = rounds[j + 1] /\ j \in 1 .. Len(rounds) - 1
        BY <2>1, <3>1, <3>2
      <4> QED
        BY <4>1 DEF Spaced
    <3>3. CASE j = Len(rounds)
      <4>1. rounds # <<>> /\ rounds'[j] = rounds[Len(rounds)] /\ rounds'[j + 1] = now
        BY <2>1, <3>1, <3>3
      <4> QED
        BY <2>3, <4>1
    <3> QED
      BY <3>1, <3>2, <3>3
  <2> QED
    BY <2>2, <2>4
<1>2. CASE CheckLock
  <2>1. lock \in {None} \cup Nat /\ UNCHANGED <<lock, rounds, now>>
    BY <1>2 DEF TypeOK, CheckLock
  <2>2. GapOK'
    BY <1>2, <2>1, <1>n DEF CheckLock, Recent, GapOK
  <2> QED
    BY <2>1, <2>2 DEF LockOK, Spaced
<1>3. CASE Plug \/ Unplug \/ Tick \/ UNCHANGED vars
  BY <1>0, <1>n, <1>3 DEF Plug, Unplug, Tick, vars, script, ghost
<1>4. CASE Start \/ ReadMode
  BY <1>0, <1>n, <1>4 DEF Start, ReadMode, ghost
<1>5. CASE NoEffect \/ ResetModem \/ SetConfiguration
  BY <1>0, <1>n, <1>5 DEF NoEffect, ResetModem, SetConfiguration, NextCommand, AfterCommand
<1> QED
  BY <1>1, <1>2, <1>3, <1>4, <1>5 DEF Next, Script

(***************************************************************************)
(* The aim                                                                 *)
(***************************************************************************)
LEMMA StepAim ==
  ASSUME TypeOK, AimOK, RightUntouched, [Next]_vars
  PROVE  AimOK' /\ RightUntouched'
<1> USE BoundsAssumption, NoneAssumption DEF AimOK, RightUntouched
<1>0. ev \in 0 .. last /\ last \in Nat
  BY DEF TypeOK
<1>1. CASE Plug
  BY <1>0, <1>1 DEF Plug, Enumerate, script, ghost
<1>2. CASE Unplug
  BY <1>0, <1>2 DEF Unplug, script, ghost
<1>3. CASE Tick \/ UNCHANGED vars
  BY <1>3 DEF Tick, vars, modem, script, ghost
<1>4. CASE Start \/ ReadMode
  BY <1>4 DEF Start, ReadMode, modem, ghost
<1>5. CASE CheckLock \/ Touch
  BY <1>5 DEF CheckLock, Touch, modem
<1>6. CASE NoEffect
  BY <1>6 DEF NoEffect, NextCommand, AfterCommand, Addressed, modem
<1>7. CASE ResetModem
  <2>1. dev' = last + 1 /\ ev' = ev
    BY <1>7 DEF ResetModem, Enumerate
  <2>2. dev' # ev'
    BY <1>0, <2>1
  <2>3. mode = "wrong" /\ hit' = hit \cup {mode}
    BY <1>7 DEF ResetModem, Addressed
  <2> QED
    BY <2>2, <2>3
<1>8. CASE SetConfiguration
  <2>1. pc' = "idle"
    BY <1>8 DEF SetConfiguration, NextCommand, AfterCommand, Commands, TypeOK
  <2> QED
    BY <1>8, <2>1 DEF SetConfiguration, Addressed
<1> QED
  BY <1>1, <1>2, <1>3, <1>4, <1>5, <1>6, <1>7, <1>8 DEF Next, Script

(***************************************************************************)
(* The care                                                                *)
(***************************************************************************)
LEMMA EnumeratedWaits ==
  ASSUME TypeOK, Enumerate
  PROVE  Waits'
<1>1. events \in Seq(Nat) /\ events' = Append(events, last + 1) /\ dev' = last + 1 /\ last \in Nat
  BY DEF TypeOK, Enumerate
<1>2. Len(events) + 1 \in DOMAIN events' /\ events'[Len(events) + 1] = dev'
  BY <1>1
<1> QED
  BY <1>2 DEF Waits

LEMMA StepCare ==
  ASSUME TypeOK, LockOK, CareOK, [Next]_vars
  PROVE  CareOK'
<1> USE BoundsAssumption, NoneAssumption
<1> DEFINE Busy == pc \in {"read", "check", "touch"}
<1>0. ASSUME UNCHANGED <<events, rounds, handled>>, Busy => Busy',
             dev' = dev \/ dev' = None, mode' = mode
      PROVE  CareOK'
  BY <1>0 DEF CareOK, Waits, JustNow
<1>1. CASE Plug
  BY <1>1, EnumeratedWaits DEF Plug, CareOK
<1>2. CASE Unplug \/ Tick \/ UNCHANGED vars
  BY <1>0, <1>2 DEF Unplug, Tick, vars, modem, script, ghost
<1>3. CASE Start
  BY <1>3 DEF Start, CareOK
<1>4. CASE ReadMode
  BY <1>4 DEF ReadMode, CareOK, modem
<1>5. CASE CheckLock
  <2>1. Recent => JustNow'
    BY <1>5 DEF CheckLock, Recent, LockOK, JustNow
  <2> QED
    BY <1>5, <2>1 DEF CheckLock, CareOK
<1>6. CASE Touch
  <2>1. rounds \in Seq(Nat) /\ rounds' = Append(rounds, now) /\ now \in Nat
    BY <1>6 DEF Touch, TypeOK
  <2>2. rounds' # <<>> /\ rounds'[Len(rounds')] = now
    BY <2>1
  <2>3. handled' = handled /\ handled \in 0 .. now
    BY <1>6 DEF Touch, TypeOK
  <2>4. JustNow'
    BY <2>1, <2>2, <2>3 DEF JustNow
  <2> QED
    BY <2>4 DEF CareOK
<1>7. CASE NoEffect
  BY <1>0, <1>7 DEF NoEffect, modem
<1>8. CASE ResetModem
  BY <1>8, EnumeratedWaits DEF ResetModem, CareOK
<1>9. CASE SetConfiguration
  BY <1>9 DEF SetConfiguration, CareOK
<1> QED
  BY <1>1, <1>2, <1>3, <1>4, <1>5, <1>6, <1>7, <1>8, <1>9 DEF Next, Script

(***************************************************************************)
(* The theorems                                                            *)
(***************************************************************************)
LEMMA Invariance == Spec => []Inv
<1>1. Inv /\ [Next]_vars => Inv'
  BY StepTypeOK, StepLock, StepAim, StepCare DEF Inv
<1> QED
  BY InitInv, <1>1, PTL DEF Spec

\* The variables keep their types, for every constant.
THEOREM TypeCorrect == Spec => []TypeOK
<1>1. Inv => TypeOK
  BY DEF Inv
<1> QED
  BY Invariance, <1>1, PTL

\* Rounds of switching at a port keep their distance, however long commands
\* take and whatever is plugged meanwhile.
THEOREM Spacing == Spec => []Spaced
<1>1. Inv => Spaced
  BY DEF Inv
<1> QED
  BY Invariance, <1>1, PTL

\* No command reaches a modem in the right mode.
THEOREM RightModemsSafe == Spec => []RightUntouched
<1>1. Inv => RightUntouched
  BY DEF Inv
<1> QED
  BY Invariance, <1>1, PTL

\* A modem that stays in the wrong mode stays so for the reason the scripts give.
THEOREM NoModemForgotten == Spec => []NotForgotten
<1>1. Inv => NotForgotten
  <2> SUFFICES ASSUME Inv, pc = "idle", events = <<>>, dev # None, mode = "wrong"
               PROVE  JustNow
    BY DEF NotForgotten, JustNow
  <2>1. ~Waits
    BY DEF Waits
  <2> QED
    BY <2>1 DEF Inv, CareOK
<1> QED
  BY Invariance, <1>1, PTL

(***************************************************************************)
(* Proofs about the plug and play hook.  The hook does nothing to the      *)
(* port, so that the theorems about mode switching hold beside it; they    *)
(* give the types that the hook's invariant needs.                         *)
(***************************************************************************)

\* The port with the hook beside it behaves as the port alone: whatever is
\* shown of brovi_switch and DW_qmi_switch.sh holds with udevhook.sh too.
THEOREM PortAlone == HookSpec => Spec
<1>1. HookInit => Init
  BY DEF HookInit
<1>2. [HookNext]_allVars => [Next]_vars
  <2>1. CASE Port
    BY <2>1 DEF Port, Next, Script
  <2>2. CASE HookStep
    BY <2>2 DEF HookStep, HookTest, HookOrder, HookRefused,
       UnitStarts, RunOneRefuses, UnitEnds, ResetFailed, OtherRun
  <2>3. CASE UNCHANGED allVars
    BY <2>3 DEF allVars
  <2> QED BY <2>1, <2>2, <2>3 DEF HookNext
<1> QED BY <1>1, <1>2, PTL DEF HookSpec, Spec

\* The last event that waits is that of the interface that is there, so that the
\* hook cannot be through with its events without having seen its name.
LastIsPresent == born # None /\ adds # <<>> => adds[Len(adds)] = ours

Hook == PlugsOK /\ LastIsPresent /\ Accounted

LEMMA AppendLast ==
    ASSUME NEW S, NEW s \in Seq(S), NEW x \in S
    PROVE  /\ Append(s, x) \in Seq(S) /\ Append(s, x) # <<>>
           /\ Append(s, x)[Len(Append(s, x))] = x
OBVIOUS

LEMMA TailLast ==
    ASSUME NEW S, NEW s \in Seq(S), s # <<>>
    PROVE  /\ Tail(s) \in Seq(S)
           /\ Tail(s) = <<>> => Head(s) = s[Len(s)]
           /\ Tail(s) # <<>> => Tail(s)[Len(Tail(s))] = s[Len(s)]
<1>1. Len(s) \in Nat /\ Len(s) # 0
  OBVIOUS
<1>2. /\ Tail(s) \in Seq(S) /\ Len(Tail(s)) = Len(s) - 1 /\ Head(s) = s[1]
      /\ \A j \in 1 .. Len(s) - 1 : Tail(s)[j] = s[j + 1]
  BY <1>1
<1>3. Tail(s) # <<>> => Len(Tail(s)) # 0
  BY <1>2
<1>4. Len(<<>>) = 0
  OBVIOUS
<1>5. Tail(s) = <<>> => Len(Tail(s)) = 0
  BY <1>4, Zenon
<1>6. Len(Tail(s)) = 0 => Head(s) = s[Len(s)]
  <2> DEFINE n == Len(s)
             t == Len(Tail(s))
  <2>1. n \in Nat /\ t = n - 1
    BY <1>1, <1>2
  <2>2. t = 0 => n = 1
    <3> HIDE DEF n, t
    <3> QED BY <2>1
  <2> QED BY <1>2, <2>2, Zenon
<1>7. Len(Tail(s)) # 0 => Tail(s)[Len(Tail(s))] = s[Len(s)]
  BY <1>1, <1>2
<1> QED
  BY <1>2, <1>3, <1>5, <1>6, <1>7, Zenon

\* What the steps of the port do to the invariant: an interface that appears
\* has an event that waits.
LEMMA PortKeepsHook ==
    ASSUME TypeOK, TypeOK', Hook, Port PROVE Hook'
<1> USE BoundsAssumption, NoneAssumption
<1>1. now \in Nat /\ now' \in Nat /\ last \in Nat
  BY DEF TypeOK
<1>2. CASE (Plug \/ ResetModem \/ SetConfiguration) /\ Appear
  <2>1. now' = now /\ dev' # None
    <3>1. CASE Plug
      BY <3>1, <1>1 DEF Plug, Enumerate
    <3>2. CASE ResetModem
      BY <3>2, <1>1 DEF ResetModem, Enumerate
    <3>3. CASE SetConfiguration
      BY <3>3, <1>1 DEF SetConfiguration, Addressed, TypeOK
    <3> QED BY <1>2, <3>1, <3>2, <3>3
  <2>2. born' = now /\ ours' \in BOOLEAN /\ adds' = Append(adds, ours')
        /\ tried' = FALSE /\ excused' = FALSE /\ UNCHANGED <<hook, unit, due>>
    BY <1>2 DEF Appear
  <2>3. adds' \in Seq(BOOLEAN) /\ adds' # <<>> /\ adds'[Len(adds')] = ours'
    <3> DEFINE Flags == BOOLEAN
    <3>1. adds \in Seq(Flags) /\ ours' \in Flags
      BY <2>2 DEF Hook, PlugsOK
    <3>2. adds' \in Seq(Flags) /\ adds' # <<>> /\ adds'[Len(adds')] = ours'
      <4> HIDE DEF Flags
      <4> QED BY <2>2, <3>1, AppendLast
    <3> QED BY <3>2
  <2>4. born' \in {None} \cup 0 .. now' /\ (born' = None <=> dev' = None)
    BY <2>1, <2>2, <1>1
  <2>5. PlugsOK'
    <3>1. hook' \in {"idle", "order"} /\ unit' \in Units /\ due' \in Nat
          /\ (unit' = "running" => due' <= now')
      BY <2>1, <2>2 DEF Hook, PlugsOK
    <3> QED BY <3>1, <2>2, <2>3, <2>4, Zenon DEF PlugsOK
  <2> QED BY <2>3, <2>5, Zenon DEF Hook, LastIsPresent, Accounted
<1>3. CASE Unplug /\ Vanish
  <2>1. dev' = None /\ now' = now /\ born' = None /\ ours' = FALSE
        /\ tried' = FALSE /\ excused' = FALSE /\ UNCHANGED <<adds, hook, unit, due>>
    BY <1>3 DEF Unplug, Vanish
  <2> QED BY <2>1, Zenon DEF Hook, PlugsOK, LastIsPresent, Accounted
<1>4. CASE (Tick \/ Start \/ ReadMode \/ CheckLock \/ Touch \/ NoEffect) /\ UNCHANGED plugs
  <2>1. dev' = dev /\ now <= now'
    <3>1. CASE Tick
      BY <3>1, <1>1 DEF Tick, modem
    <3>2. CASE Start \/ ReadMode \/ CheckLock \/ Touch \/ NoEffect
      BY <3>2, <1>1 DEF Start, ReadMode, CheckLock, Touch, NoEffect, modem
    <3> QED BY <1>4, <3>1, <3>2
  <2>2. UNCHANGED <<born, ours, adds, hook, unit, due, tried, excused>>
    BY <1>4 DEF plugs
  <2>3. LastIsPresent' /\ Accounted'
    BY <2>2, Zenon DEF Hook, LastIsPresent, Accounted
  <2>4. born' \in {None} \cup 0 .. now'
    BY <2>1, <2>2, <1>1 DEF Hook, PlugsOK
  <2>5. unit' = "running" => due' <= now'
    BY <2>1, <2>2, <1>1 DEF Hook, PlugsOK
  <2> QED BY <2>1, <2>2, <2>3, <2>4, <2>5, Zenon DEF Hook, PlugsOK
<1> QED BY <1>2, <1>3, <1>4 DEF Port

\* What the hook, the timer and the runs do to the invariant.
LEMMA HookKeepsHook ==
    ASSUME TypeOK, Hook, HookStep PROVE Hook'
<1> USE BoundsAssumption, NoneAssumption, DelayAssumption
<1>1. UNCHANGED <<now, dev, born, ours>> /\ now \in Nat
  <2>1. UNCHANGED <<vars, born, ours>>
    BY DEF HookStep, HookTest, HookOrder, HookRefused, UnitStarts,
       RunOneRefuses, UnitEnds, ResetFailed, OtherRun
  <2> QED BY <2>1 DEF vars, modem, TypeOK
<1>2. born \in {None} \cup 0 .. now /\ (born = None <=> dev = None)
      /\ ours \in BOOLEAN /\ adds \in Seq(BOOLEAN) /\ hook \in {"idle", "order"}
      /\ unit \in Units /\ due \in Nat /\ (unit = "running" => due <= now)
  BY DEF Hook, PlugsOK
<1>3. tried \in BOOLEAN /\ excused \in BOOLEAN
  BY DEF Hook, PlugsOK
<1>4. ASSUME UNCHANGED adds PROVE LastIsPresent'
  BY <1>1, <1>4, Zenon DEF Hook, LastIsPresent
<1>5. CASE HookTest
  <2>1. /\ hook = "idle" /\ adds # <<>> /\ adds' = Tail(adds)
        /\ \/ hook' = "idle" /\ excused' = (excused \/ adds' = <<>>)
           \/ Head(adds) /\ hook' = "order" /\ UNCHANGED excused
           \/ ~Head(adds) /\ UNCHANGED <<hook, excused>>
        /\ UNCHANGED <<unit, due, tried>>
    BY <1>5 DEF HookTest
  <2>2. /\ adds' \in Seq(BOOLEAN)
        /\ adds' = <<>> => Head(adds) = adds[Len(adds)]
        /\ adds' # <<>> => adds'[Len(adds')] = adds[Len(adds)]
    BY <2>1, <1>2, TailLast, Zenon
  <2>3. born # None => adds[Len(adds)] = ours
    BY <2>1, Zenon DEF Hook, LastIsPresent
  <2>4. LastIsPresent'
    BY <2>2, <2>3, <1>1, Zenon DEF LastIsPresent
  <2>5. hook' \in {"idle", "order"} /\ excused' \in BOOLEAN
    <3>1. (excused \/ adds' = <<>>) \in BOOLEAN
      BY Zenon
    <3> QED BY <2>1, <3>1, <1>2, <1>3, Zenon
  <2>6. PlugsOK'
    BY <2>1, <2>2, <2>5, <1>1, <1>2, <1>3, Zenon DEF PlugsOK
  <2>7. born # None /\ ours /\ adds' = <<>> /\ hook' = "idle" => excused'
    BY <2>1, <2>2, <2>3, Zenon
  <2>8. Accounted'
    BY <2>7, <1>1, Zenon DEF Accounted
  <2> QED BY <2>4, <2>6, <2>8 DEF Hook
<1>6. CASE HookOrder
  <2>1. hook' = "idle" /\ unit' = "waiting" /\ due' = now + Delay /\ excused' = FALSE
        /\ UNCHANGED <<adds, tried>>
    BY <1>6 DEF HookOrder, DueTime
  <2>2. due' \in Nat /\ (born' # None => due' - born' >= MinUptime)
    BY <2>1, <1>1, <1>2
  <2> QED BY <2>1, <2>2, <1>1, <1>2, <1>3, <1>4 DEF Hook, PlugsOK, Accounted, Units
<1>7. CASE HookRefused
  <2>1. hook' = "idle" /\ unit # "none"
        /\ excused' = (excused \/ unit \in {"running", "failed"} \/ Outdated)
        /\ UNCHANGED <<adds, unit, due, tried>>
    BY <1>7 DEF HookRefused
  <2>2. excused' \in BOOLEAN
    BY <2>1
  <2>3. excused' \/ (unit = "waiting" /\ ~Outdated)
    BY <2>1, <1>2 DEF Units
  <2>4. ASSUME unit = "waiting", ~Outdated, born # None PROVE due - born >= MinUptime
    BY <2>4, <1>2 DEF Outdated
  <2> QED BY <2>1, <2>2, <2>3, <2>4, <1>1, <1>2, <1>3, <1>4 DEF Hook, PlugsOK, Accounted
<1>8. CASE UnitStarts
  <2>1. unit = "waiting" /\ due <= now /\ unit' = "running" /\ UNCHANGED <<adds, hook, due>>
    BY <1>8 DEF UnitStarts, Elapsed
  <2>2. PICK locked \in BOOLEAN :
          /\ tried' = (tried \/ (OldEnough /\ ~locked))
          /\ excused' = (excused \/ (OldEnough /\ locked))
    BY <1>8, Zenon DEF UnitStarts, TakeUp
  <2>3. tried' \in BOOLEAN /\ excused' \in BOOLEAN
    BY <2>2
  <2>4. (tried \/ excused => tried' \/ excused') /\ (OldEnough => tried' \/ excused')
    BY <2>2, Zenon
  <2>5. born # None /\ due - born >= MinUptime => OldEnough
    BY <2>1, <1>2, <1>1 DEF OldEnough
  <2>6. PlugsOK'
    BY <2>1, <2>3, <1>1, <1>2 DEF PlugsOK, Units
  <2>7. Accounted'
    BY <2>1, <2>4, <2>5, <1>1 DEF Hook, Accounted
  <2> QED BY <2>1, <2>6, <2>7, <1>4 DEF Hook
<1>9. CASE RunOneRefuses
  BY <1>9, <1>1, <1>2, <1>3, <1>4 DEF RunOneRefuses, Hook, PlugsOK, Accounted, Units
<1>10. CASE UnitEnds \/ ResetFailed
  BY <1>10, <1>1, <1>2, <1>3, <1>4 DEF UnitEnds, ResetFailed, Hook, PlugsOK, Accounted, Units
<1>11. CASE OtherRun
  <2>1. UNCHANGED <<adds, hook, unit, due>>
    BY <1>11 DEF OtherRun
  <2>2. PICK locked \in BOOLEAN :
          /\ tried' = (tried \/ (OldEnough /\ ~locked))
          /\ excused' = (excused \/ (OldEnough /\ locked))
    BY <1>11, Zenon DEF OtherRun, TakeUp
  <2>3. tried' \in BOOLEAN /\ excused' \in BOOLEAN
    BY <2>2
  <2>4. tried \/ excused => tried' \/ excused'
    BY <2>2, Zenon
  <2>5. PlugsOK'
    BY <2>1, <2>3, <1>1, <1>2 DEF PlugsOK, Units
  <2>6. Accounted'
    BY <2>1, <2>4, <1>1 DEF Hook, Accounted
  <2> QED BY <2>1, <2>5, <2>6, <1>4 DEF Hook
<1> QED BY <1>5, <1>6, <1>7, <1>8, <1>9, <1>10, <1>11 DEF HookStep

\* The invariant of the hook, on the types of the port.
THEOREM HookInvariant == HookSpec => []Hook
<1>1. HookInit => Hook
  <2>1. ASSUME HookInit PROVE now = 0 /\ dev = None /\ born = None /\ ours = FALSE
        /\ adds = <<>> /\ hook = "idle"
        /\ unit = "none" /\ due = 0 /\ tried = FALSE /\ excused = FALSE
    BY <2>1 DEF HookInit, Init
  <2> QED BY <2>1 DEF Hook, PlugsOK, LastIsPresent, Accounted, Units
<1>2. TypeOK /\ TypeOK' /\ Hook /\ [HookNext]_allVars => Hook'
  <2> SUFFICES ASSUME TypeOK, TypeOK', Hook, [HookNext]_allVars PROVE Hook'
    OBVIOUS
  <2>1. CASE Port
    BY <2>1, PortKeepsHook
  <2>2. CASE HookStep
    BY <2>2, HookKeepsHook
  <2>3. CASE UNCHANGED allVars
    <3>1. UNCHANGED <<now, dev, born, ours, adds, hook, unit, due, tried, excused>>
      BY <2>3 DEF allVars, vars, modem, plugs
    <3> QED BY <3>1, Zenon DEF Hook, PlugsOK, LastIsPresent, Accounted
  <2> QED BY <2>1, <2>2, <2>3 DEF HookNext
<1> QED BY <1>1, <1>2, PortAlone, TypeCorrect, PTL DEF HookSpec

\* The hook's variables keep their types, the interface is there when the
\* modem is, and a unit that runs has waited for its delay.
THEOREM HookTypes == HookSpec => []HookTypeOK
<1>1. TypeOK /\ Hook => HookTypeOK
  BY DEF Hook, HookTypeOK
<1> QED BY <1>1, PortAlone, TypeCorrect, HookInvariant, PTL

\* udevhook.sh leaves no modem out whose interface has a name it cares for, but
\* for the reasons that a message gives, for any delay that is not below the
\* uptime reset_gently asks for and whatever names the port's interfaces had.
THEOREM NoModemLeftOut == HookSpec => []Accounted
<1>1. Hook => Accounted
  BY DEF Hook
<1> QED BY <1>1, HookInvariant, PTL

(***************************************************************************)
(* The names of the modems' interfaces                                     *)
(***************************************************************************)
Digit == 0 .. 9
Octals == 0 .. 7

LEMMA DecimalIs ==
  ASSUME NEW n \in 1 .. 99
  PROVE  Decimal(n) \in Seq(Digit) /\ (n < 10 => Decimal(n) = <<n>>)
<1>1. CASE n < 10
  BY <1>1 DEF Decimal, Digit
<1>2. CASE n >= 10
  <2>1. n \div 10 \in Digit /\ n % 10 \in Digit
    BY <1>2 DEF Digit
  <2> QED
    BY <1>2, <2>1 DEF Decimal
<1> QED
  BY <1>1, <1>2

\* Six steps of the concatenation, written out.
After(s, id) ==
    LET D(j) == Decimal(id.ports[j])
    IN  [j \in 0 .. Len(id.ports) |->
            CASE j = 0 -> s
              [] j = 1 -> s \o D(1)
              [] j = 2 -> (s \o D(1)) \o D(2)
              [] j = 3 -> ((s \o D(1)) \o D(2)) \o D(3)
              [] j = 4 -> (((s \o D(1)) \o D(2)) \o D(3)) \o D(4)
              [] j = 5 -> ((((s \o D(1)) \o D(2)) \o D(3)) \o D(4)) \o D(5)
              [] j = 6 -> (((((s \o D(1)) \o D(2)) \o D(3)) \o D(4)) \o D(5)) \o D(6)]

Upto(f, s, id) ==
    f = [j \in 0 .. Len(id.ports) |->
            IF j = 0 THEN s ELSE f[j - 1] \o Decimal(id.ports[j])]

LEMMA DigitsAfterIs ==
  ASSUME NEW s, NEW id, Len(id.ports) \in 1 .. 6
  PROVE  \E f : Upto(f, s, id) /\ DigitsAfter(s, id) = f[Len(id.ports)]
<1> DEFINE g == CHOOSE f : Upto(f, s, id)
<1>1. DigitsAfter(s, id) = g[Len(id.ports)]
  BY DEF DigitsAfter, Upto
<1>2. Upto(After(s, id), s, id)
  BY SMTT(20) DEF Upto, After
<1>3. Upto(g, s, id)
  BY <1>2
<1> QED
  BY <1>1, <1>3
Value(f, s) == f = [j \in 0 .. Len(s) |-> IF j = 0 THEN 0 ELSE 8 * f[j - 1] + s[j]]

\* The j-th octal digit from the right.
Place(s, j) == IF j < Len(s) THEN s[Len(s) - j] ELSE 0
High4(s) == Place(s, 4)
High3(s) == 8 * High4(s) + Place(s, 3)
High2(s) == 8 * High3(s) + Place(s, 2)
High1(s) == 8 * High2(s) + Place(s, 1)
Sum5(s)  == 8 * High1(s) + Place(s, 0)

\* What five octal digits can write.
FiveDigits == {n \in Nat : n < 32768}

LEMMA OctalIs ==
  ASSUME NEW s \in Seq(Octals), Len(s) <= 5
  PROVE  Octal(s) = Sum5(s) /\ \A j \in 0 .. 4 : Place(s, j) \in Octals
<1> DEFINE g == CHOOSE f : Value(f, s)
           v1 == 8 * 0 + s[1]
           v2 == 8 * v1 + s[2]
           v3 == 8 * v2 + s[3]
           v4 == 8 * v3 + s[4]
           v5 == 8 * v4 + s[5]
           w == [j \in 0 .. Len(s) |->
                    CASE j = 0 -> 0 [] j = 1 -> v1 [] j = 2 -> v2
                      [] j = 3 -> v3 [] j = 4 -> v4 [] j = 5 -> v5]
<1>1. Octal(s) = g[Len(s)]
  BY DEF Octal, Value
<1>2. \A j \in 1 .. Len(s) : s[j] \in 0 .. 7
  BY DEF Octals
<1>3. Len(s) \in 0 .. 5
  <2>1. \A n \in Nat : n <= 5 => n \in 0 .. 5
    OBVIOUS
  <2>2. Len(s) \in Nat
    OBVIOUS
  <2> QED
    BY <2>1, <2>2, Zenon
<1>4. Value(w, s)
  <2> HIDE DEF v1, v2, v3, v4, v5
  <2> SUFFICES ASSUME NEW j \in 0 .. Len(s)
               PROVE  w[j] = IF j = 0 THEN 0 ELSE 8 * w[j - 1] + s[j]
    BY SMTT(20) DEF Value
  <2>1. CASE j = 0
    BY <2>1
  <2>2. CASE j = 1
    BY <2>2 DEF v1
  <2>3. CASE j = 2
    BY <2>3 DEF v2
  <2>4. CASE j = 3
    BY <2>4 DEF v3
  <2>5. CASE j = 4
    BY <2>5 DEF v4
  <2>6. CASE j = 5
    BY <2>6 DEF v5
  <2> QED
    BY <1>3, <2>1, <2>2, <2>3, <2>4, <2>5, <2>6
<1>5. Value(g, s)
  <2> HIDE DEF w
  <2> QED
    BY <1>4
<1>6. g[0] = 0 /\ \A j \in 1 .. Len(s) : g[j] = 8 * g[j - 1] + s[j]
  <2> HIDE DEF g
  <2> QED
    BY <1>3, <1>5, SMTT(20) DEF Value
<1>7. Octal(s) = Sum5(s)
  <2> HIDE DEF g
  <2>0. g[0] = 0 /\ 8 * 0 + 0 = 0
    BY <1>6
  <2>1. CASE Len(s) = 0
    <3>1. /\ Place(s, 0) = 0 /\ Place(s, 1) = 0 /\ Place(s, 2) = 0
          /\ Place(s, 3) = 0 /\ Place(s, 4) = 0
      BY <2>1 DEF Place
    <3>3. High4(s) = g[0]
      BY <2>0, <3>1 DEF High4
    <3>4. High3(s) = g[0]
      BY <2>0, <3>1, <3>3 DEF High3
    <3>5. High2(s) = g[0]
      BY <2>0, <3>1, <3>4 DEF High2
    <3>6. High1(s) = g[0]
      BY <2>0, <3>1, <3>5 DEF High1
    <3>7. Sum5(s) = g[0]
      BY <2>0, <3>1, <3>6 DEF Sum5
    <3> QED
      BY <1>1, <2>1, <3>7
  <2>2. CASE Len(s) = 1
    <3>1. /\ Place(s, 0) = s[1] /\ Place(s, 1) = 0 /\ Place(s, 2) = 0
          /\ Place(s, 3) = 0 /\ Place(s, 4) = 0
      BY <2>2 DEF Place
    <3>2. /\ g[1] = 8 * g[0] + s[1]
      BY <1>6, <2>2
    <3>3. High4(s) = g[0]
      BY <2>0, <3>1, <3>2 DEF High4
    <3>4. High3(s) = g[0]
      BY <2>0, <3>1, <3>2, <3>3 DEF High3
    <3>5. High2(s) = g[0]
      BY <2>0, <3>1, <3>2, <3>4 DEF High2
    <3>6. High1(s) = g[0]
      BY <2>0, <3>1, <3>2, <3>5 DEF High1
    <3>7. Sum5(s) = g[1]
      BY <2>0, <3>1, <3>2, <3>6 DEF Sum5
    <3> QED
      BY <1>1, <2>2, <3>7
  <2>3. CASE Len(s) = 2
    <3>1. /\ Place(s, 0) = s[2] /\ Place(s, 1) = s[1] /\ Place(s, 2) = 0
          /\ Place(s, 3) = 0 /\ Place(s, 4) = 0
      BY <2>3 DEF Place
    <3>2. /\ g[1] = 8 * g[0] + s[1] /\ g[2] = 8 * g[1] + s[2]
      BY <1>6, <2>3
    <3>3. High4(s) = g[0]
      BY <2>0, <3>1, <3>2 DEF High4
    <3>4. High3(s) = g[0]
      BY <2>0, <3>1, <3>2, <3>3 DEF High3
    <3>5. High2(s) = g[0]
      BY <2>0, <3>1, <3>2, <3>4 DEF High2
    <3>6. High1(s) = g[1]
      BY <2>0, <3>1, <3>2, <3>5 DEF High1
    <3>7. Sum5(s) = g[2]
      BY <2>0, <3>1, <3>2, <3>6 DEF Sum5
    <3> QED
      BY <1>1, <2>3, <3>7
  <2>4. CASE Len(s) = 3
    <3>1. /\ Place(s, 0) = s[3] /\ Place(s, 1) = s[2] /\ Place(s, 2) = s[1]
          /\ Place(s, 3) = 0 /\ Place(s, 4) = 0
      BY <2>4 DEF Place
    <3>2. /\ g[1] = 8 * g[0] + s[1] /\ g[2] = 8 * g[1] + s[2] /\ g[3] = 8 * g[2] + s[3]
      BY <1>6, <2>4
    <3>3. High4(s) = g[0]
      BY <2>0, <3>1, <3>2 DEF High4
    <3>4. High3(s) = g[0]
      BY <2>0, <3>1, <3>2, <3>3 DEF High3
    <3>5. High2(s) = g[1]
      BY <2>0, <3>1, <3>2, <3>4 DEF High2
    <3>6. High1(s) = g[2]
      BY <2>0, <3>1, <3>2, <3>5 DEF High1
    <3>7. Sum5(s) = g[3]
      BY <2>0, <3>1, <3>2, <3>6 DEF Sum5
    <3> QED
      BY <1>1, <2>4, <3>7
  <2>5. CASE Len(s) = 4
    <3>1. /\ Place(s, 0) = s[4] /\ Place(s, 1) = s[3] /\ Place(s, 2) = s[2]
          /\ Place(s, 3) = s[1] /\ Place(s, 4) = 0
      BY <2>5 DEF Place
    <3>2. /\ g[1] = 8 * g[0] + s[1] /\ g[2] = 8 * g[1] + s[2] /\ g[3] = 8 * g[2] + s[3]
          /\ g[4] = 8 * g[3] + s[4]
      BY <1>6, <2>5
    <3>3. High4(s) = g[0]
      BY <2>0, <3>1, <3>2 DEF High4
    <3>4. High3(s) = g[1]
      BY <2>0, <3>1, <3>2, <3>3 DEF High3
    <3>5. High2(s) = g[2]
      BY <2>0, <3>1, <3>2, <3>4 DEF High2
    <3>6. High1(s) = g[3]
      BY <2>0, <3>1, <3>2, <3>5 DEF High1
    <3>7. Sum5(s) = g[4]
      BY <2>0, <3>1, <3>2, <3>6 DEF Sum5
    <3> QED
      BY <1>1, <2>5, <3>7
  <2>6. CASE Len(s) = 5
    <3>1. /\ Place(s, 0) = s[5] /\ Place(s, 1) = s[4] /\ Place(s, 2) = s[3]
          /\ Place(s, 3) = s[2] /\ Place(s, 4) = s[1]
      BY <2>6 DEF Place
    <3>2. /\ g[1] = 8 * g[0] + s[1] /\ g[2] = 8 * g[1] + s[2] /\ g[3] = 8 * g[2] + s[3]
          /\ g[4] = 8 * g[3] + s[4] /\ g[5] = 8 * g[4] + s[5]
      BY <1>6, <2>6
    <3>3. High4(s) = g[1]
      BY <2>0, <3>1, <3>2, <1>2, <2>6 DEF High4
    <3>4. High3(s) = g[2]
      BY <2>0, <3>1, <3>2, <3>3 DEF High3
    <3>5. High2(s) = g[3]
      BY <2>0, <3>1, <3>2, <3>4 DEF High2
    <3>6. High1(s) = g[4]
      BY <2>0, <3>1, <3>2, <3>5 DEF High1
    <3>7. Sum5(s) = g[5]
      BY <2>0, <3>1, <3>2, <3>6 DEF Sum5
    <3> QED
      BY <1>1, <2>6, <3>7
  <2> QED
    BY <1>3, <2>1, <2>2, <2>3, <2>4, <2>5, <2>6
<1>8. \A j \in 0 .. 4 : Place(s, j) \in Octals
  BY <1>2, <1>3 DEF Place, Octals
<1> QED
  BY <1>7, <1>8

\* Five octal digits tell the number.
LEMMA SumTells ==
  ASSUME NEW s, NEW t,
         \A j \in 0 .. 4 : Place(s, j) \in Octals /\ Place(t, j) \in Octals
  PROVE  /\ Sum5(s) \in FiveDigits
         /\ Sum5(s) = Sum5(t) => \A j \in 0 .. 4 : Place(s, j) = Place(t, j)
<1>1. \A j \in 0 .. 4 : Place(s, j) \in 0 .. 7 /\ Place(t, j) \in 0 .. 7
  BY DEF Octals
<1>a4. PICK a4 \in 0 .. 7 : a4 = Place(s, 4)
  BY <1>1
<1>a3. PICK a3 \in 0 .. 7 : a3 = Place(s, 3)
  BY <1>1
<1>a2. PICK a2 \in 0 .. 7 : a2 = Place(s, 2)
  BY <1>1
<1>a1. PICK a1 \in 0 .. 7 : a1 = Place(s, 1)
  BY <1>1
<1>a0. PICK a0 \in 0 .. 7 : a0 = Place(s, 0)
  BY <1>1
<1>b4. PICK b4 \in 0 .. 7 : b4 = Place(t, 4)
  BY <1>1
<1>b3. PICK b3 \in 0 .. 7 : b3 = Place(t, 3)
  BY <1>1
<1>b2. PICK b2 \in 0 .. 7 : b2 = Place(t, 2)
  BY <1>1
<1>b1. PICK b1 \in 0 .. 7 : b1 = Place(t, 1)
  BY <1>1
<1>b0. PICK b0 \in 0 .. 7 : b0 = Place(t, 0)
  BY <1>1
<1> DEFINE m3 == 8 * a4 + a3
           m2 == 8 * m3 + a2
           m1 == 8 * m2 + a1
           m0 == 8 * m1 + a0
           n3 == 8 * b4 + b3
           n2 == 8 * n3 + b2
           n1 == 8 * n2 + b1
           n0 == 8 * n1 + b0
<1>2. Sum5(s) = m0
  BY <1>a4, <1>a3, <1>a2, <1>a1, <1>a0 DEF Sum5, High1, High2, High3, High4
<1>3. Sum5(t) = n0
  BY <1>b4, <1>b3, <1>b2, <1>b1, <1>b0 DEF Sum5, High1, High2, High3, High4
<1>4. m3 \in 0 .. 63 /\ n3 \in 0 .. 63
  OBVIOUS
<1>5. m2 \in 0 .. 511 /\ n2 \in 0 .. 511
  <2> HIDE DEF m3, n3
  <2> QED
    BY <1>4
<1>6. m1 \in 0 .. 4095 /\ n1 \in 0 .. 4095
  <2> HIDE DEF m2, n2
  <2> QED
    BY <1>5
<1>7. m0 \in FiveDigits
  <2> HIDE DEF m1, n1
  <2> QED
    BY <1>6 DEF FiveDigits
<1>8. ASSUME m0 = n0
      PROVE  a4 = b4 /\ a3 = b3 /\ a2 = b2 /\ a1 = b1 /\ a0 = b0
  <2>1. m1 = n1 /\ a0 = b0
    <3> HIDE DEF m1, n1
    <3> QED
      BY <1>6, <1>8
  <2>2. m2 = n2 /\ a1 = b1
    <3> HIDE DEF m2, n2
    <3> QED
      BY <1>5, <2>1
  <2>3. m3 = n3 /\ a2 = b2
    <3> HIDE DEF m3, n3
    <3> QED
      BY <1>4, <2>2
  <2>4. a4 = b4 /\ a3 = b3
    BY <2>3
  <2> QED
    BY <2>1, <2>2, <2>3, <2>4
<1> HIDE DEF m0, n0
<1>9. ASSUME Sum5(s) = Sum5(t), NEW j \in 0 .. 4 PROVE Place(s, j) = Place(t, j)
  <2>1. a4 = b4 /\ a3 = b3 /\ a2 = b2 /\ a1 = b1 /\ a0 = b0
    BY <1>2, <1>3, <1>8, <1>9
  <2>2. /\ Place(s, 0) = Place(t, 0) /\ Place(s, 1) = Place(t, 1) /\ Place(s, 2) = Place(t, 2)
        /\ Place(s, 3) = Place(t, 3) /\ Place(s, 4) = Place(t, 4)
    BY <2>1, <1>a4, <1>a3, <1>a2, <1>a1, <1>a0, <1>b4, <1>b3, <1>b2, <1>b1, <1>b0, Zenon
  <2>3. j = 0 \/ j = 1 \/ j = 2 \/ j = 3 \/ j = 4
    OBVIOUS
  <2> QED
    BY <2>2, <2>3, Zenon
<1>10. Sum5(s) \in FiveDigits
  BY <1>2, <1>7, Zenon
<1> QED
  BY <1>9, <1>10, Zenon

LEMMA SumFits ==
  ASSUME NEW s, \A j \in 0 .. 4 : Place(s, j) \in Octals
  PROVE  Sum5(s) \in FiveDigits
<1>1. \A j \in 0 .. 4 : Place(s, j) \in Octals /\ Place(s, j) \in Octals
  OBVIOUS
<1>2. Sum5(s) \in FiveDigits /\ (Sum5(s) = Sum5(s) => \A j \in 0 .. 4 : Place(s, j) = Place(s, j))
  BY <1>1, SumTells
<1> QED
  BY <1>2

(***************************************************************************)
LEMMA OctalDigitsIs ==
  ASSUME NEW s \in Seq(Digit)
  PROVE  /\ OctalDigits(s) \in Seq(Octals) /\ Len(OctalDigits(s)) = Len(s)
         /\ \A j \in 1 .. Len(s) :
               OctalDigits(s)[j] = IF s[j] \in {8, 9} THEN 2 ELSE s[j]
<1>1. \A j \in 1 .. Len(s) : (IF s[j] \in {8, 9} THEN 2 ELSE s[j]) \in Octals
  <2> SUFFICES ASSUME NEW j \in 1 .. Len(s) PROVE (IF s[j] \in {8, 9} THEN 2 ELSE s[j]) \in Octals
    OBVIOUS
  <2>1. s[j] \in 0 .. 9
    BY DEF Digit
  <2> QED
    BY <2>1 DEF Octals
<1>2. OctalDigits(s) = [j \in 1 .. Len(s) |-> IF s[j] \in {8, 9} THEN 2 ELSE s[j]]
  BY DEF OctalDigits
<1> QED
  BY <1>1, <1>2

LEMMA Last5Is ==
  ASSUME NEW s \in Seq(Octals)
  PROVE  /\ Last5(s) \in Seq(Octals) /\ Len(Last5(s)) <= 5
         /\ Len(Last5(s)) = IF Len(s) <= 5 THEN Len(s) ELSE 5
         /\ \A j \in 0 .. 4 : j < Len(s) => Place(Last5(s), j) = s[Len(s) - j]
         /\ \A j \in 0 .. 4 : j >= Len(s) => Place(Last5(s), j) = 0
<1>1. CASE Len(s) <= 5
  BY <1>1 DEF Last5, Place
<1>2. CASE Len(s) > 5
  <2>1. Last5(s) = SubSeq(s, Len(s) - 4, Len(s))
    BY <1>2 DEF Last5
  <2>2. /\ Last5(s) \in Seq(Octals) /\ Len(Last5(s)) = 5
        /\ \A j \in 1 .. 5 : Last5(s)[j] = s[Len(s) - 5 + j]
    BY <1>2, <2>1
  <2>3. \A j \in 0 .. 4 : Place(Last5(s), j) = s[Len(s) - j]
    BY <1>2, <2>2 DEF Place
  <2> QED
    BY <1>2, <2>2, <2>3
<1> QED
  BY <1>1, <1>2

(***************************************************************************)
(* The digits of an ID                                                     *)
(***************************************************************************)
IsId(id) ==
    /\ id \in [bus : 1 .. 99, ports : Seq(1 .. 99)]
    /\ Len(id.ports) \in 1 .. 6

LEMMA IdParts ==
  ASSUME NEW id, IsId(id)
  PROVE  /\ id.bus \in 1 .. 99 /\ id.ports \in Seq(1 .. 99) /\ Len(id.ports) \in 1 .. 6
         /\ \A j \in 1 .. Len(id.ports) : id.ports[j] \in 1 .. 99
<1>1. id.bus \in 1 .. 99 /\ id.ports \in Seq(1 .. 99)
  BY DEF IsId
<1>2. Len(id.ports) \in 1 .. 6
  BY Zenon DEF IsId
<1>4. \A j \in 1 .. Len(id.ports) : id.ports[j] \in 1 .. 99
  BY <1>1, ElementOfSeq
<1> QED
  BY <1>1, <1>2, <1>4, Zenon

LEMMA DigitsGrow ==
  ASSUME NEW id, IsId(id)
  PROVE  \E f : /\ Digits(id) = f[Len(id.ports)]
                /\ f[0] = Decimal(id.bus)
                /\ \A j \in 1 .. Len(id.ports) : f[j] = f[j - 1] \o Decimal(id.ports[j])
                /\ \A j \in 0 .. Len(id.ports) : f[j] \in Seq(Digit)
<1> DEFINE n == Len(id.ports)
           p == id.ports
<1>1. id.bus \in 1 .. 99 /\ n \in 1 .. 6 /\ \A j \in 1 .. n : p[j] \in 1 .. 99
  BY IdParts
<1>2. PICK f : Upto(f, Decimal(id.bus), id) /\ Digits(id) = f[n]
  BY <1>1, DigitsAfterIs DEF Digits
<1>a. f = [j \in 0 .. n |-> IF j = 0 THEN Decimal(id.bus) ELSE f[j - 1] \o Decimal(p[j])]
  BY <1>2 DEF Upto
<1> HIDE DEF n, p
<1>b. 0 \in 0 .. n /\ \A j \in 1 .. n : j \in 0 .. n /\ j # 0
  BY <1>1
<1>3. /\ f[0] = Decimal(id.bus)
      /\ \A j \in 1 .. n : f[j] = f[j - 1] \o Decimal(p[j])
  BY <1>a, <1>b
<1>4. \A j \in 1 .. n : Decimal(p[j]) \in Seq(Digit)
  BY <1>1, DecimalIs
<1>5. ASSUME NEW j \in 1 .. n, f[j - 1] \in Seq(Digit) PROVE f[j] \in Seq(Digit)
  <2>1. f[j] = f[j - 1] \o Decimal(p[j]) /\ Decimal(p[j]) \in Seq(Digit)
    BY <1>3, <1>4, <1>5
  <2>2. \A q, r \in Seq(Digit) : q \o r \in Seq(Digit)
    OBVIOUS
  <2> QED
    BY <1>5, <2>1, <2>2
<1>6. f[0] \in Seq(Digit)
  BY <1>1, <1>3, DecimalIs
<1>7. \A j \in 0 .. n : f[j] \in Seq(Digit)
  <2>0. \A j \in 1 .. n : f[j - 1] \in Seq(Digit) => f[j] \in Seq(Digit)
    BY <1>5
  <2>1. n >= 1 => f[1] \in Seq(Digit)
    BY <1>1, <2>0, <1>6
  <2>2. n >= 2 => f[2] \in Seq(Digit)
    BY <1>1, <2>0, <2>1
  <2>3. n >= 3 => f[3] \in Seq(Digit)
    BY <1>1, <2>0, <2>2
  <2>4. n >= 4 => f[4] \in Seq(Digit)
    BY <1>1, <2>0, <2>3
  <2>5. n >= 5 => f[5] \in Seq(Digit)
    BY <1>1, <2>0, <2>4
  <2>6. n >= 6 => f[6] \in Seq(Digit)
    BY <1>1, <2>0, <2>5
  <2> SUFFICES ASSUME NEW j \in 0 .. n PROVE f[j] \in Seq(Digit)
    OBVIOUS
  <2>7. j <= n /\ (j = 0 \/ j = 1 \/ j = 2 \/ j = 3 \/ j = 4 \/ j = 5 \/ j = 6)
    BY <1>1
  <2> QED
    BY <1>1, <1>6, <2>1, <2>2, <2>3, <2>4, <2>5, <2>6, <2>7
<1> QED
  BY <1>2, <1>3, <1>7 DEF n, p

\* What the name is: the value of the last five digits.
Kept(id) == Last5(OctalDigits(Digits(id)))

LEMMA ComputedIs ==
  ASSUME NEW id, IsId(id)
  PROVE  /\ Computed(id) = Sum5(Kept(id))
         /\ \A j \in 0 .. 4 : Place(Kept(id), j) \in Octals
         /\ Digits(id) \in Seq(Digit)
         /\ \A j \in 0 .. 4 : LET d == Digits(id) IN
               Place(Kept(id), j) =
                  IF j >= Len(d) THEN 0
                  ELSE IF d[Len(d) - j] \in {8, 9} THEN 2 ELSE d[Len(d) - j]
<1>1. Digits(id) \in Seq(Digit)
  <2> DEFINE n == Len(id.ports)
  <2>1. PICK f : Digits(id) = f[n] /\ \A j \in 0 .. n : f[j] \in Seq(Digit)
    BY DigitsGrow
  <2>2. n \in 1 .. 6
    BY IdParts
  <2> HIDE DEF n
  <2>3. n \in 0 .. n
    BY <2>2
  <2> QED
    BY <2>1, <2>3
<1> DEFINE d == Digits(id)
           o == OctalDigits(d)
<1>2. /\ o \in Seq(Octals) /\ Len(o) = Len(d)
      /\ \A j \in 1 .. Len(d) : o[j] = IF d[j] \in {8, 9} THEN 2 ELSE d[j]
  BY <1>1, OctalDigitsIs
<1> DEFINE m == Len(d)
<1>m. m \in Nat
  BY <1>1
<1> HIDE DEF o, d
<1>3. /\ Last5(o) \in Seq(Octals) /\ Len(Last5(o)) <= 5
      /\ \A j \in 0 .. 4 : j < Len(o) => Place(Last5(o), j) = o[Len(o) - j]
      /\ \A j \in 0 .. 4 : j >= Len(o) => Place(Last5(o), j) = 0
  BY <1>2, Last5Is
<1>4. Octal(Last5(o)) = Sum5(Last5(o)) /\ \A j \in 0 .. 4 : Place(Last5(o), j) \in Octals
  BY <1>3, OctalIs
<1>5. \A j \in 0 .. 4 : Place(Last5(o), j) =
                  IF j >= Len(d) THEN 0
                  ELSE IF d[Len(d) - j] \in {8, 9} THEN 2 ELSE d[Len(d) - j]
  <2> SUFFICES ASSUME NEW j \in 0 .. 4
               PROVE  Place(Last5(o), j) =
                  IF j >= m THEN 0 ELSE IF d[m - j] \in {8, 9} THEN 2 ELSE d[m - j]
    OBVIOUS
  <2>1. CASE j >= m
    BY <1>2, <1>3, <2>1
  <2>2. CASE j < m
    <3>1. m - j \in 1 .. m
      BY <1>m, <2>2
    <3>2. Place(Last5(o), j) = o[m - j]
      BY <1>2, <1>3, <2>2
    <3>3. o[m - j] = IF d[m - j] \in {8, 9} THEN 2 ELSE d[m - j]
      BY <1>2, <3>1
    <3>4. ~(j >= m)
      BY <1>m, <2>2
    <3> QED
      BY <3>2, <3>3, <3>4
  <2>3. j >= m \/ j < m
    BY <1>m
  <2> QED
    BY <2>1, <2>2, <2>3
<1> QED
  BY <1>1, <1>4, <1>5 DEF Kept, Computed, o, d

(***************************************************************************)
(* Siblings                                                                *)
(***************************************************************************)
LEMMA ButLast ==
  ASSUME NEW S, NEW r \in Seq(S), Len(r) >= 1
  PROVE  /\ Len(SubSeq(r, 1, Len(r) - 1)) = Len(r) - 1
         /\ \A j \in 1 .. Len(r) - 1 : SubSeq(r, 1, Len(r) - 1)[j] = r[j]
<1>1. PICK n \in Nat : n = Len(r) - 1
  OBVIOUS
<1>2. 1 \in Int /\ n \in Int /\ Len(r) = n + 1
  BY <1>1
<1>3. \A j \in 1 .. n : r[j] \in S
  <2> SUFFICES ASSUME NEW j \in 1 .. n PROVE r[j] \in S
    OBVIOUS
  <2>1. j \in 1 .. Len(r)
    BY <1>2
  <2> QED
    BY <2>1, ElementOfSeq
<1>4. /\ Len(SubSeq(r, 1, n)) = IF 1 <= n THEN n - 1 + 1 ELSE 0
      /\ \A i \in 1 .. n - 1 + 1 : SubSeq(r, 1, n)[i] = r[1 + i - 1]
  BY <1>2, <1>3, SubSeqProperties
<1>5. Len(SubSeq(r, 1, n)) = n
  BY <1>4
<1>6. ASSUME NEW j \in 1 .. n PROVE SubSeq(r, 1, n)[j] = r[j]
  <2>1. j \in 1 .. n - 1 + 1 /\ 1 + j - 1 = j
    OBVIOUS
  <2> QED
    BY <1>4, <2>1
<1> QED
  BY <1>1, <1>5, <1>6

LEMMA Rejoined ==
  ASSUME NEW S, NEW r \in Seq(S), NEW s \in Seq(S), Len(r) >= 1, Len(s) >= 1,
         SubSeq(r, 1, Len(r) - 1) = SubSeq(s, 1, Len(s) - 1), r[Len(r)] = s[Len(s)]
  PROVE  r = s
<1>1. Len(r) - 1 = Len(s) - 1
  <2>1. Len(SubSeq(r, 1, Len(r) - 1)) = Len(r) - 1
    BY ButLast, Zenon
  <2>2. Len(SubSeq(s, 1, Len(s) - 1)) = Len(s) - 1
    BY ButLast, Zenon
  <2> QED
    BY <2>1, <2>2, Zenon
<1>2. \A j \in 1 .. Len(r) - 1 : r[j] = s[j]
  <2> SUFFICES ASSUME NEW j \in 1 .. Len(r) - 1 PROVE r[j] = s[j]
    OBVIOUS
  <2>1. SubSeq(r, 1, Len(r) - 1)[j] = r[j]
    BY ButLast, Zenon
  <2>2. SubSeq(s, 1, Len(s) - 1)[j] = s[j]
    BY <1>1, ButLast, Zenon
  <2> QED
    BY <2>1, <2>2, Zenon
<1>3. Len(r) \in Nat /\ Len(s) \in Nat
  BY LenProperties
<1>4. Len(r) = Len(s)
  BY <1>1, <1>3
<1>5. ASSUME NEW j \in 1 .. Len(r) PROVE r[j] = s[j]
  <2>1. j \in 1 .. Len(r) - 1 \/ j = Len(r)
    BY <1>3
  <2> QED
    BY <1>2, <1>4, <2>1, Zenon
<1> QED
  BY <1>4, <1>5, SeqEqual

LEMMA SiblingDigits ==
  ASSUME NEW x, NEW y, IsId(x), IsId(y), Parent(x) = Parent(y),
         Plain(LastPort(x)), Plain(LastPort(y))
  PROVE  \E P \in Seq(Digit) : /\ Digits(x) = P \o <<LastPort(x)>>
                               /\ Digits(y) = P \o <<LastPort(y)>>
<1> DEFINE n == Len(x.ports)
           p == x.ports
           q == y.ports
<1>1. x.bus = y.bus /\ SubSeq(p, 1, n - 1) = SubSeq(q, 1, Len(q) - 1)
  BY DEF Parent
<1>2. p \in Seq(1 .. 99) /\ q \in Seq(1 .. 99) /\ n \in 1 .. 6 /\ Len(q) \in 1 .. 6
  BY IdParts
<1>3. LastPort(x) = p[n] /\ LastPort(y) = q[Len(q)]
  BY DEF LastPort
<1>4. PICK f : /\ Digits(x) = f[n]
               /\ f[0] = Decimal(x.bus)
               /\ \A j \in 1 .. n : f[j] = f[j - 1] \o Decimal(p[j])
               /\ \A j \in 0 .. n : f[j] \in Seq(Digit)
  BY DigitsGrow
<1>5. PICK g : /\ Digits(y) = g[Len(q)]
               /\ g[0] = Decimal(y.bus)
               /\ \A j \in 1 .. Len(q) : g[j] = g[j - 1] \o Decimal(q[j])
               /\ \A j \in 0 .. Len(q) : g[j] \in Seq(Digit)
  BY DigitsGrow
<1> HIDE DEF p, q, n
<1>6. Len(q) = n /\ \A j \in 1 .. n - 1 : p[j] = q[j]
  <2>1. n = Len(p)
    BY DEF n, p
  <2>a. \A k \in 1 .. 6 : k >= 1
    OBVIOUS
  <2>2. Len(p) >= 1 /\ Len(q) >= 1
    BY <1>2, <2>1, <2>a, Zenon
  <2>3. Len(SubSeq(p, 1, n - 1)) = n - 1 /\ \A j \in 1 .. n - 1 : SubSeq(p, 1, n - 1)[j] = p[j]
    BY <1>2, <2>1, <2>2, ButLast
  <2>4. /\ Len(SubSeq(q, 1, Len(q) - 1)) = Len(q) - 1
        /\ \A j \in 1 .. Len(q) - 1 : SubSeq(q, 1, Len(q) - 1)[j] = q[j]
    BY <1>2, <2>2, ButLast
  <2>5. n - 1 = Len(q) - 1
    BY <1>1, <2>3, <2>4
  <2>6. n = Len(q)
    BY <1>2, <2>5
  <2> QED
    BY <1>1, <2>3, <2>4, <2>6
<1>7. \A j \in 1 .. n - 1 : f[j - 1] = g[j - 1] => f[j] = g[j]
  <2> SUFFICES ASSUME NEW j \in 1 .. n - 1, f[j - 1] = g[j - 1] PROVE f[j] = g[j]
    OBVIOUS
  <2>1. j \in 1 .. n
    BY <1>2
  <2> QED
    BY <1>4, <1>5, <1>6, <2>1
<1>8. f[n - 1] = g[n - 1]
  <2>0. f[0] = g[0]
    BY <1>1, <1>4, <1>5
  <2>1. n >= 2 => f[1] = g[1]
    BY <1>2, <1>7, <2>0
  <2>2. n >= 3 => f[2] = g[2]
    BY <1>2, <1>7, <2>1
  <2>3. n >= 4 => f[3] = g[3]
    BY <1>2, <1>7, <2>2
  <2>4. n >= 5 => f[4] = g[4]
    BY <1>2, <1>7, <2>3
  <2>5. n >= 6 => f[5] = g[5]
    BY <1>2, <1>7, <2>4
  <2>6. n = 1 \/ n = 2 \/ n = 3 \/ n = 4 \/ n = 5 \/ n = 6
    BY <1>2
  <2> QED
    BY <2>0, <2>1, <2>2, <2>3, <2>4, <2>5, <2>6
<1>9. n \in 1 .. n /\ n - 1 \in 0 .. n
  BY <1>2
<1>10. Decimal(p[n]) = <<p[n]>> /\ Decimal(q[n]) = <<q[n]>>
  BY <1>3, <1>6 DEF Plain, Decimal
<1>11. f[n - 1] \in Seq(Digit)
  BY <1>4, <1>9
<1>12. Digits(x) = f[n - 1] \o <<p[n]>> /\ Digits(y) = f[n - 1] \o <<q[n]>>
  BY <1>4, <1>5, <1>6, <1>8, <1>9, <1>10
<1> QED
  BY <1>3, <1>6, <1>11, <1>12

\* The parent and the port tell the ID.
LEMMA ParentPort ==
  ASSUME NEW x, NEW y, IsId(x), IsId(y), Parent(x) = Parent(y),
         LastPort(x) = LastPort(y)
  PROVE  x = y
<1>1. x.bus = y.bus /\ SubSeq(x.ports, 1, Len(x.ports) - 1) = SubSeq(y.ports, 1, Len(y.ports) - 1)
  BY DEF Parent
<1>2. /\ x.ports \in Seq(1 .. 99) /\ y.ports \in Seq(1 .. 99)
      /\ Len(x.ports) \in 1 .. 6 /\ Len(y.ports) \in 1 .. 6
  BY IdParts
<1>3. x.ports[Len(x.ports)] = y.ports[Len(y.ports)]
  BY DEF LastPort
<1>4. \A k \in 1 .. 6 : k >= 1
  OBVIOUS
<1>5. x.ports = y.ports
  BY <1>1, <1>2, <1>3, <1>4, Rejoined, Zenon
<1> QED
  BY <1>1, <1>5 DEF IsId

LEMMA SiblingNames ==
  ASSUME NEW x, NEW y, IsId(x), IsId(y), Parent(x) = Parent(y),
         Plain(LastPort(x)), Plain(LastPort(y)),
         Computed(x) = Computed(y)
  PROVE  x = y
<1>1. PICK P \in Seq(Digit) : /\ Digits(x) = P \o <<LastPort(x)>>
                              /\ Digits(y) = P \o <<LastPort(y)>>
  BY SiblingDigits
<1>2. LastPort(x) \in 1 .. 7 /\ LastPort(y) \in 1 .. 7
  BY DEF Plain
<1>3. ASSUME NEW a \in 1 .. 7
      PROVE  Len(P \o <<a>>) = Len(P) + 1 /\ (P \o <<a>>)[Len(P) + 1] = a
  OBVIOUS
<1>4. Len(P) \in Nat
  OBVIOUS
<1>5. Place(Kept(x), 0) = LastPort(x)
  <2>1. Digits(x)[Len(Digits(x)) - 0] = LastPort(x) /\ ~(0 >= Len(Digits(x)))
    BY <1>1, <1>2, <1>3, <1>4
  <2>2. \A j \in 0 .. 4 : Place(Kept(x), j) =
           IF j >= Len(Digits(x)) THEN 0
           ELSE IF Digits(x)[Len(Digits(x)) - j] \in {8, 9} THEN 2
           ELSE Digits(x)[Len(Digits(x)) - j]
    BY ComputedIs
  <2>3. 0 \in 0 .. 4 /\ LastPort(x) \notin {8, 9}
    BY <1>2
  <2> QED
    BY <2>1, <2>2, <2>3
<1>6. Place(Kept(y), 0) = LastPort(y)
  <2>1. Digits(y)[Len(Digits(y)) - 0] = LastPort(y) /\ ~(0 >= Len(Digits(y)))
    BY <1>1, <1>2, <1>3, <1>4
  <2>2. \A j \in 0 .. 4 : Place(Kept(y), j) =
           IF j >= Len(Digits(y)) THEN 0
           ELSE IF Digits(y)[Len(Digits(y)) - j] \in {8, 9} THEN 2
           ELSE Digits(y)[Len(Digits(y)) - j]
    BY ComputedIs
  <2>3. 0 \in 0 .. 4 /\ LastPort(y) \notin {8, 9}
    BY <1>2
  <2> QED
    BY <2>1, <2>2, <2>3
<1>7. LastPort(x) = LastPort(y)
  <2>1. Sum5(Kept(x)) = Sum5(Kept(y))
    BY ComputedIs
  <2>2. \A j \in 0 .. 4 : Place(Kept(x), j) \in Octals /\ Place(Kept(y), j) \in Octals
    BY ComputedIs
  <2>3. Place(Kept(x), 0) = Place(Kept(y), 0)
    BY <2>1, <2>2, SumTells
  <2> QED
    BY <1>5, <1>6, <2>3
<1> QED
  BY <1>7, ParentPort

(***************************************************************************)
(* Shallow trees                                                           *)
(***************************************************************************)
\* In a shallow tree every number is one digit, and none is cut off.
LEMMA ShallowDigits ==
  ASSUME NEW id, IsId(id), Shallow(id)
  PROVE  LET d == Digits(id) IN
         /\ Len(d) = Len(id.ports) + 1 /\ d[1] = id.bus
         /\ \A k \in 1 .. Len(id.ports) : d[k + 1] = id.ports[k]
<1> DEFINE n == Len(id.ports)
           p == id.ports
           b == id.bus
<1>1. n \in 1 .. 6 /\ \A j \in 1 .. n : p[j] \in 1 .. 99
  BY IdParts
<1>2. n <= 4 /\ b \in 1 .. 7 /\ \A j \in 1 .. n : p[j] \in 1 .. 7
  <2>1. p \in Seq(1 .. 99) /\ DOMAIN p = 1 .. n
    BY IdParts
  <2> QED
    BY <2>1 DEF Shallow, Plain
<1>3. PICK f : /\ Digits(id) = f[n]
               /\ f[0] = Decimal(b)
               /\ \A j \in 1 .. n : f[j] = f[j - 1] \o Decimal(p[j])
               /\ \A j \in 0 .. n : f[j] \in Seq(Digit)
  BY DigitsGrow
<1> HIDE DEF n, p, b
<1>4. Decimal(b) = <<b>> /\ \A j \in 1 .. n : Decimal(p[j]) = <<p[j]>>
  BY <1>2 DEF Decimal
<1> DEFINE Grown(j) == /\ Len(f[j]) = j + 1 /\ f[j][1] = b
                       /\ \A k \in 1 .. j : f[j][k + 1] = p[k]
<1>5. Grown(0)
  BY <1>3, <1>4
<1>6. ASSUME NEW j \in 1 .. n, Grown(j - 1) PROVE Grown(j)
  <2>1. PICK s \in Seq(Digit) : s = f[j - 1]
    <3>1. j - 1 \in 0 .. n
      BY <1>1
    <3> QED
      BY <1>3, <3>1
  <2>2. PICK a \in Digit : a = p[j]
    BY <1>2 DEF Digit
  <2>3. f[j] = s \o <<a>>
    BY <1>3, <1>4, <2>1, <2>2
  <2>4. Len(s) = j /\ s[1] = b /\ \A k \in 1 .. j - 1 : s[k + 1] = p[k]
    BY <1>1, <1>6, <2>1
  <2>5. <<a>> \in Seq(Digit) /\ Len(<<a>>) = 1 /\ <<a>>[1] = a
    OBVIOUS
  <2>6. Len(f[j]) = j + 1 /\ \A i \in 1 .. j + 1 : f[j][i] = IF i <= j THEN s[i] ELSE <<a>>[i - j]
    BY <2>3, <2>4, <2>5, ConcatProperties
  <2>7. f[j][1] = b
    BY <1>1, <2>4, <2>6
  <2>8. ASSUME NEW k \in 1 .. j PROVE f[j][k + 1] = p[k]
    <3>1. k + 1 \in 1 .. j + 1
      BY <1>1
    <3>2. CASE k < j
      <4>1. k \in 1 .. j - 1 /\ k + 1 <= j
        BY <1>1, <3>2
      <4>2. f[j][k + 1] = s[k + 1]
        BY <2>6, <3>1, <4>1
      <4> QED
        BY <2>4, <4>1, <4>2
    <3>3. CASE k = j
      <4>1. ~(k + 1 <= j) /\ k + 1 - j = 1
        BY <1>1, <3>3
      <4> QED
        BY <2>2, <2>5, <2>6, <3>1, <3>3, <4>1
    <3> QED
      BY <1>1, <3>2, <3>3
  <2> QED
    BY <2>6, <2>7, <2>8
<1> HIDE DEF Grown
<1>7. Grown(n)
  <2>1. n >= 1 => Grown(1)
    BY <1>1, <1>5, <1>6
  <2>2. n >= 2 => Grown(2)
    BY <1>1, <2>1, <1>6
  <2>3. n >= 3 => Grown(3)
    BY <1>1, <2>2, <1>6
  <2>4. n >= 4 => Grown(4)
    BY <1>1, <2>3, <1>6
  <2>5. n = 1 \/ n = 2 \/ n = 3 \/ n = 4
    BY <1>1, <1>2
  <2> QED
    BY <2>1, <2>2, <2>3, <2>4, <2>5
<1> QED
  BY <1>3, <1>7 DEF Grown, n, p, b

\* So the digits can be read off the name: its octal digits are they.
LEMMA ShallowPlaces ==
  ASSUME NEW id, IsId(id), Shallow(id)
  PROVE  LET d == Digits(id) IN
         /\ d \in Seq(Digit) /\ Len(d) \in 2 .. 5
         /\ \A i \in 1 .. Len(d) : d[i] \in 1 .. 7 /\ Place(Kept(id), Len(d) - i) = d[i]
         /\ \A j \in 0 .. 4 : j >= Len(d) => Place(Kept(id), j) = 0
<1> DEFINE n == Len(id.ports)
           p == id.ports
           d == Digits(id)
<1>1. n \in 1 .. 6 /\ p \in Seq(1 .. 99)
  BY IdParts
<1>2. n <= 4 /\ id.bus \in 1 .. 7 /\ \A j \in 1 .. n : p[j] \in 1 .. 7
  <2>1. DOMAIN p = 1 .. n
    BY <1>1
  <2> QED
    BY <2>1 DEF Shallow, Plain
<1>3. Len(d) = n + 1 /\ d[1] = id.bus /\ \A k \in 1 .. n : d[k + 1] = p[k]
  BY ShallowDigits
<1>4. /\ d \in Seq(Digit)
      /\ \A j \in 0 .. 4 : Place(Kept(id), j) =
            IF j >= Len(d) THEN 0
            ELSE IF d[Len(d) - j] \in {8, 9} THEN 2 ELSE d[Len(d) - j]
  BY ComputedIs
<1> HIDE DEF n, p, d
<1>5. Len(d) \in 2 .. 5
  BY <1>1, <1>2, <1>3
<1>6. ASSUME NEW i \in 1 .. Len(d) PROVE d[i] \in 1 .. 7
  <2>1. CASE i = 1
    BY <1>2, <1>3, <2>1
  <2>2. CASE i # 1
    <3>1. PICK k \in 1 .. n : i = k + 1
      <4>1. i - 1 \in 1 .. n /\ i = (i - 1) + 1
        BY <1>1, <1>3, <2>2
      <4> QED
        BY <4>1
    <3> QED
      BY <1>2, <1>3, <3>1
  <2> QED
    BY <2>1, <2>2
<1>7. ASSUME NEW i \in 1 .. Len(d) PROVE Place(Kept(id), Len(d) - i) = d[i]
  <2>a. PICK m \in 2 .. 5 : m = Len(d)
    BY <1>5, Zenon
  <2>b. i \in 1 .. m
    BY <2>a
  <2>1. m - i \in 0 .. 4 /\ ~(m - i >= m) /\ m - (m - i) = i
    BY <2>b
  <2>2. d[i] \notin {8, 9}
    BY <1>6
  <2>3. Place(Kept(id), m - i) =
           IF m - i >= m THEN 0
           ELSE IF d[m - (m - i)] \in {8, 9} THEN 2 ELSE d[m - (m - i)]
    BY <1>4, <2>a, <2>1
  <2>4. Place(Kept(id), m - i) = d[i]
    BY <2>1, <2>2, <2>3
  <2> QED
    BY <2>a, <2>4
<1> QED
  BY <1>4, <1>5, <1>6, <1>7 DEF d

\* The digits of a shallow ID are those of no other.
LEMMA ShallowIds ==
  ASSUME NEW x, NEW y, IsId(x), IsId(y), Shallow(x), Shallow(y),
         Digits(x) = Digits(y)
  PROVE  x = y
<1>1. /\ x.ports \in Seq(1 .. 99) /\ y.ports \in Seq(1 .. 99)
      /\ Len(x.ports) \in 1 .. 6 /\ Len(y.ports) \in 1 .. 6
  BY IdParts
<1>2. /\ Len(Digits(x)) = Len(x.ports) + 1 /\ Digits(x)[1] = x.bus
      /\ \A k \in 1 .. Len(x.ports) : Digits(x)[k + 1] = x.ports[k]
  BY ShallowDigits
<1>3. /\ Len(Digits(y)) = Len(y.ports) + 1 /\ Digits(y)[1] = y.bus
      /\ \A k \in 1 .. Len(y.ports) : Digits(y)[k + 1] = y.ports[k]
  BY ShallowDigits
<1>4. x.bus = y.bus /\ Len(x.ports) = Len(y.ports)
  BY <1>1, <1>2, <1>3
<1>5. \A k \in 1 .. Len(x.ports) : x.ports[k] = y.ports[k]
  BY <1>2, <1>3, <1>4
<1>6. x.ports = y.ports
  BY <1>1, <1>4, <1>5, SeqEqual
<1> QED
  BY <1>4, <1>6 DEF IsId

LEMMA ShallowNames ==
  ASSUME NEW x, NEW y, IsId(x), IsId(y), Shallow(x), Shallow(y),
         Computed(x) = Computed(y)
  PROVE  x = y
<1> DEFINE d == Digits(x)
           e == Digits(y)
<1>1. \A j \in 0 .. 4 : Place(Kept(x), j) = Place(Kept(y), j)
  <2>1. Sum5(Kept(x)) = Sum5(Kept(y))
    BY ComputedIs
  <2>2. \A j \in 0 .. 4 : Place(Kept(x), j) \in Octals /\ Place(Kept(y), j) \in Octals
    BY ComputedIs
  <2> QED
    BY <2>1, <2>2, SumTells
<1>2. /\ d \in Seq(Digit) /\ Len(d) \in 2 .. 5
      /\ \A i \in 1 .. Len(d) : d[i] \in 1 .. 7 /\ Place(Kept(x), Len(d) - i) = d[i]
      /\ \A j \in 0 .. 4 : j >= Len(d) => Place(Kept(x), j) = 0
  BY ShallowPlaces
<1>3. /\ e \in Seq(Digit) /\ Len(e) \in 2 .. 5
      /\ \A i \in 1 .. Len(e) : e[i] \in 1 .. 7 /\ Place(Kept(y), Len(e) - i) = e[i]
      /\ \A j \in 0 .. 4 : j >= Len(e) => Place(Kept(y), j) = 0
  BY ShallowPlaces
<1> HIDE DEF d, e
<1>m. PICK m \in 2 .. 5 : m = Len(d)
  BY <1>2, Zenon
<1>k. PICK k \in 2 .. 5 : k = Len(e)
  BY <1>3, Zenon
<1>4. /\ \A i \in 1 .. m : d[i] \in 1 .. 7 /\ Place(Kept(x), m - i) = d[i]
      /\ \A j \in 0 .. 4 : j >= m => Place(Kept(x), j) = 0
      /\ \A i \in 1 .. k : e[i] \in 1 .. 7 /\ Place(Kept(y), k - i) = e[i]
      /\ \A j \in 0 .. 4 : j >= k => Place(Kept(y), j) = 0
  BY <1>2, <1>3, <1>m, <1>k
<1>5. m = k
  <2>1. ASSUME m < k PROVE FALSE
    <3>1. m \in 0 .. 4 /\ m >= m /\ k - m \in 1 .. k /\ k - (k - m) = m
      BY <2>1
    <3>2. Place(Kept(x), m) = 0
      BY <1>4, <3>1
    <3>3. Place(Kept(y), k - (k - m)) = e[k - m] /\ e[k - m] \in 1 .. 7
      BY <1>4, <3>1
    <3> QED
      BY <1>1, <3>1, <3>2, <3>3
  <2>2. ASSUME k < m PROVE FALSE
    <3>1. k \in 0 .. 4 /\ k >= k /\ m - k \in 1 .. m /\ m - (m - k) = k
      BY <2>2
    <3>2. Place(Kept(y), k) = 0
      BY <1>4, <3>1
    <3>3. Place(Kept(x), m - (m - k)) = d[m - k] /\ d[m - k] \in 1 .. 7
      BY <1>4, <3>1
    <3> QED
      BY <1>1, <3>1, <3>2, <3>3
  <2> QED
    BY <2>1, <2>2
<1>6. ASSUME NEW i \in 1 .. m PROVE d[i] = e[i]
  <2>1. m - i \in 0 .. 4
    OBVIOUS
  <2>2. Place(Kept(x), m - i) = d[i]
    BY <1>4
  <2>3. Place(Kept(y), m - i) = e[i]
    BY <1>4, <1>5
  <2> QED
    BY <1>1, <2>1, <2>2, <2>3
<1>7. d = e
  BY <1>2, <1>3, <1>m, <1>k, <1>5, <1>6, SeqEqual
<1> QED
  BY <1>7, ShallowIds DEF d, e

(***************************************************************************)
(* The names given                                                         *)
(***************************************************************************)
\* Who is present, and who among them has a computed name.
NameInv ==
    /\ table \in Tables
    /\ Present \subseteq Ids /\ custom \subseteq Present
    /\ \A id \in Present \ custom : name[id] = Computed(id)

LEMMA NamesInvariant == NamesSpec => []NameInv
<1>1. NamesInit => NameInv
  <2>1. DOMAIN <<>> = {}
    OBVIOUS
  <2> QED
    BY <2>1, Zenon DEF NamesInit, NameInv, Present
<1>2. NameInv /\ [NamesNext]_interfaces => NameInv'
  <2> SUFFICES ASSUME NameInv, [NamesNext]_interfaces PROVE NameInv'
    OBVIOUS
  <2> USE DEF NameInv, Present
  <2>1. CASE Edit
    BY <2>1 DEF Edit
  <2>2. ASSUME NEW id \in Ids, NameInterface(id) PROVE NameInv'
    <3>1. /\ id \notin DOMAIN name /\ table' = table
          /\ name' = [i \in DOMAIN name \cup {id} |-> IF i = id
                        THEN IF id \in DOMAIN table THEN table[id] ELSE Computed(id)
                        ELSE name[i]]
          /\ custom' = IF id \in DOMAIN table THEN custom \cup {id} ELSE custom
      BY <2>2 DEF NameInterface
    <3> QED
      BY <3>1
  <2>3. ASSUME NEW id \in Ids, RemoveInterface(id) PROVE NameInv'
    BY <2>3 DEF RemoveInterface
  <2>4. CASE UNCHANGED interfaces
    BY <2>4 DEF interfaces
  <2> QED
    BY <2>1, <2>2, <2>3, <2>4 DEF NamesNext
<1> QED
  BY <1>1, <1>2, PTL DEF NamesSpec

LEMMA IdsHere ==
  ASSUME NEW id \in Ids
  PROVE  IsId(id)
<1>1. id \in [bus : 1 .. 99, ports : Seq(1 .. 99)] /\ Len(id.ports) \in 1 .. 6
  BY IdsAssumption DEF IdsAreIds, Number, MAX_TOPO_LEVEL
<1> QED
  BY <1>1 DEF IsId

\* A computed name is below 8^5 wherever the modem is plugged in: modem32767 at
\* most, which an interface name holds (the last five digits of modem_names.sh).
THEOREM NamesFit == NamesSpec => []NamesTypeOK
<1>1. ASSUME NameInv PROVE NamesTypeOK
  <2>1. ASSUME NEW id \in Present \ custom PROVE name[id] \in FiveDigits
    <3>1. IsId(id)
      BY <1>1, IdsHere DEF NameInv
    <3>2. \A j \in 0 .. 4 : Place(Kept(id), j) \in Octals
      BY <3>1, ComputedIs
    <3>3. Sum5(Kept(id)) \in FiveDigits
      BY <3>2, SumFits
    <3>4. name[id] = Sum5(Kept(id))
      BY <1>1, <3>1, ComputedIs DEF NameInv
    <3> QED
      BY <3>3, <3>4
  <2>2. NamesTypeOK <=> /\ table \in Tables
                         /\ Present \subseteq Ids /\ custom \subseteq Present
                         /\ \A id \in Present \ custom : name[id] \in FiveDigits
    BY DEF NamesTypeOK, FiveDigits
  <2> QED
    BY <1>1, <2>1, <2>2, Zenon DEF NameInv
<1> QED
  BY <1>1, NamesInvariant, PTL

\* Two modems on one hub of at most seven ports never share a computed name,
\* on any bus, at any depth the kernel allows, whatever comes and goes.
THEOREM SiblingsTold == NamesSpec => []SiblingsDiffer
<1>1. ASSUME NameInv PROVE SiblingsDiffer
  <2> SUFFICES ASSUME NEW i \in Present \ custom, NEW k \in Present \ custom,
                      i # k, Parent(i) = Parent(k),
                      Plain(LastPort(i)), Plain(LastPort(k)),
                      name[i] = name[k]
               PROVE  FALSE
    BY DEF SiblingsDiffer
  <2>1. IsId(i) /\ IsId(k)
    BY <1>1, IdsHere DEF NameInv
  <2>2. Computed(i) = Computed(k)
    BY <1>1 DEF NameInv
  <2> QED
    BY <2>1, <2>2, SiblingNames
<1> QED
  BY <1>1, NamesInvariant, PTL

\* In a tree with at most three hubs on the way, of at most seven ports each,
\* on one of seven buses, every computed name is that of one modem.
THEOREM NamesTold == NamesSpec => []DistinctNames
<1>1. ASSUME NameInv PROVE DistinctNames
  <2> SUFFICES ASSUME NEW i \in Present \ custom, NEW k \in Present \ custom,
                      i # k, Shallow(i), Shallow(k), name[i] = name[k]
               PROVE  FALSE
    BY DEF DistinctNames
  <2>1. IsId(i) /\ IsId(k)
    BY <1>1, IdsHere DEF NameInv
  <2>2. Computed(i) = Computed(k)
    BY <1>1 DEF NameInv
  <2> QED
    BY <2>1, <2>2, ShallowNames
<1> QED
  BY <1>1, NamesInvariant, PTL
=============================================================================
