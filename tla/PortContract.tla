---------------------------- MODULE PortContract ----------------------------
(***************************************************************************)
(* What uhubctl promises of the power of a hub's physical ports, as its    *)
(* user sees them: "off" takes power from the wanted ports, "on" gives it  *)
(* to them, "cycle" leaves a moment in which all of them are dark, "keep"  *)
(* changes nothing, and no other port loses power.  A port stays as it is  *)
(* when the hardware or the kernel did not play along; such ports are      *)
(* excused.                                                                *)
(***************************************************************************)
CONSTANTS PhysPorts

VARIABLES
    resets,   \* the hub is reset after power is given (-R)
    action,   \* "keep", "off", "on", "cycle" or "toggle"
    wanted,   \* the ports asked for
    vbus,     \* the ports that have power
    stage,    \* "dropping", "dark", "raising", "finished"
    excused   \* <<stage, port>> for which a failure was seen

cvars == <<resets, action, wanted, vbus, stage, excused>>

Excused(s) == {p \in PhysPorts : <<s, p>> \in excused}

CInit ==
    /\ resets \in BOOLEAN /\ action \in {"keep", "off", "on", "cycle", "toggle"}
    /\ wanted \subseteq PhysPorts /\ vbus \subseteq PhysPorts
    /\ stage = IF action = "on" THEN "raising" ELSE "dropping"
    /\ excused = {}

\* Failures, and power the kernel gives back, only ever excuse.
Mishap ==
    /\ excused \subseteq excused'
    /\ vbus \subseteq vbus' /\ vbus' \ vbus \subseteq {p \in PhysPorts : <<"dropping", p>> \in excused'}
    /\ UNCHANGED <<resets, action, wanted, stage>>

Drop ==
    /\ stage = "dropping" /\ action \in {"off", "cycle"}
    /\ vbus' \subseteq vbus /\ vbus \ vbus' \subseteq wanted
    /\ UNCHANGED <<resets, action, wanted, stage, excused>>

Raise ==
    /\ stage = "raising"
    /\ vbus \subseteq vbus'
    /\ resets \/ vbus' \ vbus \subseteq wanted  \* a reset may wake any port
    /\ UNCHANGED <<resets, action, wanted, stage, excused>>

Flip ==
    /\ action = "toggle" /\ stage = "dropping"
    /\ (vbus \ vbus') \cup (vbus' \ vbus) \subseteq wanted
    /\ UNCHANGED <<resets, action, wanted, stage, excused>>

AllDark == vbus \cap wanted \subseteq Excused("dropping")

Pause  == stage = "dropping" /\ action = "cycle" /\ AllDark /\ stage' = "dark"
Resume == stage = "dark" /\ stage' = "raising"
FinishOff == stage = "dropping" /\ action = "off" /\ AllDark /\ stage' = "finished"
FinishElse == stage = "dropping" /\ action \in {"keep", "toggle"} /\ stage' = "finished"
FinishOn  == stage = "raising" /\ wanted \ vbus \subseteq Excused("raising") /\ stage' = "finished"

Advance == (Pause \/ Resume \/ FinishOff \/ FinishElse \/ FinishOn)
              /\ UNCHANGED <<resets, action, wanted, vbus, excused>>

CNext == Mishap \/ Drop \/ Flip \/ Raise \/ Advance

CSpec == CInit /\ [][CNext]_cvars
=============================================================================
