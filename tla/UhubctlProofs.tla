---------------------------- MODULE UhubctlProofs ----------------------------
(***************************************************************************)
(* Theorems about whole runs of uhubctl: for any command line, any tree,   *)
(* any failures of the calls and any number of kernel re-powerings.        *)
(***************************************************************************)
EXTENDS Uhubctl, FiniteSetTheorems, TLAPS

\* The theorems about the search, for the options that have been read.
FP == INSTANCE UhubDiscoveryProofs WITH pc <- find_pc, i <- find_i, Filters <- {}

\* The theorems about the loop, for what it reads of the table.
Table ==
    [h \in DOMAIN hubs |->
        [dev |-> hubs[h].dev, nports |-> hubs[h].nports, actionable |-> hubs[h].actionable]]
LP == INSTANCE UhubPowerProofs WITH
    hubs <- Table, ports <- mask, Requests <- {}, HubArrays <- {}, PortMasks <- {}, PhysPorts <- {}

(***************************************************************************)
(* The command line                                                        *)
(***************************************************************************)
\* Where the last of the options at the positions S stands, if there is one.
LEMMA LastIs ==
  ASSUME NEW S \in SUBSET Nat, NEW n \in S, \A m \in S : m <= n, NEW d
  PROVE  Parse!LastOf(S, d) = line.opts[n].val
<1> DEFINE Top(j) == \A m \in S : m <= j
           t == CHOOSE j \in S : Top(j)
<1>1. \E j \in S : Top(j)
  OBVIOUS
<1>2. t \in S /\ Top(t)
  <2> HIDE DEF Top
  <2> QED
    BY <1>1
<1>3. t = n
  <2> HIDE DEF t
  <2>1. t \in Nat /\ n \in Nat
    BY <1>2
  <2>2. t <= n /\ n <= t
    BY <1>2
  <2> QED
    BY <2>1, <2>2
<1>4. Parse!LastOf(S, d) = line.opts[t].val
  BY DEF Parse!LastOf
<1> HIDE DEF t, Top
<1> QED
  BY <1>3, <1>4

\* What the options before position n ask for.
Positions == 1 .. (Len(line.opts) + 1)
Words == DOMAIN Parse!Defaults \ {"action"}
ActionAt ==
    [n \in Positions |->
        Parse!LastOf({j \in Parse!Named("action") : line.opts[j].val \in Parse!Actions /\ j < n},
                     "keep")]
ListAt ==
    [n \in Positions |->
        Parse!LastOf({j \in Parse!Named("ports") : line.opts[j].val # <<>> /\ j < n},
                     <<<<1, Parse!MaxHubPorts>>>>)]
OptionAt ==
    [n \in Positions |->
        [name \in Words |->
            Parse!LastOf({j \in Parse!Named(name) : j < n}, Parse!Defaults[name])]]
ListPorts(l) == {p \in Parse!AllHubPorts : \E j \in DOMAIN l : l[j][1] <= p /\ p <= l[j][2]}
\* Option j does not stop the program.
Accepted ==
    {j \in DOMAIN line.opts :
        /\ line.opts[j].name \notin {"version", "help", "unknown"}
        /\ line.opts[j].name = "ports" => \A m \in DOMAIN line.opts[j].val :
              /\ 1 <= line.opts[j].val[m][1] /\ line.opts[j].val[m][1] <= line.opts[j].val[m][2]
              /\ line.opts[j].val[m][2] <= Parse!MaxHubPorts}

\* The options up to the next one have been read, the last of each kind that
\* says something is what the variables hold.
LineOK == line \in CommandLines
ReadSoFar ==
    opc \in {"args", "ready"} =>
        /\ next \in Positions
        /\ DOMAIN o = DOMAIN Parse!Defaults
        /\ \A j \in DOMAIN line.opts : j < next => j \in Accepted
        /\ o.action = ActionAt[next]
        /\ \A name \in Words : o[name] = OptionAt[next][name]
ReadPorts ==
    opc \in {"args", "ready"} =>
        /\ mask \subseteq ListPorts(ListAt[next])
        /\ find_pc = "scan" /\ find_i = 1 => mask = ListPorts(ListAt[next])
Stopped ==
    /\ opc = "ready" => next = Len(line.opts) + 1 /\ ~line.stray
    /\ opc = "stop" => ~Parse!Sound

LEMMA FixedLine ==
  ASSUME line' = line
  PROVE  /\ Positions' = Positions /\ Accepted' = Accepted
         /\ ActionAt' = ActionAt /\ ListAt' = ListAt /\ OptionAt' = OptionAt
<1>1. Positions' = Positions /\ Accepted' = Accepted
  BY DEF Positions, Accepted
<1>2. ActionAt' = ActionAt
  BY DEF ActionAt, Positions, Parse!LastOf, Parse!Named
<1>3. ListAt' = ListAt
  BY DEF ListAt, Positions, Parse!LastOf, Parse!Named
<1>4. OptionAt' = OptionAt
  BY DEF OptionAt, Positions, Parse!LastOf, Parse!Named
<1> QED
  BY <1>1, <1>2, <1>3, <1>4

LEMMA LineType ==
  ASSUME LineOK
  PROVE  Len(line.opts) \in Nat /\ DOMAIN line.opts = 1 .. Len(line.opts) /\ line.stray \in BOOLEAN
BY LinesAssumption DEF LineOK

\* One option further, the last of a kind is that option or what it was.
LEMMA OneFurther ==
  ASSUME NEW T \in SUBSET Nat, NEW n \in Nat, NEW d
  PROVE  /\ n \in T => Parse!LastOf({j \in T : j < n + 1}, d) = line.opts[n].val
         /\ n \notin T => {j \in T : j < n + 1} = {j \in T : j < n}
<1>1. ASSUME n \in T PROVE Parse!LastOf({j \in T : j < n + 1}, d) = line.opts[n].val
  <2> DEFINE S == {j \in T : j < n + 1}
  <2>1. S \in SUBSET Nat /\ n \in S
    <3>1. n < n + 1
      OBVIOUS
    <3>2. S \subseteq T
      OBVIOUS
    <3> QED
      BY <1>1, <3>1, <3>2
  <2>2. ASSUME NEW m \in S PROVE m <= n
    <3>1. m \in Nat /\ m < n + 1
      OBVIOUS
    <3> QED
      BY <3>1
  <2> HIDE DEF S
  <2>3. Parse!LastOf(S, d) = line.opts[n].val
    BY <2>1, <2>2, LastIs
  <2> QED
    BY <2>3 DEF S
<1>2. ASSUME n \notin T PROVE {j \in T : j < n + 1} = {j \in T : j < n}
  <2>1. ASSUME NEW j \in T PROVE j < n + 1 <=> j < n
    <3>1. j \in Nat /\ j # n
      BY <1>2
    <3> QED
      BY <3>1
  <2> QED
    BY <2>1
<1> QED
  BY <1>1, <1>2

LEMMA NextOption ==
  ASSUME LineOK, NEW n \in DOMAIN line.opts
  PROVE  /\ n \in Positions /\ n + 1 \in Positions
         /\ ActionAt[n + 1] =
              IF line.opts[n].name = "action" /\ line.opts[n].val \in Parse!Actions
              THEN line.opts[n].val ELSE ActionAt[n]
         /\ ListAt[n + 1] =
              IF line.opts[n].name = "ports" /\ line.opts[n].val # <<>>
              THEN line.opts[n].val ELSE ListAt[n]
         /\ \A name \in Words : OptionAt[n + 1][name] =
              IF line.opts[n].name = name THEN line.opts[n].val ELSE OptionAt[n][name]
<1>1. n \in Nat /\ DOMAIN line.opts \subseteq Nat /\ n \in Positions /\ n + 1 \in Positions
  BY LineType DEF Positions
<1>2. ActionAt[n + 1] =
        IF line.opts[n].name = "action" /\ line.opts[n].val \in Parse!Actions
        THEN line.opts[n].val ELSE ActionAt[n]
  <2> DEFINE T == {j \in Parse!Named("action") : line.opts[j].val \in Parse!Actions}
             d == "keep"
  <2>1. T \in SUBSET Nat
    BY <1>1 DEF Parse!Named
  <2>2. n \in T <=> line.opts[n].name = "action" /\ line.opts[n].val \in Parse!Actions
    BY DEF Parse!Named
  <2>3. \A m \in Positions : ActionAt[m] = Parse!LastOf({j \in T : j < m}, d)
    <3> TAKE m \in Positions
    <3>1. {j \in Parse!Named("action") : line.opts[j].val \in Parse!Actions /\ j < m}
            = {j \in T : j < m}
      OBVIOUS
    <3> HIDE DEF T
    <3> QED
      BY <3>1 DEF ActionAt
  <2> HIDE DEF T, d
  <2>4. /\ n \in T => Parse!LastOf({j \in T : j < n + 1}, d) = line.opts[n].val
        /\ n \notin T => {j \in T : j < n + 1} = {j \in T : j < n}
    BY <1>1, <2>1, OneFurther
  <2>5. CASE n \in T
    BY <1>1, <2>2, <2>3, <2>4, <2>5
  <2>6. CASE n \notin T
    BY <1>1, <2>2, <2>3, <2>4, <2>6
  <2> QED
    BY <2>5, <2>6
<1>3. ListAt[n + 1] =
        IF line.opts[n].name = "ports" /\ line.opts[n].val # <<>>
        THEN line.opts[n].val ELSE ListAt[n]
  <2> DEFINE T == {j \in Parse!Named("ports") : line.opts[j].val # <<>>}
             d == <<<<1, Parse!MaxHubPorts>>>>
  <2>1. T \in SUBSET Nat
    BY <1>1 DEF Parse!Named
  <2>2. n \in T <=> line.opts[n].name = "ports" /\ line.opts[n].val # <<>>
    BY DEF Parse!Named
  <2>3. \A m \in Positions : ListAt[m] = Parse!LastOf({j \in T : j < m}, d)
    <3> TAKE m \in Positions
    <3>1. {j \in Parse!Named("ports") : line.opts[j].val # <<>> /\ j < m}
            = {j \in T : j < m}
      OBVIOUS
    <3> HIDE DEF T
    <3> QED
      BY <3>1 DEF ListAt
  <2> HIDE DEF T, d
  <2>4. /\ n \in T => Parse!LastOf({j \in T : j < n + 1}, d) = line.opts[n].val
        /\ n \notin T => {j \in T : j < n + 1} = {j \in T : j < n}
    BY <1>1, <2>1, OneFurther
  <2>5. CASE n \in T
    BY <1>1, <2>2, <2>3, <2>4, <2>5
  <2>6. CASE n \notin T
    BY <1>1, <2>2, <2>3, <2>4, <2>6
  <2> QED
    BY <2>5, <2>6
<1>4. ASSUME NEW name \in Words
      PROVE  OptionAt[n + 1][name] =
               IF line.opts[n].name = name THEN line.opts[n].val ELSE OptionAt[n][name]
  <2> DEFINE T == Parse!Named(name)
             d == Parse!Defaults[name]
  <2>1. T \in SUBSET Nat
    BY <1>1 DEF Parse!Named
  <2>2. n \in T <=> line.opts[n].name = name
    BY DEF Parse!Named
  <2>3. \A m \in Positions : OptionAt[m][name] = Parse!LastOf({j \in T : j < m}, d)
    BY DEF OptionAt
  <2> HIDE DEF T, d
  <2>4. /\ n \in T => Parse!LastOf({j \in T : j < n + 1}, d) = line.opts[n].val
        /\ n \notin T => {j \in T : j < n + 1} = {j \in T : j < n}
    BY <1>1, <2>1, OneFurther
  <2>5. CASE n \in T
    BY <1>1, <2>2, <2>3, <2>4, <2>5
  <2>6. CASE n \notin T
    BY <1>1, <2>2, <2>3, <2>4, <2>6
  <2> QED
    BY <2>5, <2>6
<1> QED
  BY <1>1, <1>2, <1>3, <1>4

ParseInv == LineOK /\ ReadSoFar /\ ReadPorts /\ Stopped

\* ports2bitmap takes exactly the lists that name ports a hub can have, and
\* makes of them the ports they name.
LEMMA Lists ==
  ASSUME LineOK, NEW n \in DOMAIN line.opts, line.opts[n].name = "ports"
  PROVE  /\ ~Parse!BadList(line.opts[n].val) <=> n \in Accepted
         /\ n \in Accepted => Parse!Bitmap(line.opts[n].val) = ListPorts(line.opts[n].val)
<1> DEFINE l == line.opts[n].val
           OK(r) == 1 <= r[1] /\ r[1] <= r[2] /\ r[2] <= 14
<1>1. \A m \in DOMAIN l : l[m][1] \in Int /\ l[m][2] \in Int
  BY LinesAssumption DEF LineOK
<1>2. n \in Accepted <=> \A m \in DOMAIN l : OK(l[m])
  BY DEF Accepted, Parse!MaxHubPorts
<1> HIDE DEF l
<1>3. \A m \in DOMAIN l : Parse!BadSpec(l[m]) <=> ~OK(l[m])
  <2> TAKE m \in DOMAIN l
  <2> DEFINE a == l[m][1]
             b == l[m][2]
  <2>1. a \in Int /\ b \in Int
    BY <1>1
  <2>2. Parse!BadSpec(l[m]) <=> a > b \/ a \notin 1..14 \/ b \notin 1..14
    BY DEF Parse!BadSpec, Parse!AllHubPorts, Parse!MaxHubPorts
  <2>3. OK(l[m]) <=> 1 <= a /\ a <= b /\ b <= 14
    OBVIOUS
  <2> HIDE DEF a, b, OK
  <2> QED
    BY <2>1, <2>2, <2>3
<1>4. ~Parse!BadList(l) <=> \A m \in DOMAIN l : OK(l[m])
  BY <1>3 DEF Parse!BadList
<1>5. (\A m \in DOMAIN l : OK(l[m])) => Parse!Bitmap(l) = ListPorts(l)
  <2> SUFFICES ASSUME \A m \in DOMAIN l : OK(l[m]), NEW p
               PROVE  p \in Parse!Bitmap(l) <=> p \in ListPorts(l)
    OBVIOUS
  <2>1. p \in Parse!Bitmap(l) <=> \E m \in DOMAIN l : p \in l[m][1] .. l[m][2]
    BY DEF Parse!Bitmap
  <2>2. p \in ListPorts(l) <=> p \in 1..14 /\ \E m \in DOMAIN l : l[m][1] <= p /\ p <= l[m][2]
    BY DEF ListPorts, Parse!AllHubPorts, Parse!MaxHubPorts
  <2>3. \A m \in DOMAIN l :
          p \in l[m][1] .. l[m][2] <=> p \in 1..14 /\ l[m][1] <= p /\ p <= l[m][2]
    BY <1>1
  <2> QED
    BY <2>1, <2>2, <2>3
<1> QED
  BY <1>2, <1>4, <1>5 DEF l

LEMMA SoundLine == LineOK => (Parse!Sound <=> ~line.stray /\ Accepted = DOMAIN line.opts)
BY DEF Parse!Sound, Accepted

\* An option is taken: what it says is what the variables hold.
LEMMA TakeStep ==
  ASSUME ParseInv, Parse!AtOption, opc = "args",
         next' = next + 1, UNCHANGED <<line, opc, find_pc, find_i>>,
         next \in Accepted,
         DOMAIN o' = DOMAIN o,
         o'.action = IF Parse!Opt.name = "action" /\ Parse!Opt.val \in Parse!Actions
                     THEN Parse!Opt.val ELSE o.action,
         \A name \in Words : o'[name] = IF Parse!Opt.name = name THEN Parse!Opt.val ELSE o[name],
         mask' = IF Parse!Opt.name = "ports" /\ Parse!Opt.val # <<>>
                 THEN ListPorts(Parse!Opt.val) ELSE mask
  PROVE  ParseInv'
<1> DEFINE n == next
<1>1. n \in DOMAIN line.opts
  BY LineType DEF ParseInv, ReadSoFar, Positions, Parse!AtOption
<1>2. Parse!Opt = line.opts[n]
  BY DEF Parse!Opt
<1>3. /\ n \in Positions /\ n + 1 \in Positions
      /\ ActionAt[n + 1] =
           IF line.opts[n].name = "action" /\ line.opts[n].val \in Parse!Actions
           THEN line.opts[n].val ELSE ActionAt[n]
      /\ ListAt[n + 1] =
           IF line.opts[n].name = "ports" /\ line.opts[n].val # <<>>
           THEN line.opts[n].val ELSE ListAt[n]
      /\ \A name \in Words : OptionAt[n + 1][name] =
           IF line.opts[n].name = name THEN line.opts[n].val ELSE OptionAt[n][name]
  BY <1>1, NextOption DEF ParseInv
<1>4. /\ Positions' = Positions /\ Accepted' = Accepted
      /\ ActionAt' = ActionAt /\ ListAt' = ListAt /\ OptionAt' = OptionAt
  BY FixedLine
<1>5. \A j \in DOMAIN line.opts : j < n + 1 => j \in Accepted
  <2> SUFFICES ASSUME NEW j \in DOMAIN line.opts, j < n + 1 PROVE j \in Accepted
    OBVIOUS
  <2>1. j \in Nat /\ n \in Nat
    BY <1>1, LineType DEF ParseInv
  <2>2. j < n \/ j = n
    BY <2>1
  <2> QED
    BY <2>2 DEF ParseInv, ReadSoFar
<1>6. ReadSoFar'
  <2>1. o'.action = ActionAt[n + 1]
    BY <1>2, <1>3 DEF ParseInv, ReadSoFar
  <2>2. \A name \in Words : o'[name] = OptionAt[n + 1][name]
    BY <1>2, <1>3 DEF ParseInv, ReadSoFar
  <2>3. DOMAIN o' = DOMAIN Parse!Defaults
    BY DEF ParseInv, ReadSoFar
  <2> QED
    BY <1>3, <1>4, <1>5, <2>1, <2>2, <2>3 DEF ReadSoFar, Words, Parse!Defaults
<1>7. ReadPorts'
  <2>1. /\ mask' \subseteq ListPorts(ListAt[n + 1])
        /\ find_pc = "scan" /\ find_i = 1 => mask' = ListPorts(ListAt[n + 1])
    BY <1>2, <1>3 DEF ParseInv, ReadPorts
  <2> QED
    BY <1>4, <2>1 DEF ReadPorts, ListPorts, Parse!AllHubPorts, Parse!MaxHubPorts
<1> QED
  BY <1>6, <1>7 DEF ParseInv, LineOK, Stopped

LEMMA ReadStep ==
  ASSUME ParseInv, Parse!Next, UNCHANGED <<find_pc, find_i>>
  PROVE  ParseInv'
<1> DEFINE n == next
<1>1. ASSUME Parse!AtOption, opc = "args"
      PROVE  n \in DOMAIN line.opts /\ Parse!Opt = line.opts[n]
  BY <1>1, LineType DEF ParseInv, ReadSoFar, Positions, Parse!AtOption, Parse!Opt
<1>2. ASSUME Parse!Take, Parse!Opt.name \in DOMAIN Parse!Defaults \cup {"all", "other"}
      PROVE  n \in Accepted
  <2>1. n \in DOMAIN line.opts /\ Parse!Opt = line.opts[n]
    BY <1>1, <1>2 DEF Parse!Take, Parse!AtOption
  <2> QED
    BY <1>2, <2>1 DEF Accepted, Parse!Defaults
<1>3. Words = DOMAIN Parse!Defaults \ {"action"} /\ "action" \in DOMAIN Parse!Defaults
  BY DEF Words, Parse!Defaults
<1>4. ASSUME opc = "args" PROVE DOMAIN o = DOMAIN Parse!Defaults
  BY <1>4 DEF ParseInv, ReadSoFar
<1>5. CASE Parse!SetAction
  <2>1. Parse!Take /\ Parse!Opt.name = "action" /\ mask' = mask /\ opc = "args"
    BY <1>5 DEF Parse!SetAction, Parse!Take, Parse!AtOption
  <2>2. n \in Accepted
    BY <1>2, <1>3, <2>1
  <2>3. DOMAIN o' = DOMAIN o /\ \A name \in Words : o'[name] = o[name]
    <3>1. o' = IF Parse!Opt.val \in Parse!Actions
               THEN [o EXCEPT !["action"] = Parse!Opt.val] ELSE o
      BY <1>5 DEF Parse!SetAction
    <3>2. \A name \in Words : name # "action" /\ name \in DOMAIN o
      BY <1>3, <1>4, <2>1
    <3> QED
      BY <3>1, <3>2
  <2>4. o'.action = IF Parse!Opt.val \in Parse!Actions THEN Parse!Opt.val ELSE o.action
    BY <1>3, <1>4, <1>5, <2>1 DEF Parse!SetAction
  <2>5. "action" \notin Words
    BY <1>3
  <2> QED
    BY <2>1, <2>2, <2>3, <2>4, <2>5, TakeStep DEF Parse!Take, Parse!AtOption
<1>6. CASE Parse!SetOption
  <2>1. Parse!Take /\ Parse!Opt.name \in Words /\ mask' = mask /\ opc = "args"
    BY <1>3, <1>6 DEF Parse!SetOption, Parse!Take, Parse!AtOption
  <2>2. n \in Accepted
    BY <1>2, <1>3, <2>1
  <2>3. o' = [o EXCEPT ![Parse!Opt.name] = Parse!Opt.val]
    BY <1>6 DEF Parse!SetOption
  <2>4. Parse!Opt.name \notin {"action", "ports"}
    BY <1>3, <2>1 DEF Parse!Defaults
  <2>5. DOMAIN o' = DOMAIN o /\ o'.action = o.action
    BY <1>3, <1>4, <2>1, <2>3, <2>4
  <2>6. \A name \in Words : o'[name] = IF Parse!Opt.name = name THEN Parse!Opt.val ELSE o[name]
    BY <1>3, <1>4, <2>1, <2>3
  <2> QED
    BY <2>1, <2>2, <2>4, <2>5, <2>6, TakeStep DEF Parse!Take, Parse!AtOption
<1>7. CASE Parse!SetPorts
  <2>1. Parse!Take /\ Parse!Opt.name = "ports" /\ ~Parse!BadList(Parse!Opt.val) /\ o' = o
        /\ opc = "args"
    BY <1>7 DEF Parse!SetPorts, Parse!Take, Parse!AtOption
  <2>2. n \in DOMAIN line.opts /\ Parse!Opt = line.opts[n]
    BY <1>1, <2>1 DEF Parse!Take
  <2>3. n \in Accepted /\ Parse!Bitmap(Parse!Opt.val) = ListPorts(Parse!Opt.val)
    BY <2>1, <2>2, Lists DEF ParseInv
  <2>4. mask' = IF Parse!Opt.val = <<>> THEN mask ELSE Parse!Bitmap(Parse!Opt.val)
    BY <1>7 DEF Parse!SetPorts
  <2>5. "ports" \notin Words
    BY <1>3 DEF Parse!Defaults
  <2>6. DOMAIN o' = DOMAIN o /\ o'.action = o.action /\ \A name \in Words : o'[name] = o[name]
    BY <2>1
  <2> QED
    BY <2>1, <2>3, <2>4, <2>5, <2>6, TakeStep DEF Parse!Take, Parse!AtOption
<1>8. CASE Parse!NoEffect
  <2>1. Parse!Take /\ Parse!Opt.name \in {"all", "other"} /\ mask' = mask /\ o' = o /\ opc = "args"
    BY <1>8 DEF Parse!NoEffect, Parse!Take, Parse!AtOption
  <2>2. n \in Accepted
    BY <1>2, <2>1
  <2>3. Parse!Opt.name \notin Words /\ Parse!Opt.name \notin {"action", "ports"}
    BY <1>3, <2>1 DEF Parse!Defaults
  <2>4. DOMAIN o' = DOMAIN o /\ o'.action = o.action /\ \A name \in Words : o'[name] = o[name]
    BY <2>1
  <2> QED
    BY <2>1, <2>2, <2>3, <2>4, TakeStep DEF Parse!Take, Parse!AtOption
<1>9. ASSUME Parse!AtOption, n \notin Accepted, opc' = "stop", line' = line PROVE ParseInv'
  <2>1. n \in DOMAIN line.opts
    BY <1>1, <1>9 DEF Parse!AtOption
  <2>2. ~Parse!Sound
    BY <1>9, <2>1, SoundLine DEF ParseInv
  <2>3. Parse!Sound' <=> Parse!Sound
    BY <1>9 DEF Parse!Sound
  <2> QED
    BY <1>9, <2>2, <2>3 DEF ParseInv, LineOK, ReadSoFar, ReadPorts, Stopped
<1>10. CASE Parse!BadPorts
  <2>1. n \in DOMAIN line.opts /\ Parse!Opt = line.opts[n]
    BY <1>1, <1>10 DEF Parse!BadPorts, Parse!AtOption
  <2>2. n \notin Accepted
    BY <1>10, <2>1, Lists DEF Parse!BadPorts, ParseInv
  <2> QED
    BY <1>9, <1>10, <2>2 DEF Parse!BadPorts, Parse!Quit
<1>11. CASE Parse!Version \/ Parse!Usage
  <2>1. n \in DOMAIN line.opts /\ Parse!Opt = line.opts[n]
    BY <1>1, <1>11 DEF Parse!Version, Parse!Usage, Parse!AtOption
  <2>2. n \notin Accepted
    BY <1>11, <2>1 DEF Parse!Version, Parse!Usage, Accepted
  <2> QED
    BY <1>9, <1>11, <2>2 DEF Parse!Version, Parse!Usage, Parse!Quit
<1>12. CASE Parse!Stray
  <2>1. line.stray /\ opc' = "stop" /\ line' = line
    BY <1>12 DEF Parse!Stray, Parse!Quit
  <2>2. ~Parse!Sound /\ (Parse!Sound' <=> Parse!Sound)
    BY <2>1 DEF Parse!Sound
  <2> QED
    BY <2>1, <2>2 DEF ParseInv, LineOK, ReadSoFar, ReadPorts, Stopped
<1>13. CASE Parse!Ready
  <2>1. /\ opc = "args" /\ opc' = "ready" /\ ~line.stray /\ next > Len(line.opts)
        /\ UNCHANGED <<line, next, o, mask>>
    BY <1>13 DEF Parse!Ready, Parse!ArgsDone
  <2>2. /\ Positions' = Positions /\ Accepted' = Accepted
        /\ ActionAt' = ActionAt /\ ListAt' = ListAt /\ OptionAt' = OptionAt
    BY <2>1, FixedLine
  <2>3. next = Len(line.opts) + 1
    BY <2>1, LineType DEF ParseInv, ReadSoFar, Positions
  <2>4. ReadSoFar'
    BY <2>1, <2>2 DEF ParseInv, ReadSoFar, Words, Parse!Defaults
  <2>5. ReadPorts'
    BY <2>1, <2>2 DEF ParseInv, ReadPorts, ListPorts, Parse!AllHubPorts, Parse!MaxHubPorts
  <2> QED
    BY <2>1, <2>3, <2>4, <2>5 DEF ParseInv, LineOK, Stopped
<1> QED
  BY <1>5, <1>6, <1>7, <1>8, <1>10, <1>11, <1>12, <1>13 DEF Parse!Next

\* No part of the program begins before the one it waits for is over.
Waiting ==
    /\ opc \in {"args", "ready", "stop"}
    /\ opc # "ready" => find_pc = "scan" /\ find_i = 1
    /\ find_i \in Nat /\ (find_pc = "scan" => find_i # 0)

LEMMA WaitingStep ==
  ASSUME Waiting, [Next]_vars
  PROVE  Waiting'
<1>1. CASE ReadOptions
  <2>1. opc' \in {"args", "ready", "stop"} /\ opc # "ready"
    BY <1>1 DEF ReadOptions, Parse!Next, Parse!SetAction, Parse!SetOption, Parse!SetPorts,
      Parse!NoEffect, Parse!BadPorts, Parse!Version, Parse!Usage, Parse!Stray, Parse!Ready,
      Parse!Take, Parse!Quit, Parse!AtOption, Parse!ArgsDone
  <2> QED
    BY <1>1, <2>1 DEF ReadOptions, Waiting
<1>2. CASE FindHubs
  <2>1. find_i' \in Nat /\ (find_pc' = "scan" => find_i' # 0)
    BY <1>2 DEF FindHubs, Waiting, Find!Next, Find!SkipDevice, Find!Unreadable,
      Find!NotSwitchable, Find!AddHub, Find!TooManyHubs, Find!ScanDone, Find!DualOf,
      Find!DualsDone, Find!Count, Find!AtDevice, Find!AtHub
  <2> QED
    BY <1>2, <2>1 DEF FindHubs, argVars, Waiting
<1>3. CASE UNCHANGED <<opc, find_pc, find_i>>
  BY <1>3 DEF Waiting
<1> QED
  BY <1>1, <1>2, <1>3 DEF Next, Refuse, Operate, Kernel, vars, argVars, findVars

\* The search only ever takes ports away, and only once it has left its start.
LEMMA SearchNarrows ==
  ASSUME Waiting, Find!Next
  PROVE  mask' \subseteq mask /\ ~(find_pc' = "scan" /\ find_i' = 1)
<1>1. ASSUME NEW info PROVE Find!Narrowed(info) \subseteq mask
  BY DEF Find!Narrowed
<1>2. find_pc = "scan" => find_i + 1 # 1
  BY DEF Waiting
<1>3. find_pc' = "scan" /\ find_i' = 1 => FALSE
  BY <1>2 DEF Find!Next, Find!SkipDevice, Find!Unreadable,
    Find!NotSwitchable, Find!AddHub, Find!TooManyHubs, Find!ScanDone, Find!DualOf,
    Find!DualsDone, Find!Count, Find!AtDevice, Find!AtHub
<1>4. mask' \subseteq mask
  BY <1>1 DEF Find!Next, Find!SkipDevice, Find!Unreadable,
    Find!NotSwitchable, Find!AddHub, Find!TooManyHubs, Find!ScanDone, Find!DualOf,
    Find!DualsDone, Find!Count
<1> QED
  BY <1>3, <1>4

LEMMA ParseStep ==
  ASSUME ParseInv, Waiting, [Next]_vars
  PROVE  ParseInv'
<1>1. CASE ReadOptions
  BY <1>1, ReadStep DEF ReadOptions
<1>2. ASSUME UNCHANGED argVars, mask' \subseteq mask,
             mask' # mask => ~(find_pc' = "scan" /\ find_i' = 1),
             find_pc' = "scan" /\ find_i' = 1 => find_pc = "scan" /\ find_i = 1
      PROVE  ParseInv'
  <2>1. UNCHANGED <<line, next, o, opc>>
    BY <1>2 DEF argVars
  <2>2. /\ Positions' = Positions /\ Accepted' = Accepted
        /\ ActionAt' = ActionAt /\ ListAt' = ListAt /\ OptionAt' = OptionAt
    BY <2>1, FixedLine
  <2>3. ReadSoFar'
    BY <2>1, <2>2 DEF ParseInv, ReadSoFar, Words, Parse!Defaults
  <2>4. ReadPorts'
    BY <1>2, <2>1, <2>2 DEF ParseInv, ReadPorts, ListPorts, Parse!AllHubPorts, Parse!MaxHubPorts
  <2>5. Stopped'
    BY <2>1 DEF ParseInv, Stopped, Parse!Sound
  <2> QED
    BY <2>1, <2>3, <2>4, <2>5 DEF ParseInv, LineOK
<1>3. CASE FindHubs
  BY <1>2, <1>3, SearchNarrows DEF FindHubs
<1>4. CASE UNCHANGED <<argVars, findVars>>
  BY <1>2, <1>4 DEF findVars
<1> QED
  BY <1>1, <1>3, <1>4 DEF Next, Refuse, Operate, Kernel, vars

LEMMA ParseInit ==
  ASSUME Init
  PROVE  ParseInv /\ Waiting
<1>1. /\ line \in CommandLines /\ next = 1 /\ o = Parse!Defaults /\ opc = "args"
      /\ mask = Parse!AllHubPorts /\ find_pc = "scan" /\ find_i = 1
  BY DEF Init, Parse!Init
<1>2. LineOK /\ Waiting /\ Stopped
  BY <1>1 DEF LineOK, Waiting, Stopped
<1>3. Len(line.opts) \in Nat /\ DOMAIN line.opts \subseteq Nat /\ 1 \in Positions
      /\ \A j \in DOMAIN line.opts : ~(j < 1)
  BY <1>2, LineType DEF Positions
<1>4. \A T \in SUBSET DOMAIN line.opts : {j \in T : j < 1} = {}
  BY <1>3
<1>5. \A d : Parse!LastOf({}, d) = d
  BY DEF Parse!LastOf
<1>6. ActionAt[1] = "keep"
  <2> DEFINE S == {j \in Parse!Named("action") : line.opts[j].val \in Parse!Actions /\ j < 1}
  <2>1. S = {}
    BY <1>3 DEF Parse!Named
  <2>2. ActionAt[1] = Parse!LastOf(S, "keep")
    BY <1>3 DEF ActionAt
  <2> HIDE DEF S
  <2> QED
    BY <1>5, <2>1, <2>2
<1>7. ListAt[1] = <<<<1, 14>>>>
  <2> DEFINE S == {j \in Parse!Named("ports") : line.opts[j].val # <<>> /\ j < 1}
             d == <<<<1, 14>>>>
  <2>1. S = {}
    BY <1>3 DEF Parse!Named
  <2>2. ListAt[1] = Parse!LastOf(S, d)
    BY <1>3 DEF ListAt, Parse!MaxHubPorts
  <2> HIDE DEF S, d
  <2>3. ListAt[1] = d
    BY <1>5, <2>1, <2>2
  <2> QED
    BY <2>3 DEF d
<1>8. ASSUME NEW name \in Words PROVE OptionAt[1][name] = Parse!Defaults[name]
  <2> DEFINE S == {j \in Parse!Named(name) : j < 1}
             d == Parse!Defaults[name]
  <2>1. S = {}
    BY <1>3 DEF Parse!Named
  <2>2. OptionAt[1][name] = Parse!LastOf(S, d)
    BY <1>3 DEF OptionAt
  <2> HIDE DEF S, d
  <2>3. OptionAt[1][name] = d
    BY <1>5, <2>1, <2>2
  <2> QED
    BY <2>3 DEF d
<1>9. ReadSoFar
  BY <1>1, <1>3, <1>6, <1>8 DEF ReadSoFar, Parse!Defaults
<1>10. ListPorts(<<<<1, 14>>>>) = Parse!AllHubPorts
  <2>1. ASSUME NEW p PROVE p \in ListPorts(<<<<1, 14>>>>) <=> p \in 1..14
    BY DEF ListPorts, Parse!AllHubPorts, Parse!MaxHubPorts
  <2> QED
    BY <2>1 DEF Parse!AllHubPorts, Parse!MaxHubPorts
<1>11. ReadPorts
  BY <1>1, <1>7, <1>10 DEF ReadPorts
<1> QED
  BY <1>2, <1>9, <1>11 DEF ParseInv

LEMMA ParseHolds == Spec => [](ParseInv /\ Waiting)
<1>1. Init => ParseInv /\ Waiting
  BY ParseInit
<1>2. ParseInv /\ Waiting /\ [Next]_vars => (ParseInv /\ Waiting)'
  BY ParseStep, WaitingStep
<1> QED
  BY <1>1, <1>2, PTL DEF Spec

\* When all options have been taken, what has been read is what was asked for.
LEMMA AllRead ==
  ASSUME ParseInv, opc = "ready"
  PROVE  /\ Parse!Sound
         /\ o.action = Parse!AskedAction
         /\ Parse!AskedPorts = ListPorts(ListAt[next])
         /\ \A name \in Words : o[name] = Parse!LastOf(Parse!Named(name), Parse!Defaults[name])
<1>1. next = Len(line.opts) + 1 /\ next \in Positions /\ ~line.stray
  BY DEF ParseInv, ReadSoFar, Stopped
<1>2. \A j \in DOMAIN line.opts : j < next
  BY <1>1, LineType DEF ParseInv
<1>3. Parse!Sound
  <2>1. Accepted = DOMAIN line.opts
    BY <1>2 DEF ParseInv, ReadSoFar, Accepted
  <2> QED
    BY <1>1, <2>1, SoundLine DEF ParseInv
<1>4. o.action = Parse!AskedAction
  <2> DEFINE S == {j \in Parse!Named("action") : line.opts[j].val \in Parse!Actions /\ j < next}
             T == {j \in Parse!Named("action") : line.opts[j].val \in Parse!Actions}
  <2>1. S = T
    BY <1>2 DEF Parse!Named
  <2>2. ActionAt[next] = Parse!LastOf(S, "keep") /\ Parse!AskedAction = Parse!LastOf(T, "keep")
    BY <1>1 DEF ActionAt, Parse!AskedAction
  <2> HIDE DEF S, T
  <2> QED
    BY <2>1, <2>2 DEF ParseInv, ReadSoFar
<1>5. Parse!AskedPorts = ListPorts(ListAt[next])
  <2> DEFINE S == {j \in Parse!Named("ports") : line.opts[j].val # <<>> /\ j < next}
             T == {j \in Parse!Named("ports") : line.opts[j].val # <<>>}
             d == <<<<1, Parse!MaxHubPorts>>>>
  <2>1. S = T
    BY <1>2 DEF Parse!Named
  <2>2. ListAt[next] = Parse!LastOf(S, d)
    BY <1>1 DEF ListAt
  <2>3. Parse!AskedPorts = ListPorts(Parse!LastOf(T, d))
    BY DEF Parse!AskedPorts, ListPorts
  <2> HIDE DEF S, T, d
  <2> QED
    BY <2>1, <2>2, <2>3
<1>6. ASSUME NEW name \in Words
      PROVE  o[name] = Parse!LastOf(Parse!Named(name), Parse!Defaults[name])
  <2> DEFINE S == {j \in Parse!Named(name) : j < next}
  <2>1. S = Parse!Named(name)
    BY <1>2 DEF Parse!Named
  <2>2. OptionAt[next][name] = Parse!LastOf(S, Parse!Defaults[name])
    BY <1>1 DEF OptionAt
  <2> HIDE DEF S
  <2>3. o[name] = OptionAt[next][name]
    BY DEF ParseInv, ReadSoFar
  <2> QED
    BY <2>1, <2>2, <2>3
<1> QED
  BY <1>3, <1>4, <1>5, <1>6

\* A command line is accepted exactly if nothing on it stops the program, and of
\* each option the last occurrence that says something counts: main()'s
\* getopt_long loop and ports2bitmap, for a command line of any length.
THEOREM OptionsReadSafe == Spec => []OptionsRead
<1>1. ASSUME ParseInv PROVE OptionsRead
  <2>1. ASSUME opc = "ready", find_pc = "scan", find_i = 1
        PROVE  /\ Parse!Sound /\ o.action = Parse!AskedAction /\ mask = Parse!AskedPorts
               /\ \A name \in Words : o[name] = Parse!LastOf(Parse!Named(name), Parse!Defaults[name])
    BY <1>1, <2>1, AllRead DEF ParseInv, ReadPorts
  <2>2. opc = "stop" => ~Parse!Sound
    BY <1>1 DEF ParseInv, Stopped
  <2> QED
    BY <2>1, <2>2 DEF OptionsRead, Parse!LastWins, Words
<1> QED
  BY <1>1, ParseHolds, PTL

(***************************************************************************)
(* The loop within the run                                                 *)
(***************************************************************************)
\* The loop rests until the search says "go", and where it switches a port it
\* has been asked to.
Control ==
    /\ repowers \in Nat /\ i \in Nat \ {0}
    /\ find_pc # "go" => pc \in {"phase", "done"}
    /\ pc \in {"port", "set", "transfer", "reset"} =>
          o.action # "keep" /\ i <= Len(hubs) /\ hubs[i].actionable # 0
    /\ pc \in {"set", "transfer"} => port \in mask
    /\ pc = "reset" => o.reset

LEMMA ControlStep ==
  ASSUME Control, Waiting, [Next]_vars
  PROVE  Control'
<1>1. CASE ReadOptions
  <2>1. find_pc # "go" /\ pc \in {"phase", "done"}
    BY <1>1 DEF ReadOptions, Control, Waiting, Parse!Next, Parse!SetAction, Parse!SetOption,
      Parse!SetPorts, Parse!NoEffect, Parse!BadPorts, Parse!Version, Parse!Usage, Parse!Stray,
      Parse!Ready, Parse!Take, Parse!Quit, Parse!AtOption, Parse!ArgsDone
  <2> QED
    BY <1>1, <2>1 DEF ReadOptions, loopVars, Control
<1>2. CASE FindHubs
  <2>1. find_pc # "go"
    BY <1>2 DEF FindHubs, Find!Next, Find!SkipDevice, Find!Unreadable, Find!NotSwitchable,
      Find!AddHub, Find!TooManyHubs, Find!ScanDone, Find!DualOf, Find!DualsDone, Find!Count,
      Find!AtDevice, Find!AtHub
  <2> QED
    BY <1>2, <2>1 DEF FindHubs, loopVars, argVars, Control
<1>3. CASE Refuse
  BY <1>3 DEF Refuse, argVars, findVars, Control
<1>4. CASE Operate
  <2>1. find_pc = "go" /\ UNCHANGED <<o, hubs, mask, find_pc>>
    BY <1>4 DEF Operate, argVars, findVars
  <2>2. opt.action = o.action /\ opt.reset = o.reset
    BY DEF opt
  <2>3. CASE \/ Loop!SkipPhase \/ Loop!StartPhase \/ Loop!Finish \/ Loop!EndPhase \/ Loop!Wake
             \/ Loop!SkipHub \/ Loop!OpenFails
    BY <2>1, <2>3 DEF Control, Loop!SkipPhase, Loop!StartPhase, Loop!Finish, Loop!EndPhase,
      Loop!Wake, Loop!SkipHub, Loop!OpenFails, Loop!AtHub, Loop!ghost
  <2>4. CASE Loop!OpenHub \/ Loop!PortsDone \/ Loop!ResetHub
    BY <2>1, <2>2, <2>4 DEF Control, Loop!OpenHub, Loop!PortsDone, Loop!ResetHub, Loop!AtHub,
      Loop!ghost
  <2>5. CASE Loop!SkipPort \/ Loop!SysfsWrite \/ Loop!FallBack \/ Loop!Transfer
             \/ Loop!TransfersDone
    BY <2>1, <2>5 DEF Control, Loop!SkipPort, Loop!SysfsWrite, Loop!FallBack, Loop!Transfer,
      Loop!TransfersDone, Loop!NextPort, Loop!AtPort, Loop!ghost
  <2>6. CASE Loop!ReadStatus
    <3>1. /\ pc = "port" /\ port \in mask /\ UNCHANGED <<i, repowers>>
          /\ (pc' = "set" /\ port' = port) \/ pc' = "port"
      BY <2>6 DEF Loop!ReadStatus, Loop!AtPort, Loop!InMask, Loop!NextPort
    <3> QED
      BY <2>1, <3>1 DEF Control
  <2> QED
    BY <1>4, <2>3, <2>4, <2>5, <2>6 DEF Operate, Loop!Run
<1>5. CASE Kernel
  <2>1. /\ UNCHANGED <<o, hubs, mask, find_pc, pc, i, port>>
        /\ repowers' = repowers + 1
    BY <1>5 DEF Kernel, argVars, findVars, Loop!KernelRepower
  <2> QED
    BY <2>1 DEF Control
<1>6. CASE UNCHANGED vars
  BY <1>6 DEF vars, argVars, findVars, loopVars, Control
<1> QED
  BY <1>1, <1>2, <1>3, <1>4, <1>5, <1>6 DEF Next

\* What a step of the run itself switches.
LEMMA Switches ==
  ASSUME Control, [Next]_vars, on' # on, repowers' = repowers
  PROVE  /\ find_pc = "go" /\ o.action # "keep"
         /\ \A c \in on \ on' : c[2] \in mask
         /\ ~o.reset => \A c \in on' \ on : c[2] \in mask
<1>1. Operate
  <2>1. ~UNCHANGED vars /\ ~ReadOptions /\ ~FindHubs /\ ~Refuse
    BY DEF vars, loopVars, ReadOptions, FindHubs, Refuse
  <2>2. ~Kernel
    <3>1. repowers + 1 # repowers
      BY DEF Control
    <3> QED
      BY <3>1 DEF Kernel, Loop!KernelRepower
  <2> QED
    BY <2>1, <2>2 DEF Next
<1>2. find_pc = "go" /\ opt.reset = o.reset
  BY <1>1 DEF Operate, opt
<1>3. Loop!SysfsWrite \/ Loop!Transfer \/ Loop!ResetHub
  BY <1>1 DEF Operate, Loop!Run, Loop!SkipPhase, Loop!StartPhase, Loop!Finish, Loop!EndPhase,
    Loop!Wake, Loop!SkipHub, Loop!OpenHub, Loop!OpenFails, Loop!PortsDone, Loop!SkipPort,
    Loop!ReadStatus, Loop!FallBack, Loop!TransfersDone, Loop!env
<1>4. CASE Loop!SysfsWrite \/ Loop!Transfer
  <2>1. on' \in {on, on \cup {Loop!Here}, on \ {Loop!Here}} /\ pc \in {"set", "transfer"}
    BY <1>4 DEF Loop!SysfsWrite, Loop!Transfer, Loop!Switched
  <2>2. Loop!Here[2] = port
    BY DEF Loop!Here, Loop!Cell
  <2> QED
    BY <1>2, <2>1, <2>2 DEF Control
<1>5. CASE Loop!ResetHub
  <2>1. pc = "reset" /\ on \subseteq on'
    BY <1>5 DEF Loop!ResetHub
  <2> QED
    BY <1>2, <2>1 DEF Control
<1> QED
  BY <1>3, <1>4, <1>5

LEMMA ControlHolds == Spec => []Control
<1>1. Init => Control
  BY DEF Init, Control
<1>2. Control /\ Waiting /\ [Next]_vars => Control'
  BY ControlStep
<1> QED
  BY <1>1, <1>2, ParseHolds, PTL DEF Spec

\* The run switches a port only if nothing on its command line stops the program,
\* only a port of the last list given, and only if the last action given is one:
\* from main()'s options to the transfers, whatever fails on the way.
THEOREM OnlyAsAskedSafe == Spec => OnlyAsAsked
<1>1. ASSUME ParseInv, Waiting, Control, [Next]_vars
      PROVE  [on' # on /\ repowers' = repowers =>
               /\ Parse!Sound /\ Parse!AskedAction # "keep"
               /\ \A c \in on \ on' : c[2] \in Parse!AskedPorts
               /\ ~o.reset => \A c \in on' \ on : c[2] \in Parse!AskedPorts]_vars
  <2> SUFFICES ASSUME on' # on, repowers' = repowers
               PROVE  /\ Parse!Sound /\ Parse!AskedAction # "keep"
                      /\ \A c \in on \ on' : c[2] \in Parse!AskedPorts
                      /\ ~o.reset => \A c \in on' \ on : c[2] \in Parse!AskedPorts
    OBVIOUS
  <2>1. /\ find_pc = "go" /\ o.action # "keep"
        /\ \A c \in on \ on' : c[2] \in mask
        /\ ~o.reset => \A c \in on' \ on : c[2] \in mask
    BY <1>1, Switches
  <2>2. opc = "ready"
    BY <1>1, <2>1 DEF Waiting
  <2>3. /\ Parse!Sound /\ o.action = Parse!AskedAction
        /\ Parse!AskedPorts = ListPorts(ListAt[next])
    BY <1>1, <2>2, AllRead
  <2>4. mask \subseteq Parse!AskedPorts
    BY <1>1, <2>2, <2>3 DEF ParseInv, ReadPorts
  <2> QED
    BY <2>1, <2>3, <2>4
<1> QED
  BY <1>1, ParseHolds, ControlHolds, PTL DEF Spec, OnlyAsAsked

(***************************************************************************)
(* The search within the run                                               *)
(***************************************************************************)
\* The instances count as this module does.
LEMMA SameCardinality ==
  ASSUME NEW S
  PROVE  FP!Cardinality(S) = Cardinality(S) /\ Find!Cardinality(S) = Cardinality(S)
BY DEF FP!Cardinality, Find!Cardinality, Cardinality, FP!IsFiniteSet, Find!IsFiniteSet, IsFiniteSet

\* What UhubDiscoveryProofs shows invariant of the search.
SearchInv == FP!IInv /\ FP!SInv /\ FP!FInv /\ FP!HInv

\* While the options are read the search is where it starts.
AtStart ==
    /\ devs \in UsbTrees
    /\ hubs = <<>> /\ mask \subseteq 1..14
    /\ perm_ok = TRUE /\ overrun = FALSE
    /\ find_pc = "scan" /\ find_i = 1 /\ phys_count = 0

\* ... and with any options its invariant holds there.
LEMMA StartInv ==
  ASSUME AtStart
  PROVE  SearchInv
<1>1. FP!DevsOK
  BY TreesAssumption DEF AtStart, FP!DevsOK
<1>2. /\ hubs = <<>> /\ hubs \in Seq(FP!Info) /\ Len(hubs) = 0 /\ DOMAIN hubs = {}
      /\ find_pc = "scan" /\ find_i = 1 /\ overrun = FALSE
  BY DEF AtStart
<1>3. FP!TableOK
  BY <1>2, BoundsAssumption DEF FP!TableOK
<1>4. FP!LocalsOK
  <2>1. mask \subseteq f.ports
    BY DEF AtStart, f
  <2>2. perm_ok \in BOOLEAN /\ overrun \in BOOLEAN
    BY Zenon DEF AtStart
  <2>3. find_pc = "scan" /\ find_i \in Nat \ {0} /\ phys_count \in Nat
    BY DEF AtStart
  <2> QED
    BY <2>1, <2>2, <2>3 DEF FP!LocalsOK
<1>5. FP!Behind /\ FP!Ordered /\ FP!Spoken /\ FP!DerivedJustified /\ FP!DualPass
  BY <1>2 DEF FP!Behind, FP!Ordered, FP!Spoken, FP!DerivedJustified, FP!DualPass
<1>6. FP!SInv
  <2>1. FP!Eligible \subseteq Nat \ {0} /\ FP!Answering \subseteq Nat \ {0}
    BY <1>1 DEF FP!DevsOK, FP!Eligible, FP!Answering, FP!Silent
  <2>2. {n \in FP!Eligible : n < 1} = {} /\ \A n \in FP!Answering : ~(n < 1)
    <3>1. \A n \in Nat \ {0} : ~(n < 1)
      OBVIOUS
    <3> QED
      BY <2>1, <3>1
  <2>3. FP!Cardinality({n \in FP!Eligible : n < find_i}) = 0
    <3> DEFINE S == {n \in FP!Eligible : n < find_i}
    <3>1. S = {}
      BY <1>2, <2>2
    <3> HIDE DEF S
    <3>2. Cardinality(S) = 0
      BY <3>1, FS_EmptySet
    <3>3. FP!Cardinality(S) = 0
      BY <3>2, SameCardinality
    <3> QED
      BY <3>3 DEF S
  <2> QED
    BY <1>2, <2>2, <2>3 DEF FP!SInv, FP!Counting, FP!Crowded, FP!Kept
<1>7. FP!FInv
  BY <1>2 DEF FP!FInv, FP!Faithful, FP!Hits, FP!Counts
<1>8. FP!HInv
  BY <1>2 DEF FP!HInv, FP!NoneYet, FP!Derived, FP!BothSeen
<1> QED
  BY <1>1, <1>3, <1>4, <1>5, <1>6, <1>7, <1>8 DEF SearchInv, FP!IInv

\* The search that the theorems are about is the one the run performs.
LEMMA SameSearch == ASSUME Find!Next PROVE FP!Next
<1>1. ASSUME NEW n PROVE FP!HubInfo(n) = Find!HubInfo(n)
  BY DEF FP!HubInfo, Find!HubInfo, FP!Zeroed, Find!Zeroed, FP!Filled, Find!Filled,
    FP!SuperSpeed, Find!SuperSpeed, FP!Lpsm, Find!Lpsm, FP!ContainerId, Find!ContainerId,
    FP!RootHub3, Find!RootHub3, FP!RPi4Hub, Find!RPi4Hub, FP!RPi4Cid, Find!RPi4Cid
<1>2. ASSUME NEW info PROVE FP!SearchHit(info) = Find!SearchHit(info)
  BY DEF FP!SearchHit, Find!SearchHit, FP!SearchEnds, Find!SearchEnds, FP!IsChild, Find!IsChild
<1>3. ASSUME NEW info
      PROVE  /\ FP!Entry(info) = Find!Entry(info)
             /\ FP!Narrowed(info) = Find!Narrowed(info)
             /\ FP!Switchable(info) = Find!Switchable(info)
  <2>1. FP!Chosen(info) = Find!Chosen(info)
    BY <1>2 DEF FP!Chosen, Find!Chosen
  <2>2. FP!Narrowed(info) = Find!Narrowed(info)
    BY <1>2 DEF FP!Narrowed, Find!Narrowed, FP!HitPorts, Find!HitPorts
  <2> QED
    BY <2>1, <2>2 DEF FP!Entry, Find!Entry, FP!Switchable, Find!Switchable
<1>4. ASSUME NEW a PROVE FP!BestMatches(a) = Find!BestMatches(a)
  <2>1. ASSUME NEW b PROVE FP!Candidate(a, b) = Find!Candidate(a, b)
    BY DEF FP!Candidate, Find!Candidate
  <2>2. ASSUME NEW b PROVE FP!Score(a, b) = Find!Score(a, b)
    BY DEF FP!Score, Find!Score
  <2> QED
    BY <2>1, <2>2 DEF FP!BestMatches, Find!BestMatches
<1>5. FP!AtHub = Find!AtHub /\ FP!AtDevice = Find!AtDevice
  BY DEF FP!AtHub, Find!AtHub, FP!AtDevice, Find!AtDevice, FP!Readable, Find!Readable
<1>6. Find!SkipDevice => FP!SkipDevice
  BY <1>5 DEF FP!SkipDevice, Find!SkipDevice
<1>7. Find!Unreadable => FP!Unreadable
  BY <1>5 DEF FP!Unreadable, Find!Unreadable, FP!Readable, Find!Readable
<1>8. Find!NotSwitchable => FP!NotSwitchable
  BY <1>1, <1>3, <1>5 DEF FP!NotSwitchable, Find!NotSwitchable
<1>9. Find!AddHub => FP!AddHub
  BY <1>1, <1>3, <1>5 DEF FP!AddHub, Find!AddHub, FP!Room, Find!Room
<1>10. Find!TooManyHubs => FP!TooManyHubs
  BY <1>1, <1>3, <1>5 DEF FP!TooManyHubs, Find!TooManyHubs, FP!Room, Find!Room
<1>11. Find!ScanDone => FP!ScanDone
  BY DEF FP!ScanDone, Find!ScanDone
<1>12. Find!DualOf => FP!DualOf
  BY <1>4 DEF FP!DualOf, Find!DualOf, FP!HasDualRule, Find!HasDualRule
<1>13. Find!DualsDone => FP!DualsDone
  BY DEF FP!DualsDone, Find!DualsDone
<1>14. Find!Count => FP!Count
  <2> DEFINE S == {j \in DOMAIN hubs : FP!Counted(hubs[j])}
  <2>1. \A h : FP!Counted(h) <=> Find!Counted(h)
    BY DEF FP!Counted, Find!Counted
  <2>2. S = {j \in DOMAIN hubs : Find!Counted(hubs[j])}
    BY <2>1
  <2> HIDE DEF S
  <2>3. Find!Cardinality(S) = FP!Cardinality(S)
    BY SameCardinality
  <2> SUFFICES ASSUME Find!Count PROVE FP!Count
    OBVIOUS
  <2>4. phys_count' = FP!Cardinality(S)
    BY <2>2, <2>3 DEF Find!Count
  <2> QED
    BY <2>4 DEF FP!Count, Find!Count, S
<1> QED
  BY <1>6, <1>7, <1>8, <1>9, <1>10, <1>11, <1>12, <1>13, <1>14 DEF FP!Next, Find!Next

Start == find_pc = "scan" /\ find_i = 1 => AtStart

LEMMA StartStep == ParseInv /\ ParseInv' /\ Waiting /\ Start /\ [Next]_vars => Start'
<1> SUFFICES ASSUME ParseInv, ParseInv', Waiting, Start, [Next]_vars PROVE Start'
  OBVIOUS
<1>1. CASE ReadOptions
  <2>1. Parse!Next /\ UNCHANGED <<devs, hubs, perm_ok, overrun, find_pc, find_i, phys_count>>
    BY <1>1 DEF ReadOptions
  <2>2. opc # "ready"
    BY <2>1 DEF Parse!Next, Parse!SetAction, Parse!SetOption, Parse!SetPorts, Parse!NoEffect,
      Parse!BadPorts, Parse!Version, Parse!Usage, Parse!Stray, Parse!Ready, Parse!Take,
      Parse!Quit, Parse!AtOption, Parse!ArgsDone
  <2>3. AtStart
    BY <2>2 DEF Waiting, Start
  <2>4. mask' = mask \/ opc' \in {"args", "ready"}
    BY <2>1 DEF Parse!Next, Parse!SetAction, Parse!SetOption, Parse!SetPorts, Parse!NoEffect,
      Parse!BadPorts, Parse!Version, Parse!Usage, Parse!Stray, Parse!Ready, Parse!Take,
      Parse!Quit, Parse!AtOption, Parse!ArgsDone
  <2>5. opc' \in {"args", "ready"} => mask' \subseteq 1..14
    BY DEF ParseInv, ReadPorts, ListPorts, Parse!AllHubPorts, Parse!MaxHubPorts
  <2>6. mask' \subseteq 1..14
    BY <2>3, <2>4, <2>5 DEF AtStart
  <2> QED
    BY <2>1, <2>3, <2>6 DEF Start, AtStart
<1>2. CASE FindHubs
  BY <1>2, SearchNarrows DEF FindHubs, Start
<1>3. CASE UNCHANGED findVars
  BY <1>3 DEF findVars, Start, AtStart
<1> QED
  BY <1>1, <1>2, <1>3 DEF Next, Refuse, Operate, Kernel, vars

LEMMA SearchStep ==
  SearchInv /\ Waiting /\ Start' /\ (AtStart => SearchInv)' /\ [Next]_vars => SearchInv'
<1> SUFFICES ASSUME SearchInv, Waiting, Start', AtStart' => SearchInv', [Next]_vars
             PROVE  SearchInv'
  OBVIOUS
<1>1. CASE ReadOptions
  <2>1. opc # "ready" /\ UNCHANGED <<find_pc, find_i>>
    BY <1>1 DEF ReadOptions, Parse!Next, Parse!SetAction, Parse!SetOption, Parse!SetPorts,
      Parse!NoEffect, Parse!BadPorts, Parse!Version, Parse!Usage, Parse!Stray, Parse!Ready,
      Parse!Take, Parse!Quit, Parse!AtOption, Parse!ArgsDone
  <2> QED
    BY <2>1 DEF Waiting, Start
<1>2. ASSUME [FP!Next]_FP!vars PROVE SearchInv'
  <2>1. FP!IInv'
    BY <1>2, FP!NextInv, BoundsAssumption, TreesAssumption DEF SearchInv
  <2>2. FP!SInv'
    BY <1>2, FP!SStep, BoundsAssumption, TreesAssumption DEF SearchInv
  <2>3. FP!FInv'
    BY <1>2, FP!FStep, BoundsAssumption, TreesAssumption DEF SearchInv
  <2>4. FP!HInv'
    BY <1>2, FP!HStep, BoundsAssumption, TreesAssumption DEF SearchInv
  <2> QED
    BY <2>1, <2>2, <2>3, <2>4 DEF SearchInv
<1>3. CASE FindHubs
  BY <1>2, <1>3, SameSearch DEF FindHubs
<1>4. CASE UNCHANGED <<argVars, findVars>>
  <2>1. UNCHANGED FP!vars
    BY <1>4 DEF argVars, findVars, FP!vars, f
  <2> QED
    BY <1>2, <2>1
<1> QED
  BY <1>1, <1>3, <1>4 DEF Next, Refuse, Operate, Kernel, vars

LEMMA SearchHolds == Spec => []SearchInv
<1>1. Init => AtStart
  BY DEF Init, Parse!Init, AtStart, Parse!AllHubPorts, Parse!MaxHubPorts
<1>2. AtStart => Start /\ SearchInv
  BY StartInv DEF Start
<1> QED
  BY <1>1, <1>2, StartStep, SearchStep, ParseHolds, PTL DEF Spec

\* The hubs can be told apart, whichever of them the options let in.
TellApart == opc = "ready" => FP!Distinguishable /\ FP!Usb2HalfThere

\* Power is taken only from the port that the loop is at.
LEMMA Darkens ==
  ASSUME Control, [Next]_vars, NEW c \in on \ on'
  PROVE  /\ find_pc = "go" /\ pc \in {"set", "transfer"} /\ c = Loop!Here
         /\ i <= Len(hubs) /\ hubs[i].actionable # 0 /\ o.action # "keep"
<1>1. ~Kernel
  BY DEF Kernel, Loop!KernelRepower
<1>2. Operate
  BY <1>1 DEF Next, vars, loopVars, ReadOptions, FindHubs, Refuse
<1>3. Loop!SysfsWrite \/ Loop!Transfer
  BY <1>2 DEF Operate, Loop!Run, Loop!SkipPhase, Loop!StartPhase, Loop!Finish, Loop!EndPhase,
    Loop!Wake, Loop!SkipHub, Loop!OpenHub, Loop!OpenFails, Loop!PortsDone, Loop!SkipPort,
    Loop!ReadStatus, Loop!FallBack, Loop!TransfersDone, Loop!ResetHub, Loop!env
<1>4. on' \in {on, on \cup {Loop!Here}, on \ {Loop!Here}} /\ pc \in {"set", "transfer"}
  BY <1>3 DEF Loop!SysfsWrite, Loop!Transfer, Loop!Switched
<1> QED
  BY <1>2, <1>4 DEF Operate, Control

\* When the loop runs for hubs that can be told apart, all it operates on are
\* parts of one physical hub, one that the filters chose.
LEMMA OneChosen ==
  ASSUME SearchInv, TellApart, Waiting, find_pc = "go", o.action # "keep"
  PROVE  /\ Cardinality(ChosenPhys) = 1
         /\ \A h \in DOMAIN hubs :
               hubs[h].actionable # 0 => devs[hubs[h].dev].phys \in ChosenPhys
<1>1. opc = "ready"
  BY DEF Waiting
<1>2. FP!OneHub
  <2>1. FP!TableSuffices
    BY FP!TableInv, BoundsAssumption, TreesAssumption DEF SearchInv
  <2> QED
    BY <1>1, <2>1, FP!OneHubInv, BoundsAssumption, TreesAssumption DEF SearchInv, TellApart
<1>3. PICK g \in DOMAIN hubs : hubs[g].actionable = 1
  BY FP!SomeChosen, BoundsAssumption, TreesAssumption DEF SearchInv
<1>4. ASSUME NEW h \in DOMAIN hubs, hubs[h].actionable # 0
      PROVE  devs[hubs[h].dev].phys = devs[hubs[g].dev].phys
  <2>1. FP!Phys(hubs[h]) = FP!Phys(hubs[g])
    BY <1>2, <1>3, <1>4 DEF FP!OneHub, FP!Acted, f
  <2>2. ASSUME NEW x \in DOMAIN hubs, hubs[x].dev # 0 PROVE devs[hubs[x].dev].phys # None
    <3>1. hubs[x].dev \in DOMAIN devs
      BY <2>2 DEF SearchInv, FP!FInv, FP!Faithful, FP!Answering
    <3> QED
      BY <1>1, <3>1 DEF TellApart, FP!Distinguishable, FP!Fitting
  <2> QED
    BY <2>1, <2>2 DEF FP!Phys
<1>5. ChosenPhys = {devs[hubs[g].dev].phys}
  BY <1>3, <1>4 DEF ChosenPhys
<1>6. Cardinality(ChosenPhys) = 1
  BY <1>5, FS_Singleton
<1> QED
  BY <1>4, <1>5, <1>6

\* A run never takes power from another physical hub than the one the filters
\* chose: from the options through the search and the dual pass to the last
\* transfer, in every tree whose hubs can be told apart.
THEOREM BystandersSafe == Spec /\ []TellApart => BystandersKeepPower
<1>1. ASSUME SearchInv, Control, Waiting, TellApart, [Next]_vars
      PROVE  [\A c \in on \ on' :
                 devs[c[1]].phys \in ChosenPhys /\ Cardinality(ChosenPhys) = 1]_vars
  <2> SUFFICES ASSUME NEW c \in on \ on'
               PROVE  devs[c[1]].phys \in ChosenPhys /\ Cardinality(ChosenPhys) = 1
    OBVIOUS
  <2>1. /\ find_pc = "go" /\ c = Loop!Here
        /\ i <= Len(hubs) /\ hubs[i].actionable # 0 /\ o.action # "keep"
    BY <1>1, Darkens
  <2>2. i \in DOMAIN hubs
    BY <1>1, <2>1 DEF Control, SearchInv, FP!IInv, FP!TableOK
  <2>3. c[1] = hubs[i].dev
    BY <2>1 DEF Loop!Here, Loop!Cell
  <2> QED
    BY <1>1, <2>1, <2>2, <2>3, OneChosen
<1> QED
  BY <1>1, SearchHolds, ControlHolds, ParseHolds, PTL DEF Spec, BystandersKeepPower

(***************************************************************************)
(* What the loop is given                                                  *)
(***************************************************************************)
OptionType ==
    /\ o.action \in {"keep", "off", "on", "cycle", "toggle"} /\ o.repeat \in Int
    /\ o.reset \in BOOLEAN /\ o.nosysfs \in BOOLEAN

LEMMA OptionTypeStep == ParseInv /\ OptionType /\ [Next]_vars => OptionType'
<1> SUFFICES ASSUME ParseInv, OptionType, [Next]_vars PROVE OptionType'
  OBVIOUS
<1>1. CASE o' = o
  BY <1>1 DEF OptionType
<1>2. CASE ReadOptions /\ o' # o
  <2>1. Parse!SetAction \/ Parse!SetOption
    BY <1>2 DEF ReadOptions, Parse!Next, Parse!SetPorts, Parse!NoEffect, Parse!BadPorts,
      Parse!Version, Parse!Usage, Parse!Stray, Parse!Ready, Parse!Quit
  <2>2. opc = "args" /\ next <= Len(line.opts)
    BY <2>1 DEF Parse!SetAction, Parse!SetOption, Parse!Take, Parse!AtOption
  <2>3. next \in DOMAIN line.opts
    BY <2>2, LineType DEF ParseInv, ReadSoFar, Positions
  <2>4. DOMAIN o = DOMAIN Parse!Defaults
    BY <2>2 DEF ParseInv, ReadSoFar
  <2> DEFINE x == line.opts[next]
  <2>5. Parse!Opt = x
    BY DEF Parse!Opt
  <2>6. /\ x.name \in {"reset", "nosysfs"} => x.val \in BOOLEAN
        /\ x.name = "repeat" => x.val \in Int
    BY <2>3, LinesAssumption DEF ParseInv, LineOK
  <2> HIDE DEF x
  <2>7. {"action", "repeat", "reset", "nosysfs"} \subseteq DOMAIN o
    BY <2>4 DEF Parse!Defaults
  <2>8. CASE Parse!SetAction
    <3>1. o' = [o EXCEPT !.action = x.val] /\ x.val \in {"off", "on", "cycle", "toggle"}
      BY <1>2, <2>5, <2>8 DEF Parse!SetAction, Parse!Actions
    <3> QED
      BY <2>7, <3>1 DEF OptionType
  <2>9. CASE Parse!SetOption
    <3>1. o' = [o EXCEPT ![x.name] = x.val] /\ x.name # "action"
      BY <2>5, <2>9 DEF Parse!SetOption
    <3>2. o'.action = o.action
      BY <2>7, <3>1
    <3>3. /\ o'.repeat = IF x.name = "repeat" THEN x.val ELSE o.repeat
          /\ o'.reset = IF x.name = "reset" THEN x.val ELSE o.reset
          /\ o'.nosysfs = IF x.name = "nosysfs" THEN x.val ELSE o.nosysfs
      BY <2>7, <3>1
    <3>4. o'.reset \in BOOLEAN /\ o'.nosysfs \in BOOLEAN
      BY Zenon, <2>6, <3>3 DEF OptionType
    <3> QED
      BY <2>6, <3>2, <3>3, <3>4 DEF OptionType
  <2> QED
    BY <2>1, <2>8, <2>9
<1> QED
  BY <1>1, <1>2 DEF Next, FindHubs, Refuse, Operate, Kernel, vars, argVars

\* What the search leaves is what the loop is made for.
LEMMA TableType ==
  ASSUME SearchInv, devs \in UsbTrees
  PROVE  /\ hubs \in Seq(FP!Info) /\ DOMAIN hubs = 1 .. Len(hubs) /\ Len(hubs) \in Nat
         /\ Table \in Seq(LP!Hub) /\ DOMAIN Table = DOMAIN hubs /\ Len(Table) = Len(hubs)
         /\ mask \subseteq Nat
<1>1. hubs \in Seq(FP!Info) /\ DOMAIN hubs = 1 .. Len(hubs) /\ Len(hubs) \in Nat
  BY DEF SearchInv, FP!IInv, FP!TableOK
<1>2. ASSUME NEW h \in DOMAIN hubs
      PROVE  hubs[h].dev \in Nat /\ hubs[h].nports \in Nat /\ hubs[h].actionable \in 0..2
  <2>1. hubs[h] \in FP!Info /\ Len(devs) \in Nat
    BY <1>1, TreesAssumption
  <2>2. hubs[h].dev \in 0 .. Len(devs) /\ hubs[h].actionable \in 0..2
    BY <2>1 DEF FP!Info
  <2>3. CASE hubs[h].dev = 0
    <3>1. hubs[h].nports = 0
      BY <2>3 DEF SearchInv, FP!FInv, FP!Faithful
    <3> QED
      BY <2>2, <3>1
  <2>4. CASE hubs[h].dev # 0
    <3>1. /\ hubs[h].dev \in FP!Answering
          /\ hubs[h].nports = FP!Described[hubs[h].dev].nports
      BY <2>4 DEF SearchInv, FP!FInv, FP!Faithful, FP!Alike
    <3>2. hubs[h].dev \in DOMAIN devs /\ devs[hubs[h].dev].hub
      BY <3>1 DEF FP!Answering
    <3>3. hubs[h].nports = devs[hubs[h].dev].nports
      BY <3>1, <3>2 DEF FP!Described, FP!Filled
    <3> QED
      BY <2>2, <3>2, <3>3, TreesAssumption
  <2> QED
    BY <2>3, <2>4
<1>3. \A h \in 1 .. Len(hubs) : Table[h] \in LP!Hub
  BY <1>1, <1>2 DEF Table, LP!Hub
<1>4. Table \in Seq(LP!Hub) /\ DOMAIN Table = DOMAIN hubs /\ Len(Table) = Len(hubs)
  <2>1. Table = [h \in 1 .. Len(hubs) |-> Table[h]]
    BY <1>1 DEF Table
  <2> QED
    BY <1>1, <1>3, <2>1
<1>5. mask \subseteq Nat
  BY DEF SearchInv, FP!IInv, FP!LocalsOK, f
<1> QED
  BY <1>1, <1>4, <1>5

\* The loop as the search finds it.
Rest ==
    /\ pc = "phase" /\ k = 0 /\ i = 1 /\ port = 1
    /\ should_be_on = FALSE /\ left = 0 /\ sent = FALSE /\ exit = -1 /\ missed = {}
    /\ on0 \subseteq Nat \X Nat /\ on \subseteq Nat \X Nat /\ blocked \subseteq Nat \X Nat
    /\ repowered \subseteq Nat \X Nat /\ repowers \in 0 .. MaxRepower

\* ... satisfies the invariant of UhubPowerProofs.
LEMMA RestInv ==
  ASSUME SearchInv, devs \in UsbTrees, OptionType, Rest
  PROVE  LP!Inv
<1>1. LP!InputOK
  <2>1. opt \in LP!Option
    BY DEF OptionType, opt, LP!Option, LP!Actions
  <2> QED
    BY <2>1, TableType DEF LP!InputOK
<1>2. LP!CellsOK
  BY DEF Rest, LP!CellsOK
<1>3. LP!LocalsOK
  <2>1. should_be_on \in BOOLEAN /\ sent \in BOOLEAN
    BY Zenon DEF Rest
  <2>2. /\ pc = "phase" /\ k \in 0..2 /\ i \in Nat /\ port \in Nat /\ left \in Int
        /\ exit \in {-1, 0} /\ repowers \in 0 .. MaxRepower
    BY DEF Rest
  <2> QED
    BY <2>1, <2>2 DEF LP!LocalsOK
<1>4. LP!ControlOK
  BY DEF Rest, LP!ControlOK, LP!InHub
<1>5. LP!SentOK
  BY DEF Rest, LP!SentOK
<1>6. LP!OffSoFar /\ LP!OnSoFar
  BY DEF Rest, LP!OffSoFar, LP!OnSoFar, LP!PassedOff, LP!PassedOn, LP!Passed, LP!InHub
<1> QED
  BY <1>1, <1>2, <1>3, <1>4, <1>5, <1>6 DEF LP!Inv, LP!TypeOK

\* The loop that the theorems are about is the one the run performs.
LEMMA SameLoop ==
  ASSUME SearchInv, devs \in UsbTrees, Control, hubs' = hubs
  PROVE  /\ Loop!Run => LP!Run
         /\ Loop!KernelRepower => LP!KernelRepower
<1>1. /\ DOMAIN hubs = 1 .. Len(hubs) /\ Len(hubs) \in Nat
      /\ DOMAIN Table = DOMAIN hubs /\ Len(Table) = Len(hubs)
  BY TableType
<1>2. Table' = Table
  BY DEF Table
<1>3. \A h \in DOMAIN hubs :
        /\ Table[h].dev = hubs[h].dev /\ Table[h].nports = hubs[h].nports
        /\ Table[h].actionable = hubs[h].actionable
  BY DEF Table
<1>4. Loop!input' = Loop!input => LP!input' = LP!input
  BY <1>2 DEF Loop!input, LP!input
<1>5. LP!env = Loop!env /\ LP!ghost = Loop!ghost
  BY DEF Loop!env, LP!env, Loop!ghost, LP!ghost
<1>6. LP!env' = Loop!env' /\ LP!ghost' = Loop!ghost'
  BY DEF Loop!env, LP!env, Loop!ghost, LP!ghost
<1>7. pc = "hub" /\ i <= Len(hubs) => i \in DOMAIN hubs
  BY <1>1 DEF Control
<1>8. pc \in {"port", "set", "transfer", "reset"} => i \in DOMAIN hubs
  BY <1>1 DEF Control
<1>9. ASSUME NEW h \in DOMAIN hubs
      PROVE  /\ LP!Selected(h) = Loop!Selected(h) /\ LP!HubCells(h) = Loop!HubCells(h)
             /\ \A p : LP!Cell(h, p) = Loop!Cell(h, p)
  BY <1>3 DEF LP!Selected, Loop!Selected, LP!HubCells, Loop!HubCells, LP!Cell, Loop!Cell,
    LP!PortsOf, Loop!PortsOf
<1>10. LP!AllCells = Loop!AllCells
  BY <1>1, <1>9 DEF LP!AllCells, Loop!AllCells
<1>11. i \in DOMAIN hubs => LP!Here = Loop!Here
  BY <1>9 DEF LP!Here, Loop!Here
<1>12. (Loop!AtHub => LP!AtHub) /\ (Loop!AtPort => LP!AtPort)
  BY <1>1, <1>3, <1>7, <1>8 DEF Loop!AtHub, LP!AtHub, Loop!AtPort, LP!AtPort
<1>a. Loop!SkipPhase => LP!SkipPhase
  BY <1>4, <1>5, <1>6 DEF Loop!SkipPhase, LP!SkipPhase, Loop!PhaseSkipped, LP!PhaseSkipped
<1>b. Loop!StartPhase => LP!StartPhase
  BY <1>4, <1>5, <1>6 DEF Loop!StartPhase, LP!StartPhase, Loop!PhaseSkipped, LP!PhaseSkipped
<1>c. Loop!Finish => LP!Finish
  BY <1>4, <1>5, <1>6 DEF Loop!Finish, LP!Finish, Loop!ExitCode, LP!ExitCode
<1>d. Loop!EndPhase => LP!EndPhase
  BY <1>1, <1>4, <1>5, <1>6 DEF Loop!EndPhase, LP!EndPhase
<1>e. Loop!Wake => LP!Wake
  BY <1>4, <1>5, <1>6 DEF Loop!Wake, LP!Wake, Loop!AfterSleep, LP!AfterSleep
<1>f. Loop!SkipHub => LP!SkipHub
  BY <1>1, <1>3, <1>4, <1>5, <1>6, <1>7 DEF Loop!SkipHub, LP!SkipHub
<1>g. Loop!OpenHub => LP!OpenHub
  BY <1>4, <1>5, <1>6, <1>12 DEF Loop!OpenHub, LP!OpenHub, Loop!WantedIn, LP!WantedIn
<1>h. Loop!OpenFails => LP!OpenFails
  <2> SUFFICES ASSUME Loop!OpenFails PROVE LP!OpenFails
    OBVIOUS
  <2>1. i \in DOMAIN hubs /\ Loop!AtHub
    BY <1>7 DEF Loop!OpenFails, Loop!AtHub
  <2>2. LP!Selected(i) = Loop!Selected(i) /\ Table[i].dev = hubs[i].dev
    BY <1>3, <1>9, <2>1
  <2> QED
    BY <1>4, <1>5, <1>6, <1>12, <2>1, <2>2 DEF Loop!OpenFails, LP!OpenFails
<1>i. Loop!PortsDone => LP!PortsDone
  BY <1>3, <1>4, <1>5, <1>6, <1>8 DEF Loop!PortsDone, LP!PortsDone
<1>j. Loop!ResetHub => LP!ResetHub
  BY <1>4, <1>5, <1>6, <1>8, <1>9 DEF Loop!ResetHub, LP!ResetHub
<1>k. Loop!SkipPort => LP!SkipPort
  BY <1>4, <1>5, <1>6, <1>12 DEF Loop!SkipPort, LP!SkipPort, Loop!InMask, LP!InMask,
    Loop!NextPort, LP!NextPort
<1>l. Loop!ReadStatus => LP!ReadStatus
  <2> SUFFICES ASSUME Loop!ReadStatus PROVE LP!ReadStatus
    OBVIOUS
  <2>1. i \in DOMAIN hubs /\ Loop!AtPort
    BY <1>8 DEF Loop!ReadStatus, Loop!AtPort
  <2>2. LP!Here = Loop!Here /\ Table[i].dev = hubs[i].dev
    BY <1>3, <1>11, <2>1
  <2> QED
    BY <1>4, <1>5, <1>6, <1>12, <2>1, <2>2 DEF Loop!ReadStatus, LP!ReadStatus, Loop!InMask,
      LP!InMask, Loop!ReadsOn, LP!ReadsOn, Loop!NextPort, LP!NextPort
<1>m. Loop!SysfsWrite => LP!SysfsWrite
  BY <1>4, <1>5, <1>6, <1>8, <1>11 DEF Loop!SysfsWrite, LP!SysfsWrite, Loop!Switched,
    LP!Switched, Loop!NextPort, LP!NextPort
<1>n. Loop!FallBack => LP!FallBack
  BY <1>4, <1>5, <1>6 DEF Loop!FallBack, LP!FallBack
<1>o. Loop!Transfer => LP!Transfer
  BY <1>4, <1>5, <1>6, <1>8, <1>11 DEF Loop!Transfer, LP!Transfer, Loop!Switched, LP!Switched
<1>p. Loop!TransfersDone => LP!TransfersDone
  BY <1>3, <1>4, <1>5, <1>6, <1>8 DEF Loop!TransfersDone, LP!TransfersDone, Loop!NextPort,
    LP!NextPort
<1>q. Loop!KernelRepower => LP!KernelRepower
  BY <1>4, <1>10 DEF Loop!KernelRepower, LP!KernelRepower
<1> QED
  BY <1>a, <1>b, <1>c, <1>d, <1>e, <1>f, <1>g, <1>h, <1>i, <1>j, <1>k, <1>l, <1>m, <1>n, <1>o,
     <1>p, <1>q DEF Loop!Run, LP!Run

\* The loop is as at its start until the search is over; from then on its
\* invariant holds.  Exit code 0 is the loop's, or that of "uhubctl -v".
Begun == find_pc \in {"scan", "dual", "count"} /\ opc # "stop" => Rest
Going == find_pc = "go" => LP!Inv
Ended == exit = 0 => opc = "stop" \/ (find_pc = "go" /\ pc = "done")

LEMMA TreeKept == [Next]_vars => devs' = devs
<1> SUFFICES ASSUME [Next]_vars PROVE devs' = devs
  OBVIOUS
<1>1. CASE FindHubs
  BY <1>1 DEF FindHubs, Find!Next, Find!SkipDevice, Find!Unreadable, Find!NotSwitchable,
    Find!AddHub, Find!TooManyHubs, Find!ScanDone, Find!DualOf, Find!DualsDone, Find!Count
<1> QED
  BY <1>1 DEF Next, ReadOptions, Refuse, Operate, Kernel, vars, findVars

\* Only while it is under way does the search take a step.
LEMMA Searching == FindHubs => opc = "ready" /\ find_pc \in {"scan", "dual", "count"}
BY DEF FindHubs, Find!Next, Find!SkipDevice, Find!Unreadable, Find!NotSwitchable,
  Find!AddHub, Find!TooManyHubs, Find!ScanDone, Find!DualOf, Find!DualsDone, Find!Count,
  Find!AtDevice, Find!AtHub

LEMMA Reading ==
  ReadOptions => /\ opc = "args"
                 /\ exit' = exit \/ opc' = "stop"
BY DEF ReadOptions, Parse!Next, Parse!SetAction, Parse!SetOption, Parse!SetPorts,
  Parse!NoEffect, Parse!BadPorts, Parse!Version, Parse!Usage, Parse!Stray, Parse!Ready,
  Parse!Take, Parse!Quit, Parse!AtOption, Parse!ArgsDone

LEMMA RestStep ==
  ASSUME Rest, SearchInv, devs \in UsbTrees, Kernel \/ UNCHANGED <<loopVars, exit>>
  PROVE  Rest'
<1>1. CASE UNCHANGED <<loopVars, exit>>
  BY <1>1 DEF loopVars, Rest
<1>2. CASE Kernel
  <2>1. LP!AllCells \subseteq Nat \X Nat
    BY TableType, LP!AllCellsType, BoundsAssumption
  <2>2. Loop!AllCells = LP!AllCells
    <3>1. DOMAIN Table = DOMAIN hubs
      BY TableType
    <3>2. \A h \in DOMAIN hubs : Loop!HubCells(h) = LP!HubCells(h)
      BY DEF Table, Loop!HubCells, LP!HubCells, Loop!Cell, LP!Cell, Loop!PortsOf, LP!PortsOf
    <3> QED
      BY <3>1, <3>2 DEF Loop!AllCells, LP!AllCells
  <2>3. PICK c \in Loop!AllCells : on' = on \cup {c} /\ repowered' = repowered \cup {c}
    BY <1>2 DEF Kernel, Loop!KernelRepower
  <2>4. /\ repowers < MaxRepower /\ repowers' = repowers + 1
        /\ UNCHANGED <<on0, blocked, pc, k, i, port, should_be_on, left, sent, exit, missed>>
    BY <1>2 DEF Kernel, Loop!KernelRepower, Loop!input
  <2>5. repowers' \in 0 .. MaxRepower
    BY <2>4, BoundsAssumption DEF Rest
  <2>6. on' \subseteq Nat \X Nat /\ repowered' \subseteq Nat \X Nat
    BY <2>1, <2>2, <2>3 DEF Rest
  <2> QED
    BY <2>4, <2>5, <2>6 DEF Rest
<1> QED
  BY <1>1, <1>2

LEMMA BegunStep ==
  ASSUME Begun, SearchInv, devs \in UsbTrees, [Next]_vars
  PROVE  Begun'
<1> SUFFICES ASSUME find_pc' \in {"scan", "dual", "count"}, opc' # "stop" PROVE Rest'
  BY DEF Begun
<1>1. CASE ReadOptions
  BY <1>1, Reading, RestStep DEF ReadOptions, Begun
<1>2. CASE FindHubs
  BY <1>2, Searching, RestStep DEF FindHubs, Begun
<1>3. CASE Refuse \/ Operate
  BY <1>3 DEF Refuse, Operate, findVars
<1>4. CASE Kernel
  BY <1>4, RestStep DEF Kernel, argVars, findVars, Begun
<1>5. CASE UNCHANGED vars
  BY <1>5, RestStep DEF vars, argVars, findVars, Begun
<1> QED
  BY <1>1, <1>2, <1>3, <1>4, <1>5 DEF Next

LEMMA GoingStep ==
  /\ Begun /\ Going /\ SearchInv /\ Control /\ Waiting /\ devs \in UsbTrees
  /\ (SearchInv /\ devs \in UsbTrees /\ OptionType)'
  /\ (SearchInv /\ devs \in UsbTrees /\ OptionType /\ Rest => LP!Inv)'
  /\ [Next]_vars
  => Going'
<1> SUFFICES ASSUME Begun, Going, SearchInv, Control, Waiting, devs \in UsbTrees,
                    Rest' => LP!Inv', [Next]_vars, find_pc' = "go"
             PROVE  LP!Inv'
  BY DEF Going
<1>1. ~ReadOptions
  BY Reading DEF ReadOptions, Waiting
<1>2. CASE FindHubs
  BY <1>2, Searching, RestStep DEF FindHubs, Begun
<1>3. ~Refuse
  BY DEF Refuse, findVars
<1>4. ASSUME [LP!Next]_LP!vars, find_pc = "go" PROVE LP!Inv'
  BY <1>4, LP!StepInv, BoundsAssumption DEF Going
<1>5. CASE Operate \/ Kernel
  <2>1. find_pc = "go" /\ hubs' = hubs
    BY <1>5 DEF Operate, Kernel, findVars
  <2>2. LP!Next
    BY <1>5, <2>1, SameLoop DEF Operate, Kernel, LP!Next
  <2> QED
    BY <1>4, <2>1, <2>2
<1>6. CASE UNCHANGED vars
  <2>1. find_pc = "go" /\ UNCHANGED <<o, hubs, mask, loopVars, exit>>
    BY <1>6 DEF vars, argVars, findVars
  <2>2. UNCHANGED <<Table, opt>>
    BY <2>1 DEF Table, opt
  <2>3. UNCHANGED LP!vars
    BY <2>1, <2>2 DEF loopVars, LP!vars, LP!input, LP!env, LP!ghost
  <2> QED
    BY <1>4, <2>1, <2>3
<1> QED
  BY <1>1, <1>2, <1>3, <1>5, <1>6 DEF Next

LEMMA EndedStep ==
  ASSUME Begun, Ended, Waiting, [Next]_vars
  PROVE  Ended'
<1>1. CASE ReadOptions
  <2>1. exit' = exit \/ opc' = "stop"
    BY <1>1, Reading
  <2>2. exit # 0
    BY <1>1, Reading DEF Ended, Waiting
  <2> QED
    BY <2>1, <2>2 DEF Ended
<1>2. CASE FindHubs
  BY <1>2, Searching DEF FindHubs, Begun, Rest, Ended
<1>3. CASE Refuse
  BY <1>3 DEF Refuse, Ended
<1>4. CASE Operate
  <2>1. find_pc = "go" /\ UNCHANGED <<opc, find_pc>>
    BY <1>4 DEF Operate, argVars, findVars
  <2>2. pc # "done" /\ (exit' = exit \/ pc' = "done")
    BY <1>4 DEF Operate, Loop!Run, Loop!SkipPhase, Loop!StartPhase, Loop!Finish, Loop!EndPhase,
      Loop!Wake, Loop!SkipHub, Loop!OpenHub, Loop!OpenFails, Loop!PortsDone, Loop!ResetHub,
      Loop!SkipPort, Loop!ReadStatus, Loop!SysfsWrite, Loop!FallBack, Loop!Transfer,
      Loop!TransfersDone, Loop!AtHub, Loop!AtPort
  <2> QED
    BY <2>1, <2>2 DEF Ended, Waiting
<1>5. CASE Kernel
  BY <1>5 DEF Kernel, argVars, findVars, Loop!KernelRepower, Ended
<1>6. CASE UNCHANGED vars
  BY <1>6 DEF vars, argVars, findVars, loopVars, Ended
<1> QED
  BY <1>1, <1>2, <1>3, <1>4, <1>5, <1>6 DEF Next

LEMMA LoopInit == Init => devs \in UsbTrees /\ OptionType /\ Begun /\ Going /\ Ended
<1> SUFFICES ASSUME Init PROVE devs \in UsbTrees /\ OptionType /\ Begun /\ Going /\ Ended
  OBVIOUS
<1>1. devs \in UsbTrees /\ find_pc = "scan" /\ exit = -1
  BY DEF Init, Parse!Init
<1>2. OptionType
  <2>1. o = Parse!Defaults
    BY DEF Init, Parse!Init
  <2>2. o.reset \in BOOLEAN /\ o.nosysfs \in BOOLEAN
    BY <2>1 DEF Parse!Defaults
  <2> QED
    BY <2>1, <2>2 DEF OptionType, Parse!Defaults
<1>3. Cells \subseteq Nat \X Nat
  <2>1. DOMAIN devs \subseteq Nat
    BY <1>1, TreesAssumption
  <2> QED
    BY <2>1 DEF Cells
<1>4. Rest
  BY <1>1, <1>3, BoundsAssumption DEF Init, Rest
<1> QED
  BY <1>1, <1>2, <1>4 DEF Begun, Going, Ended

LEMMA LoopHolds == Spec => []Control /\ [](devs \in UsbTrees /\ OptionType /\ Begun /\ Going /\ Ended)
<1>1. SearchInv /\ devs \in UsbTrees /\ OptionType /\ Rest => LP!Inv
  BY RestInv
<1>2. devs \in UsbTrees /\ [Next]_vars => (devs \in UsbTrees)'
  BY TreeKept
<1>3. Begun /\ SearchInv /\ devs \in UsbTrees /\ [Next]_vars => Begun'
  BY BegunStep
<1>4. Begun /\ Ended /\ Waiting /\ [Next]_vars => Ended'
  BY EndedStep
<1>5. ParseInv /\ OptionType /\ [Next]_vars => OptionType'
  BY OptionTypeStep
<1> QED
  BY <1>1, <1>2, <1>3, <1>4, <1>5, LoopInit, GoingStep, ParseHolds, SearchHolds, ControlHolds,
     PTL DEF Spec

(***************************************************************************)
(* The ports of the physical hub                                           *)
(***************************************************************************)
\* The hubs' halves can be told apart; every hub on the bus has something to
\* say; and if one half of a hub can be switched the other can.
HalvesToldApart == opc = "ready" => FP!Distinguishable
AllAnswer ==
    opc = "ready" =>
        /\ FP!Silent = {}
        /\ \A m \in FP!Answering, n \in DOMAIN devs :
              devs[n].hub /\ devs[n].phys = devs[m].phys => n \in FP!Answering

\* The wanted ports of the chosen hub, on either half, found by a filter or
\* not, are ports the loop operates on.
LEMMA PhysSelected ==
  ASSUME SearchInv, Waiting, HalvesToldApart, AllAnswer, devs \in UsbTrees,
         find_pc = "go", ~f.exact
  PROVE  PhysCells(ChosenPhys, mask) \subseteq LP!SelectedCells
<1> SUFFICES ASSUME NEW c \in PhysCells(ChosenPhys, mask) PROVE c \in LP!SelectedCells
  OBVIOUS
<1> DEFINE n == c[1]
           p == c[2]
<1>1. /\ n \in DOMAIN devs /\ devs[n].hub /\ p \in 1..14 /\ p <= devs[n].nports
      /\ devs[n].phys \in ChosenPhys /\ p \in mask /\ c = <<n, p>>
  BY DEF PhysCells, Cells
<1> HIDE DEF n, p
<1>2. PICK g \in DOMAIN hubs : hubs[g].actionable = 1 /\ devs[n].phys = devs[hubs[g].dev].phys
  BY <1>1 DEF ChosenPhys
<1>3. opc = "ready"
  BY DEF Waiting
<1>4. hubs[g].dev # 0 /\ hubs[g].dev \in FP!Answering
  BY <1>3 DEF AllAnswer, SearchInv, FP!FInv, FP!Faithful
<1>5. n \in FP!Answering
  BY <1>1, <1>2, <1>3, <1>4 DEF AllAnswer
<1>6. FP!TableSuffices /\ ~overrun
  <2>1. FP!TableSuffices
    BY FP!TableInv, BoundsAssumption, TreesAssumption DEF SearchInv
  <2> QED
    BY <1>3, <2>1, FP!NoOverrun, BoundsAssumption, TreesAssumption
    DEF SearchInv, HalvesToldApart
<1>7. PICK x \in DOMAIN hubs : hubs[x].dev = n
  BY <1>5, <1>6 DEF FP!TableSuffices
<1>8. n # 0
  BY <1>1, TreesAssumption
<1>9. FP!Acted(hubs[x])
  <2>1. FP!Phys(hubs[g]) = FP!Phys(hubs[x]) /\ FP!Acted(hubs[g])
    BY <1>2, <1>4, <1>7, <1>8 DEF FP!Phys, FP!Acted
  <2> QED
    BY <1>3, <1>6, <2>1, FP!BothActed, BoundsAssumption, TreesAssumption
    DEF SearchInv, HalvesToldApart
<1>10. hubs[x].nports = devs[n].nports
  <2>1. hubs[x].nports = FP!Described[n].nports
    BY <1>7, <1>8 DEF SearchInv, FP!FInv, FP!Faithful, FP!Alike
  <2> QED
    BY <1>1, <2>1 DEF FP!Described, FP!Filled
<1>11. x \in LP!ActionableHubs
  BY <1>9 DEF FP!Acted, LP!ActionableHubs, Table
<1>12. p \in LP!Selected(x)
  BY <1>1, <1>10 DEF LP!Selected, LP!PortsOf, Table
<1>13. c = LP!Cell(x, p)
  BY <1>1, <1>7 DEF LP!Cell, Table
<1> QED
  BY <1>11, <1>12, <1>13 DEF LP!SelectedCells

\* What a run that met no failure leaves on the hardware, in the dark of a
\* cycle and at the end, is what it was asked for, on both halves of the chosen
\* hub: through options, search, dual pass and loop.
THEOREM AsAskedPhysically ==
  Spec /\ [](HalvesToldApart /\ AllAnswer) => []PhysicallyAsAsked
<1>1. ASSUME SearchInv, Waiting, Start, HalvesToldApart, AllAnswer, devs \in UsbTrees,
             Control, Going, Ended
      PROVE  PhysicallyAsAsked
  <2>1. ASSUME find_pc = "go", ~f.exact, Calm,
               NEW c \in PhysCells(ChosenPhys, mask)
        PROVE  /\ (pc = "done" /\ f.action = "off") \/ pc = "sleep" => c \notin on
               /\ pc = "done" /\ f.action \in {"on", "cycle"} => c \in on
    <3>1. LP!OffReached /\ LP!OnReached
      BY <1>1, <2>1, LP!InvGoals, BoundsAssumption DEF Going
    <3>2. c \in LP!SelectedCells
      BY <1>1, <2>1, PhysSelected
    <3>3. f.action = opt.action
      BY DEF f, opt
    <3>4. ~LP!ExcusedOff(c) /\ ~LP!ExcusedOn(c)
      BY <2>1 DEF Calm, LP!ExcusedOff, LP!ExcusedOn
    <3> QED
      BY <3>1, <3>2, <3>3, <3>4 DEF LP!OffReached, LP!OnReached
  <2>2. CASE opc = "stop"
    <3>1. AtStart /\ find_pc # "go"
      BY <1>1, <2>2 DEF Waiting, Start
    <3>2. hubs = <<>> /\ pc # "sleep"
      BY <1>1, <3>1 DEF AtStart, Control
    <3>3. ChosenPhys = {}
      BY <3>2 DEF ChosenPhys
    <3>4. PhysCells(ChosenPhys, mask) = {}
      BY <3>3 DEF PhysCells
    <3> QED
      BY <3>4 DEF PhysicallyAsAsked, PhysicallyDark, PhysicallyPowered
  <2>3. CASE opc # "stop"
    <3>1. exit = 0 => find_pc = "go" /\ pc = "done"
      BY <1>1, <2>3 DEF Ended
    <3>2. pc = "sleep" => find_pc = "go"
      BY <1>1 DEF Control
    <3>3. PhysicallyDark
      BY <2>1, <3>1, <3>2 DEF PhysicallyDark
    <3>4. PhysicallyPowered
      BY <2>1, <3>1 DEF PhysicallyPowered
    <3> QED
      BY <3>3, <3>4 DEF PhysicallyAsAsked
  <2> QED
    BY <2>2, <2>3
<1>2. Spec => []Start
  <2>1. Init => Start
    BY DEF Init, Parse!Init, Start, AtStart, Parse!AllHubPorts, Parse!MaxHubPorts
  <2> QED
    BY <2>1, StartStep, ParseHolds, PTL DEF Spec
<1> QED
  BY <1>1, <1>2, SearchHolds, LoopHolds, ParseHolds, PTL
=============================================================================
