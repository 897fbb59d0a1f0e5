------------------------ MODULE UhubDiscoveryProofs ------------------------
(***************************************************************************)
(* Theorems about the search for hubs, for any list of devices, any size   *)
(* of the table and any filters.                                           *)
(***************************************************************************)
EXTENDS UhubDiscovery, FiniteSetTheorems, TLAPS

(***************************************************************************)
(* The entries of the table                                                *)
(***************************************************************************)
\* Every record the scan can have stored.
Info ==
    [actionable: 0..2, dev: 0 .. Len(devs), super_speed: BOOLEAN,
     nports: {0} \cup {devs[n].nports : n \in DOMAIN devs},
     lpsm: {"common"} \cup {Lpsm(devs[n]) : n \in DOMAIN devs},
     cid: {None} \cup {ContainerId(devs[n]) : n \in DOMAIN devs},
     vendor: {""} \cup {devs[n].vendor : n \in DOMAIN devs},
     bus: {0} \cup {devs[n].bus : n \in DOMAIN devs},
     path: {<<>>} \cup {devs[n].path : n \in DOMAIN devs},
     serial: {devs[n].serial : n \in DOMAIN devs}]

LEMMA HubInfoType ==
  ASSUME DOMAIN devs = 1 .. Len(devs), Len(devs) \in Nat, NEW n \in DOMAIN devs
  PROVE  /\ HubInfo(n) \in Info
         /\ HubInfo(n).dev \in {0, n}
         /\ HubInfo(n).lpsm = "indv" =>
              /\ devs[n].answer # "empty" /\ HubInfo(n).dev = n
              /\ Lpsm(devs[n]) = "indv"
<1>1. CASE devs[n].answer = "empty"
  <2>1. HubInfo(n) = Zeroed(devs[n])
    BY <1>1 DEF HubInfo
  <2>2. /\ Zeroed(devs[n]) \in Info /\ Zeroed(devs[n]).dev = 0
        /\ Zeroed(devs[n]).lpsm = "common"
    BY DEF Zeroed, Info
  <2> QED
    BY <2>1, <2>2
<1>2. CASE devs[n].answer # "empty"
  <2>1. HubInfo(n) = Filled(n)
    BY <1>2 DEF HubInfo
  <2>2. SuperSpeed(devs[n]) \in BOOLEAN
    BY DEF SuperSpeed
  <2>3. n \in 0 .. Len(devs) /\ 0 \in 0..2
    OBVIOUS
  <2>4. Filled(n) \in Info
    BY <2>2, <2>3 DEF Filled, Info
  <2>5. Filled(n).dev = n /\ Filled(n).lpsm = Lpsm(devs[n])
    BY DEF Filled
  <2> QED
    BY <1>2, <2>1, <2>4, <2>5
<1> QED
  BY <1>1, <1>2

LEMMA Marked ==
  ASSUME NEW r \in Info, NEW a \in 0..2
  PROVE  /\ [r EXCEPT !.actionable = a] \in Info
         /\ [r EXCEPT !.actionable = a].actionable = a
         /\ [r EXCEPT !.actionable = a].dev = r.dev
         /\ [r EXCEPT !.actionable = a].cid = r.cid
         /\ [r EXCEPT !.actionable = a].super_speed = r.super_speed
BY DEF Info

LEMMA EntryType ==
  ASSUME NEW r \in Info
  PROVE  /\ Entry(r) \in Info /\ Entry(r).dev = r.dev
         /\ Entry(r).actionable \in {0, 1}
<1> DEFINE m == IF Chosen(r) THEN 1 ELSE 0
<1>1. Entry(r) = [r EXCEPT !.actionable = m]
  BY Zenon DEF Entry
<1>2. m \in 0..2 /\ m \in {0, 1}
  OBVIOUS
<1> HIDE DEF m
<1> QED
  BY ZenonT(60), <1>1, <1>2, Marked

(***************************************************************************)
(* The invariant                                                           *)
(***************************************************************************)
DevsOK == Len(devs) \in Nat /\ DOMAIN devs = 1 .. Len(devs)
TableOK == hubs \in Seq(Info) /\ Len(hubs) <= MaxHubs
LocalsOK ==
    /\ mask \subseteq f.ports
    /\ perm_ok \in BOOLEAN /\ overrun \in BOOLEAN
    /\ pc \in {"scan", "dual", "count", "none", "many", "go", "undefined"}
    /\ i \in Nat \ {0} /\ phys_count \in Nat

\* While the scan is at device i, the table is about devices before it.
Behind == pc = "scan" => \A h \in DOMAIN hubs : hubs[h].dev < i
Ordered == \A g, h \in DOMAIN hubs : g < h /\ hubs[h].dev # 0 => hubs[g].dev < hubs[h].dev
Spoken == ~f.force => \A h \in DOMAIN hubs : hubs[h].dev \in Answering
DualPass == pc = "dual" => ~f.exact

IInv ==
    DevsOK /\ TableOK /\ LocalsOK /\ Behind /\ Ordered /\ Spoken /\ DualPass /\ DerivedJustified

LEMMA InitInv == Init => IInv
<1> SUFFICES ASSUME Init PROVE IInv
  OBVIOUS
<1>1. DevsOK
  BY TreesAssumption DEF Init, DevsOK
<1>2. hubs = <<>> /\ hubs \in Seq(Info) /\ Len(hubs) = 0 /\ DOMAIN hubs = {}
  BY DEF Init
<1>3. TableOK
  BY <1>2, MaxHubsAssumption DEF TableOK
<1>4. LocalsOK
  <2>1. mask \subseteq f.ports /\ perm_ok \in BOOLEAN /\ overrun \in BOOLEAN
    BY Zenon DEF Init
  <2>2. pc = "scan" /\ i = 1 /\ phys_count = 0
    BY DEF Init
  <2> QED
    BY <2>1, <2>2 DEF LocalsOK
<1>5. Behind /\ Ordered /\ Spoken /\ DerivedJustified
  BY <1>2 DEF Behind, Ordered, Spoken, DerivedJustified
<1>6. DualPass
  BY DEF Init, DualPass
<1> QED
  BY <1>1, <1>3, <1>4, <1>5, <1>6 DEF IInv

\* The sets that depend only on what a run never changes.
LEMMA Fixed ==
  ASSUME UNCHANGED <<devs, f>>
  PROVE  Info' = Info /\ Answering' = Answering
<1>1. Info' = Info
  BY DEF Info, Lpsm, ContainerId
<1>2. Answering' = Answering
  BY DEF Answering, Readable, Lpsm
<1> QED
  BY <1>1, <1>2

\* A step that leaves the table alone.
LEMMA TableStays ==
  ASSUME IInv, UNCHANGED <<devs, f, hubs>>, LocalsOK', DualPass',
         pc' = "scan" => pc = "scan" /\ i' >= i
  PROVE  IInv'
<1>1. Info' = Info /\ Answering' = Answering
  BY Fixed
<1>2. DevsOK' /\ TableOK'
  BY <1>1 DEF IInv, DevsOK, TableOK
<1>3. Behind'
  <2> SUFFICES ASSUME pc' = "scan", NEW h \in DOMAIN hubs PROVE hubs[h].dev < i'
    BY DEF Behind
  <2>1. hubs[h] \in Info /\ hubs[h].dev < i /\ i' >= i
    BY DEF IInv, TableOK, Behind
  <2>2. hubs[h].dev \in 0 .. Len(devs) /\ Len(devs) \in Nat
    BY <2>1 DEF Info, IInv, DevsOK
  <2>3. i \in Nat /\ i' \in Nat
    BY DEF IInv, LocalsOK
  <2> QED
    BY <2>1, <2>2, <2>3
<1>4. Ordered' /\ Spoken' /\ DerivedJustified'
  BY <1>1 DEF IInv, Ordered, Spoken, DerivedJustified
<1> QED
  BY <1>2, <1>3, <1>4 DEF IInv

(***************************************************************************)
(* The scan                                                                *)
(***************************************************************************)
LEMMA Narrows == Narrowed(HubInfo(i)) \subseteq mask
BY DEF Narrowed

LEMMA AddHubInv == IInv /\ AddHub => IInv'
<1> SUFFICES ASSUME IInv, AddHub PROVE IInv'
  OBVIOUS
<1> DEFINE e == Entry(HubInfo(i))
           n == Len(hubs)
<1>1. /\ UNCHANGED <<devs, f, perm_ok, overrun, pc, phys_count>> /\ i' = i + 1
      /\ hubs' = Append(hubs, e) /\ mask' = Narrowed(HubInfo(i)) /\ n < MaxHubs
      /\ pc = "scan" /\ i \in DOMAIN devs /\ DOMAIN devs = 1 .. Len(devs) /\ Len(devs) \in Nat
  <2>1. i \in Nat \ {0} /\ DOMAIN devs = 1 .. Len(devs) /\ Len(devs) \in Nat /\ i <= Len(devs)
    BY DEF IInv, LocalsOK, DevsOK, AddHub, AtHub, AtDevice
  <2> QED
    BY <2>1 DEF AddHub, AtHub, AtDevice, Room
<1>2. /\ HubInfo(i) \in Info /\ e \in Info /\ e.dev \in {0, i} /\ e.dev = HubInfo(i).dev
      /\ e.actionable \in {0, 1}
  BY <1>1, HubInfoType, EntryType
<1>3. hubs \in Seq(Info) /\ n \in Nat /\ n <= MaxHubs /\ DOMAIN hubs = 1..n
  BY DEF IInv, TableOK
<1> HIDE DEF e, n
<1>4. /\ hubs' \in Seq(Info) /\ Len(hubs') = n + 1 /\ DOMAIN hubs' = 1..(n + 1)
      /\ \A h \in 1..n : hubs'[h] = hubs[h]
      /\ hubs'[n + 1] = e
  BY <1>1, <1>2, <1>3 DEF n
<1>5. Info' = Info /\ Answering' = Answering
  BY <1>1, Fixed
<1>6. DevsOK' /\ TableOK'
  BY <1>1, <1>3, <1>4, <1>5, MaxHubsAssumption DEF IInv, DevsOK, TableOK
<1>7. LocalsOK' /\ DualPass'
  <2>1. mask' \subseteq f'.ports
    BY <1>1, Narrows DEF IInv, LocalsOK
  <2>2. i' \in Nat \ {0}
    BY <1>1
  <2> QED
    BY <1>1, <2>1, <2>2 DEF IInv, LocalsOK, DualPass
<1>8. \A h \in 1..n : hubs[h].dev \in 0 .. Len(devs) /\ hubs[h].dev < i
  <2> TAKE h \in 1..n
  <2>1. hubs[h] \in Info
    BY <1>3
  <2>2. hubs[h].dev < i
    BY <1>1, <1>3 DEF IInv, Behind
  <2> QED
    BY <2>1, <2>2 DEF Info
<1>9. Behind'
  <2> SUFFICES ASSUME NEW h \in 1..(n + 1) PROVE hubs'[h].dev < i'
    BY <1>4 DEF Behind
  <2>1. CASE h \in 1..n
    BY <2>1, <1>1, <1>4, <1>8
  <2>2. CASE h = n + 1
    BY <2>2, <1>1, <1>2, <1>4
  <2> QED
    BY <2>1, <2>2, <1>3
<1>10. Ordered'
  <2> SUFFICES ASSUME NEW g \in 1..(n + 1), NEW h \in 1..(n + 1), g < h, hubs'[h].dev # 0
               PROVE  hubs'[g].dev < hubs'[h].dev
    BY <1>4 DEF Ordered
  <2>1. g \in 1..n /\ hubs'[g] = hubs[g]
    BY <1>3, <1>4
  <2>2. CASE h \in 1..n
    BY <2>1, <2>2, <1>3, <1>4 DEF IInv, Ordered
  <2>3. CASE h = n + 1
    BY <2>1, <2>3, <1>2, <1>4, <1>8
  <2> QED
    BY <2>2, <2>3, <1>3
<1>11. Spoken'
  <2> SUFFICES ASSUME ~f.force, NEW h \in 1..(n + 1) PROVE hubs'[h].dev \in Answering
    BY <1>1, <1>4, <1>5 DEF Spoken
  <2>1. CASE h \in 1..n
    BY <2>1, <1>3, <1>4 DEF IInv, Spoken
  <2>2. CASE h = n + 1
    <3>1. HubInfo(i).lpsm = "indv" /\ devs[i].hub /\ Readable(devs[i])
      BY DEF AddHub, AtHub, Switchable
    <3>2. HubInfo(i).dev = i /\ devs[i].answer # "empty" /\ Lpsm(devs[i]) = "indv"
      BY <3>1, <1>1, HubInfoType
    <3>3. i \in Answering
      BY <3>1, <3>2, <1>1 DEF Answering
    <3> QED
      BY <2>2, <3>2, <3>3, <1>2, <1>4
  <2> QED
    BY <2>1, <2>2, <1>3
<1>12. DerivedJustified'
  <2> SUFFICES ASSUME NEW j \in 1..(n + 1), hubs'[j].actionable = 2
               PROVE  /\ ~f.exact
                      /\ \E g \in 1..(n + 1) :
                            /\ hubs'[g].actionable = 1
                            /\ hubs'[g].super_speed # hubs'[j].super_speed
                            /\ hubs'[g].cid = hubs'[j].cid /\ hubs'[j].cid # None
    BY ZenonT(60), <1>1, <1>4 DEF DerivedJustified
  <2>1. j \in 1..n /\ hubs'[j] = hubs[j]
    BY <1>2, <1>3, <1>4
  <2>2. ~f.exact
    BY <2>1, <1>3 DEF IInv, DerivedJustified
  <2>3. PICK g \in 1..n : /\ hubs[g].actionable = 1
                          /\ hubs[g].super_speed # hubs[j].super_speed
                          /\ hubs[g].cid = hubs[j].cid /\ hubs[j].cid # None
    BY <2>1, <1>3 DEF IInv, DerivedJustified
  <2>4. g \in 1..(n + 1) /\ hubs'[g] = hubs[g]
    BY <1>3, <1>4
  <2> QED
    BY <2>1, <2>2, <2>3, <2>4
<1> QED
  BY <1>6, <1>7, <1>9, <1>10, <1>11, <1>12 DEF IInv

(***************************************************************************)
(* The dual pass                                                           *)
(***************************************************************************)
LEMMA DualOfInv == IInv /\ DualOf => IInv'
<1> SUFFICES ASSUME IInv, DualOf PROVE IInv'
  OBVIOUS
<1> DEFINE Marks(j) == HasDualRule(hubs[i]) /\ j \in BestMatches(hubs[i]) /\ hubs[j].actionable = 0
           n == Len(hubs)
<1>1. /\ UNCHANGED <<devs, f, mask, perm_ok, overrun, pc, phys_count>> /\ i' = i + 1
      /\ hubs' = [j \in DOMAIN hubs |-> IF Marks(j) THEN [hubs[j] EXCEPT !.actionable = 2] ELSE hubs[j]]
      /\ pc = "dual" /\ i \in Nat \ {0} /\ i <= n
  BY DEF DualOf, IInv, LocalsOK
<1>2. hubs \in Seq(Info) /\ n \in Nat /\ n <= MaxHubs /\ DOMAIN hubs = 1..n /\ i \in 1..n
  BY <1>1 DEF IInv, TableOK
<1>3. \A j \in 1..n : Marks(j) =>
        /\ hubs[i].actionable = 1 /\ hubs[j].actionable = 0
        /\ hubs[i].super_speed # hubs[j].super_speed
        /\ hubs[i].cid = hubs[j].cid /\ hubs[j].cid # None
  BY DEF HasDualRule, BestMatches, Candidate
<1> HIDE DEF Marks, n
<1>4. \A j \in 1..n :
        /\ hubs'[j] \in Info /\ hubs'[j].dev = hubs[j].dev /\ hubs'[j].cid = hubs[j].cid
        /\ hubs'[j].super_speed = hubs[j].super_speed
        /\ hubs'[j].actionable = IF Marks(j) THEN 2 ELSE hubs[j].actionable
  <2> TAKE j \in 1..n
  <2>1. hubs[j] \in Info
    BY <1>2
  <2>2. CASE Marks(j)
    <3>1. hubs'[j] = [hubs[j] EXCEPT !.actionable = 2]
      BY <2>2, <1>1, <1>2
    <3>2. 2 \in 0..2
      OBVIOUS
    <3> DEFINE m == [hubs[j] EXCEPT !.actionable = 2]
    <3>3. /\ m \in Info /\ m.actionable = 2
          /\ m.dev = hubs[j].dev /\ m.cid = hubs[j].cid /\ m.super_speed = hubs[j].super_speed
      BY Zenon, <2>1, <3>2, Marked
    <3> HIDE DEF m
    <3> QED
      BY <3>1, <3>3, <2>2 DEF m
  <2>3. CASE ~Marks(j)
    BY <2>1, <2>3, <1>1, <1>2
  <2> QED
    BY <2>2, <2>3
<1>5. hubs' \in Seq(Info) /\ Len(hubs') = n /\ DOMAIN hubs' = 1..n
  <2>1. hubs' \in [1..n -> Info]
    BY <1>1, <1>2, <1>4
  <2> QED
    BY <2>1, <1>2
<1>6. Info' = Info /\ Answering' = Answering
  BY <1>1, Fixed
<1>7. DevsOK' /\ TableOK'
  BY <1>1, <1>2, <1>5, <1>6 DEF IInv, DevsOK, TableOK
<1>8. LocalsOK' /\ DualPass' /\ Behind'
  BY <1>1 DEF IInv, LocalsOK, DualPass, Behind
<1>9. Ordered'
  BY <1>2, <1>4, <1>5 DEF IInv, Ordered
<1>10. Spoken'
  BY <1>1, <1>2, <1>4, <1>5, <1>6 DEF IInv, Spoken
<1>11. DerivedJustified'
  <2> SUFFICES ASSUME NEW j \in 1..n, hubs'[j].actionable = 2
               PROVE  /\ ~f.exact
                      /\ \E g \in 1..n :
                            /\ hubs'[g].actionable = 1
                            /\ hubs'[g].super_speed # hubs'[j].super_speed
                            /\ hubs'[g].cid = hubs'[j].cid /\ hubs'[j].cid # None
    BY <1>1, <1>5 DEF DerivedJustified
  <2>1. ~f.exact
    BY <1>1 DEF IInv, DualPass
  <2>2. PICK g \in 1..n : /\ hubs[g].actionable = 1
                          /\ hubs[g].super_speed # hubs[j].super_speed
                          /\ hubs[g].cid = hubs[j].cid /\ hubs[j].cid # None
    <3>1. CASE Marks(j)
      BY <3>1, <1>2, <1>3
    <3>2. CASE ~Marks(j)
      BY <3>2, <1>2, <1>4 DEF IInv, DerivedJustified
    <3> QED
      BY <3>1, <3>2
  <2>3. hubs'[g].actionable = 1
    <3>1. ~Marks(g)
      BY <2>2, <1>3
    <3> QED
      BY <3>1, <2>2, <1>4
  <2> QED
    BY <2>1, <2>2, <2>3, <1>4
<1> QED
  BY <1>7, <1>8, <1>9, <1>10, <1>11 DEF IInv

(***************************************************************************)
(* Every step                                                              *)
(***************************************************************************)
LEMMA CountType ==
  ASSUME IInv
  PROVE  Cardinality({j \in DOMAIN hubs : Counted(hubs[j])}) \in Nat
<1>1. DOMAIN hubs = 1 .. Len(hubs) /\ Len(hubs) \in Nat
  BY DEF IInv, TableOK
<1>2. IsFiniteSet(1 .. Len(hubs))
  BY <1>1, FS_Interval
<1>3. IsFiniteSet({j \in DOMAIN hubs : Counted(hubs[j])})
  BY <1>1, <1>2, FS_Subset
<1> QED
  BY <1>3, FS_CardinalityType

LEMMA NextInv == IInv /\ [Next]_vars => IInv'
<1> SUFFICES ASSUME IInv, [Next]_vars PROVE IInv'
  OBVIOUS
<1>0. LocalsOK /\ DualPass
  BY DEF IInv
<1>1. CASE SkipDevice \/ Unreadable \/ NotSwitchable
  <2>1. /\ UNCHANGED <<devs, f, hubs, mask, overrun, pc, phys_count>> /\ i' = i + 1
        /\ perm_ok' \in {perm_ok, FALSE}
    BY <1>1 DEF SkipDevice, Unreadable, NotSwitchable
  <2>2. perm_ok' \in BOOLEAN
    BY Zenon, <2>1, <1>0 DEF LocalsOK
  <2>3. i' \in Nat \ {0} /\ i' >= i
    BY <2>1, <1>0 DEF LocalsOK
  <2>4. LocalsOK' /\ DualPass' /\ i' >= i
    BY <2>1, <2>2, <2>3, <1>0 DEF LocalsOK, DualPass
  <2> QED
    BY <2>1, <2>4, TableStays
<1>2. CASE AddHub
  BY <1>2, AddHubInv
<1>3. CASE TooManyHubs
  <2>1. /\ UNCHANGED <<devs, f, hubs, perm_ok, phys_count>> /\ i' = 1 /\ overrun' = TRUE
        /\ mask' \subseteq mask
        /\ pc' \in {IF f.exact THEN "count" ELSE "dual", "undefined"}
    BY <1>3, Narrows DEF TooManyHubs
  <2>2. LocalsOK' /\ DualPass' /\ pc' # "scan"
    BY <2>1, <1>0 DEF LocalsOK, DualPass
  <2> QED
    BY <2>1, <2>2, TableStays
<1>4. CASE ScanDone
  <2>1. /\ UNCHANGED <<devs, f, hubs, mask, perm_ok, overrun, phys_count>> /\ i' = 1
        /\ pc' = IF f.exact THEN "count" ELSE "dual"
    BY <1>4 DEF ScanDone
  <2>2. LocalsOK' /\ DualPass' /\ pc' # "scan"
    BY <2>1, <1>0 DEF LocalsOK, DualPass
  <2> QED
    BY <2>1, <2>2, TableStays
<1>5. CASE DualOf
  BY <1>5, DualOfInv
<1>6. CASE DualsDone
  <2>1. UNCHANGED <<devs, f, hubs, mask, perm_ok, overrun, i, phys_count>> /\ pc' = "count"
    BY <1>6 DEF DualsDone
  <2>2. LocalsOK' /\ DualPass'
    BY <2>1, <1>0 DEF LocalsOK, DualPass
  <2> QED
    BY <2>1, <2>2, TableStays
<1>7. CASE Count
  <2>1. /\ UNCHANGED <<devs, f, hubs, mask, perm_ok, overrun, i>>
        /\ phys_count' = Cardinality({j \in DOMAIN hubs : Counted(hubs[j])})
        /\ pc' \in {"none", "many", "go"}
    BY <1>7 DEF Count
  <2>2. phys_count' \in Nat
    BY <2>1, CountType
  <2>3. LocalsOK' /\ DualPass'
    BY <2>1, <2>2, <1>0 DEF LocalsOK, DualPass
  <2> QED
    BY <2>1, <2>3, TableStays
<1>8. CASE UNCHANGED vars
  <2>1. UNCHANGED <<devs, f, hubs, mask, perm_ok, overrun, i, pc, phys_count>>
    BY <1>8 DEF vars
  <2>2. LocalsOK' /\ DualPass' /\ i' >= i
    BY <2>1, <1>0 DEF LocalsOK, DualPass
  <2> QED
    BY <2>1, <2>2, TableStays
<1> QED
  BY <1>1, <1>2, <1>3, <1>4, <1>5, <1>6, <1>7, <1>8 DEF Next

LEMMA InvHolds == Spec => []IInv
BY InitInv, NextInv, PTL DEF Spec

(***************************************************************************)
(* The theorems                                                            *)
(***************************************************************************)
\* The types of usb_find_hubs' variables; hubs are stored once, in the order of
\* the scan, in a table that is never longer than it may be, and the port mask
\* only loses ports: for every tree and every filter.
THEOREM TypeCorrect == Spec => []TypeOK
<1>1. IInv => TypeOK
  <2> SUFFICES ASSUME IInv PROVE TypeOK
    OBVIOUS
  <2>1. \A j \in DOMAIN hubs : hubs[j] \in Info
    BY DEF IInv, TableOK
  <2>2. \A j \in DOMAIN hubs : hubs[j].actionable \in 0..2 /\ hubs[j].dev \in 0 .. Len(devs)
    BY <2>1 DEF Info
  <2>3. \A g, h \in DOMAIN hubs : g < h /\ hubs[h].dev # 0 => hubs[g].dev < hubs[h].dev
    BY DEF IInv, Ordered
  <2>4. Len(hubs) <= MaxHubs
    BY DEF IInv, TableOK
  <2>5. LocalsOK /\ i \in Nat
    BY DEF IInv, LocalsOK
  <2> QED
    BY <2>2, <2>3, <2>4, <2>5 DEF TypeOK, LocalsOK
<1> QED
  BY <1>1, InvHolds, PTL

\* A hub no filter chose is only ever operated on as the other-speed half, with
\* the same container ID, of one that was chosen, however many hubs share an ID.
THEOREM DerivedSafe == Spec => []DerivedJustified
BY InvHolds, PTL DEF IInv

\* The table never holds a hub of which nothing is known, nor one hub twice,
\* unless -f is given.
THEOREM PhantomSafe == Spec => []NoPhantom
<1>1. IInv => NoPhantom
  <2> SUFFICES ASSUME IInv, ~f.force, NEW h \in DOMAIN hubs
               PROVE  /\ hubs[h].dev \in Answering
                      /\ \A g \in DOMAIN hubs : hubs[g].dev = hubs[h].dev => g = h
    BY DEF NoPhantom
  <2>1. \A g \in DOMAIN hubs : hubs[g].dev \in Answering
    BY DEF IInv, Spoken
  <2>2. \A g \in DOMAIN hubs : hubs[g].dev \in Nat \ {0} /\ g \in Nat
    BY <2>1 DEF Answering, IInv, DevsOK, TableOK
  <2>3. \A g \in DOMAIN hubs : hubs[g].dev = hubs[h].dev => ~(g < h) /\ ~(h < g)
    BY <2>2 DEF IInv, Ordered
  <2> QED
    BY <2>1, <2>2, <2>3
<1> QED
  BY <1>1, InvHolds, PTL

(***************************************************************************)
(* The steps, as the invariants below need them                            *)
(***************************************************************************)
\* The devices the table has to hold an element for.
Eligible == Answering \cup (IF f.force THEN Silent ELSE {})

\* What the scan knows of every device, and of the entries it makes of them.
Described == [n \in DOMAIN devs |-> Filled(n)]
ChosenInfos == {info \in Info : Chosen(info)}

LEMMA FixedToo ==
  ASSUME UNCHANGED <<devs, f>>
  PROVE  /\ Eligible' = Eligible /\ Described' = Described /\ ChosenInfos' = ChosenInfos
         /\ Silent' = Silent
<1>1. Silent' = Silent
  BY DEF Silent
<1>2. Eligible' = Eligible
  BY <1>1, Fixed DEF Eligible
<1>3. Described' = Described
  BY DEF Described, Filled, SuperSpeed, Lpsm, ContainerId
<1>4. ChosenInfos' = ChosenInfos
  <2>1. Info' = Info
    BY Fixed
  <2>2. ASSUME NEW info PROVE SearchEnds(info)' = SearchEnds(info)
    BY DEF SearchEnds, IsChild
  <2> QED
    BY <2>1, <2>2 DEF ChosenInfos, Chosen, SearchHit
<1> QED
  BY <1>1, <1>2, <1>3, <1>4

\* A hub the scan stops at, to store it or because there is no room, is one
\* that the table needs an element for.
LEMMA HubEligible ==
  ASSUME IInv, AtHub, Switchable(HubInfo(i))
  PROVE  i \in Eligible
<1>1. i \in DOMAIN devs /\ devs[i].hub /\ Readable(devs[i])
  BY DEF IInv, LocalsOK, DevsOK, AtHub, AtDevice
<1>2. CASE devs[i].answer = "empty"
  <2>1. HubInfo(i).lpsm = "common"
    BY <1>2 DEF HubInfo, Zeroed
  <2>2. f.force
    BY <2>1 DEF Switchable
  <2> QED
    BY <1>1, <1>2, <2>2 DEF Eligible, Silent, Readable
<1>3. CASE devs[i].answer # "empty"
  <2>1. HubInfo(i).lpsm = Lpsm(devs[i])
    BY <1>3 DEF HubInfo, Filled
  <2> QED
    BY <1>1, <1>3, <2>1 DEF Eligible, Answering, Switchable
<1> QED
  BY <1>2, <1>3

\* A device that the scan passes over is none that answers as such a hub.
LEMMA PassedOver ==
  ASSUME IInv, SkipDevice \/ Unreadable \/ NotSwitchable
  PROVE  i \notin Answering
<1>1. CASE SkipDevice \/ Unreadable
  BY <1>1 DEF SkipDevice, Unreadable, Answering
<1>2. CASE NotSwitchable
  <2> SUFFICES ASSUME i \in Answering PROVE FALSE
    OBVIOUS
  <2>1. devs[i].answer # "empty" /\ (f.force \/ Lpsm(devs[i]) = "indv")
    BY DEF Answering
  <2>2. HubInfo(i).lpsm = Lpsm(devs[i])
    BY <2>1 DEF HubInfo, Filled
  <2> QED
    BY <1>2, <2>1, <2>2 DEF NotSwitchable, Switchable
<1> QED
  BY <1>1, <1>2

LEMMA AddHubEffect ==
  ASSUME IInv, AddHub
  PROVE  /\ UNCHANGED <<devs, f, perm_ok, overrun, pc, phys_count>> /\ i' = i + 1
         /\ pc = "scan" /\ i \in DOMAIN devs /\ i \in Eligible
         /\ Len(hubs) \in Nat /\ DOMAIN hubs = 1 .. Len(hubs)
         /\ Len(hubs') = Len(hubs) + 1 /\ DOMAIN hubs' = 1 .. (Len(hubs) + 1)
         /\ \A h \in DOMAIN hubs : hubs'[h] = hubs[h]
         /\ hubs'[Len(hubs) + 1] = Entry(HubInfo(i))
         /\ HubInfo(i) \in Info
         /\ mask' = Narrowed(HubInfo(i))
<1> DEFINE e == Entry(HubInfo(i))
<1>1. /\ UNCHANGED <<devs, f, perm_ok, overrun, pc, phys_count>> /\ i' = i + 1
      /\ hubs' = Append(hubs, e) /\ mask' = Narrowed(HubInfo(i))
      /\ pc = "scan" /\ i \in DOMAIN devs /\ DOMAIN devs = 1 .. Len(devs) /\ Len(devs) \in Nat
  <2>1. i \in Nat \ {0} /\ DOMAIN devs = 1 .. Len(devs) /\ Len(devs) \in Nat /\ i <= Len(devs)
    BY DEF IInv, LocalsOK, DevsOK, AddHub, AtHub, AtDevice
  <2> QED
    BY <2>1 DEF AddHub, AtHub, AtDevice
<1>2. HubInfo(i) \in Info /\ e \in Info
  BY <1>1, HubInfoType, EntryType
<1>3. i \in Eligible
  BY HubEligible DEF AddHub
<1>4. hubs \in Seq(Info)
  BY DEF IInv, TableOK
<1> HIDE DEF e
<1>5. /\ Len(hubs) \in Nat /\ DOMAIN hubs = 1 .. Len(hubs)
      /\ Len(hubs') = Len(hubs) + 1 /\ DOMAIN hubs' = 1 .. (Len(hubs) + 1)
      /\ \A h \in DOMAIN hubs : hubs'[h] = hubs[h]
      /\ hubs'[Len(hubs) + 1] = e
  BY <1>1, <1>2, <1>4
<1> QED
  BY <1>1, <1>2, <1>3, <1>5 DEF e

\* The dual pass changes nothing in the table but marks.
Marks(j) == HasDualRule(hubs[i]) /\ j \in BestMatches(hubs[i]) /\ hubs[j].actionable = 0

LEMMA DualOfEffect ==
  ASSUME IInv, DualOf
  PROVE  /\ UNCHANGED <<devs, f, mask, perm_ok, overrun, pc, phys_count>> /\ i' = i + 1
         /\ pc = "dual" /\ i \in DOMAIN hubs
         /\ Len(hubs') = Len(hubs) /\ DOMAIN hubs' = DOMAIN hubs
         /\ \A j \in DOMAIN hubs :
              hubs'[j] = IF Marks(j) THEN [hubs[j] EXCEPT !.actionable = 2] ELSE hubs[j]
<1>1. hubs \in Seq(Info) /\ i \in Nat \ {0}
  BY DEF IInv, TableOK, LocalsOK
<1>2. /\ UNCHANGED <<devs, f, mask, perm_ok, overrun, pc, phys_count>> /\ i' = i + 1
      /\ pc = "dual" /\ i <= Len(hubs)
      /\ hubs' = [j \in DOMAIN hubs |-> IF Marks(j) THEN [hubs[j] EXCEPT !.actionable = 2] ELSE hubs[j]]
  BY DEF DualOf, Marks
<1>3. Len(hubs) \in Nat /\ DOMAIN hubs = 1 .. Len(hubs)
  BY <1>1
<1>4. DOMAIN hubs' = 1 .. Len(hubs)
  BY <1>2, <1>3
<1>5. hubs' \in Seq(Info')
  <2>1. IInv'
    BY DualOfInv
  <2> QED
    BY <2>1 DEF IInv, TableOK
<1>6. Len(hubs') = Len(hubs)
  BY <1>3, <1>4, <1>5
<1> QED
  BY <1>1, <1>2, <1>3, <1>4, <1>6

(***************************************************************************)
(* The table suffices                                                      *)
(***************************************************************************)
\* While the scan is at device i the table holds no more entries than there
\* are devices before i that need one; when it overran there were too many.
Counting == pc = "scan" => ~overrun /\ Len(hubs) <= Cardinality({n \in Eligible : n < i})
Crowded == overrun => Cardinality(Eligible) > MaxHubs

\* Until it overruns, the table holds every such hub that the scan has passed.
Kept ==
    ~overrun => \A n \in Answering :
        (pc = "scan" => n < i) => \E h \in DOMAIN hubs : hubs[h].dev = n

SInv == Counting /\ Crowded /\ Kept

LEMMA EligibleFinite ==
  ASSUME DevsOK
  PROVE  IsFiniteSet(Eligible) /\ Eligible \subseteq Nat \ {0}
<1>1. Eligible \subseteq 1 .. Len(devs) /\ Len(devs) \in Nat
  BY DEF DevsOK, Eligible, Answering, Silent
<1>2. IsFiniteSet(1 .. Len(devs))
  BY <1>1, FS_Interval
<1>3. Eligible \in SUBSET (1 .. Len(devs))
  BY <1>1
<1>4. IsFiniteSet(Eligible)
  BY Zenon, <1>2, <1>3, FS_Subset
<1>5. Eligible \subseteq Nat \ {0}
  BY <1>1
<1> QED
  BY <1>4, <1>5

\* One more device that needs an element.
LEMMA OneMore ==
  ASSUME DevsOK, NEW n \in Eligible
  PROVE  /\ IsFiniteSet({m \in Eligible : m < n}) /\ IsFiniteSet({m \in Eligible : m < n + 1})
         /\ Cardinality({m \in Eligible : m < n + 1}) = Cardinality({m \in Eligible : m < n}) + 1
         /\ Cardinality({m \in Eligible : m < n}) \in Nat
<1> DEFINE B == {m \in Eligible : m < n}
           C == {m \in Eligible : m < n + 1}
<1>1. IsFiniteSet(B) /\ IsFiniteSet(C)
  BY EligibleFinite, FS_Subset
<1>2. C = B \cup {n} /\ n \notin B
  BY EligibleFinite
<1> HIDE DEF B, C
<1>3. Cardinality(B \cup {n}) = Cardinality(B) + 1 /\ Cardinality(B) \in Nat
  BY <1>1, <1>2, FS_AddElement, FS_CardinalityType
<1>4. Cardinality(C) = Cardinality(B) + 1 /\ Cardinality(B) \in Nat
  BY <1>2, <1>3
<1> QED
  BY <1>1, <1>4 DEF B, C

LEMMA SInit == Init => SInv
<1> SUFFICES ASSUME Init PROVE SInv
  OBVIOUS
<1>1. hubs = <<>> /\ Len(hubs) = 0 /\ pc = "scan" /\ i = 1 /\ overrun = FALSE
  BY DEF Init
<1>2. DevsOK
  BY InitInv DEF IInv
<1>3. {n \in Eligible : n < 1} = {} /\ \A n \in Answering : ~(n < 1)
  BY <1>2, EligibleFinite DEF Eligible
<1>4. Cardinality({n \in Eligible : n < i}) = 0
  BY <1>1, <1>3, FS_EmptySet
<1> QED
  BY <1>1, <1>3, <1>4 DEF SInv, Counting, Crowded, Kept

LEMMA SStep == IInv /\ SInv /\ [Next]_vars => SInv'
<1> SUFFICES ASSUME IInv, SInv, [Next]_vars PROVE SInv'
  OBVIOUS
<1>0. DevsOK /\ LocalsOK
  BY DEF IInv
<1>1. CASE SkipDevice \/ Unreadable \/ NotSwitchable
  <2>1. UNCHANGED <<devs, f, hubs, mask, overrun, pc>> /\ i' = i + 1 /\ pc = "scan" /\ i \in Nat
    BY <1>1, <1>0 DEF SkipDevice, Unreadable, NotSwitchable, AtHub, AtDevice, LocalsOK
  <2>2. Eligible' = Eligible /\ Answering' = Answering
    BY <2>1, Fixed, FixedToo
  <2>3. ~overrun /\ Len(hubs) <= Cardinality({n \in Eligible : n < i})
    BY <2>1 DEF SInv, Counting
  <2> DEFINE B == {n \in Eligible : n < i}
             C == {n \in Eligible : n < i + 1}
  <2>4. Cardinality(B) <= Cardinality(C) /\ Cardinality(B) \in Nat /\ Cardinality(C) \in Nat
    <3>1. IsFiniteSet(C) /\ B \subseteq C
      BY <1>0, <2>1, EligibleFinite, FS_Subset
    <3> QED
      BY <3>1, FS_Subset, FS_CardinalityType
  <2>5. Counting'
    <3>1. Len(hubs) <= Cardinality(B) /\ Len(hubs) \in Nat
      BY <2>3 DEF IInv, TableOK
    <3> HIDE DEF B, C
    <3>2. Len(hubs) <= Cardinality(C)
      BY <3>1, <2>4
    <3> QED
      BY <3>2, <2>1, <2>2, <2>3 DEF Counting, C
  <2>6. Kept'
    <3> SUFFICES ASSUME NEW n \in Answering, n < i + 1
                 PROVE  \E h \in DOMAIN hubs : hubs[h].dev = n
      BY <2>1, <2>2 DEF Kept
    <3>1. n # i /\ n \in Nat
      BY <1>0, <1>1, PassedOver, EligibleFinite DEF Eligible
    <3> QED
      BY <3>1, <2>1, <2>3 DEF SInv, Kept
  <2> QED
    BY <2>1, <2>3, <2>5, <2>6 DEF SInv, Crowded
<1>2. CASE AddHub
  <2>1. /\ UNCHANGED <<devs, f, perm_ok, overrun, pc, phys_count>> /\ i' = i + 1
        /\ pc = "scan" /\ i \in DOMAIN devs /\ i \in Eligible
        /\ Len(hubs) \in Nat /\ DOMAIN hubs = 1 .. Len(hubs)
        /\ Len(hubs') = Len(hubs) + 1 /\ DOMAIN hubs' = 1 .. (Len(hubs) + 1)
        /\ \A h \in DOMAIN hubs : hubs'[h] = hubs[h]
        /\ hubs'[Len(hubs) + 1] = Entry(HubInfo(i))
        /\ HubInfo(i) \in Info
    BY <1>2, AddHubEffect
  <2>2. Eligible' = Eligible /\ Answering' = Answering
    BY <2>1, Fixed, FixedToo
  <2>3. ~overrun /\ Len(hubs) <= Cardinality({n \in Eligible : n < i})
    BY <2>1 DEF SInv, Counting
  <2>4. Counting'
    <3>1. /\ Cardinality({m \in Eligible : m < i + 1}) = Cardinality({m \in Eligible : m < i}) + 1
          /\ Cardinality({m \in Eligible : m < i}) \in Nat
      BY <1>0, <2>1, OneMore
    <3>2. Len(hubs') <= Cardinality({m \in Eligible : m < i + 1})
      BY <3>1, <2>1, <2>3
    <3> QED
      BY <3>2, <2>1, <2>2, <2>3 DEF Counting
  <2>5. Kept'
    <3> SUFFICES ASSUME NEW n \in Answering, n < i + 1
                 PROVE  \E h \in DOMAIN hubs' : hubs'[h].dev = n
      BY <2>1, <2>2 DEF Kept
    <3>1. CASE n = i
      <4>1. HubInfo(i) = Filled(i)
        BY <3>1 DEF HubInfo, Answering
      <4>2. Entry(HubInfo(i)).dev = i
        BY <2>1, <4>1, EntryType DEF Filled
      <4>3. hubs'[Len(hubs) + 1].dev = n /\ Len(hubs) + 1 \in DOMAIN hubs'
        BY <2>1, <3>1, <4>2
      <4> QED
        BY <4>3
    <3>2. CASE n # i
      <4>1. n < i
        BY <3>2, <1>0, <2>1, EligibleFinite DEF Eligible
      <4>2. PICK h \in DOMAIN hubs : hubs[h].dev = n
        BY <4>1, <2>3 DEF SInv, Kept
      <4>3. h \in DOMAIN hubs' /\ hubs'[h] = hubs[h]
        BY <2>1, <4>2
      <4> QED
        BY <4>2, <4>3
    <3> QED
      BY <3>1, <3>2
  <2> QED
    BY <2>1, <2>3, <2>4, <2>5 DEF SInv, Crowded
<1>3. CASE TooManyHubs
  <2>1. UNCHANGED <<devs, f, hubs>> /\ overrun' = TRUE /\ pc' # "scan" /\ pc = "scan" /\ ~Room
    BY <1>3 DEF TooManyHubs, AtHub, AtDevice
  <2>2. i \in Eligible
    BY <1>3, HubEligible DEF TooManyHubs
  <2>3. Len(hubs) <= Cardinality({n \in Eligible : n < i})
    BY <2>1 DEF SInv, Counting
  <2>4. Len(hubs) >= MaxHubs /\ Len(hubs) \in Nat /\ MaxHubs \in Nat
    BY <2>1, MaxHubsAssumption DEF Room, IInv, TableOK
  <2>5. /\ Cardinality({m \in Eligible : m < i + 1}) = Cardinality({m \in Eligible : m < i}) + 1
        /\ Cardinality({m \in Eligible : m < i}) \in Nat
        /\ Cardinality({m \in Eligible : m < i + 1}) <= Cardinality(Eligible)
    <3>1. {m \in Eligible : m < i + 1} \in SUBSET Eligible
      OBVIOUS
    <3> QED
      BY <3>1, <1>0, <2>2, OneMore, EligibleFinite, FS_Subset
  <2>6. Cardinality(Eligible) \in Nat
    BY <1>0, EligibleFinite, FS_CardinalityType
  <2>7. Cardinality(Eligible) > MaxHubs
    BY <2>3, <2>4, <2>5, <2>6
  <2>8. Eligible' = Eligible
    BY <2>1, FixedToo
  <2> QED
    BY <2>1, <2>7, <2>8 DEF SInv, Counting, Crowded, Kept
<1>4. CASE ScanDone
  <2>1. UNCHANGED <<devs, f, hubs, overrun>> /\ pc' # "scan" /\ pc = "scan" /\ i > Len(devs)
    BY <1>4 DEF ScanDone
  <2>2. Eligible' = Eligible /\ Answering' = Answering
    BY <2>1, Fixed, FixedToo
  <2>3. \A n \in Answering : n < i
    BY <1>0, <2>1 DEF DevsOK, LocalsOK, Answering
  <2> QED
    BY <2>1, <2>2, <2>3 DEF SInv, Counting, Crowded, Kept
<1>5. CASE DualOf
  <2>1. /\ UNCHANGED <<devs, f, overrun, pc>> /\ pc = "dual"
        /\ DOMAIN hubs' = DOMAIN hubs
        /\ \A j \in DOMAIN hubs :
              hubs'[j] = IF Marks(j) THEN [hubs[j] EXCEPT !.actionable = 2] ELSE hubs[j]
    BY <1>5, DualOfEffect
  <2>2. Eligible' = Eligible /\ Answering' = Answering
    BY <2>1, Fixed, FixedToo
  <2>3. \A j \in DOMAIN hubs : hubs'[j].dev = hubs[j].dev
    <3> TAKE j \in DOMAIN hubs
    <3>1. hubs[j] \in Info /\ 2 \in 0..2
      BY DEF IInv, TableOK
    <3>2. [hubs[j] EXCEPT !.actionable = 2].dev = hubs[j].dev
      BY Zenon, <3>1, Marked
    <3> QED
      BY <2>1, <3>2
  <2> QED
    BY <2>1, <2>2, <2>3 DEF SInv, Counting, Crowded, Kept
<1>6. CASE DualsDone \/ Count \/ UNCHANGED vars
  <2>1. /\ UNCHANGED <<devs, f, hubs, overrun, i>>
        /\ pc' = pc \/ (pc # "scan" /\ pc' # "scan")
    BY <1>6 DEF DualsDone, Count, vars
  <2>2. Eligible' = Eligible /\ Answering' = Answering
    BY <2>1, Fixed, FixedToo
  <2> QED
    BY <2>1, <2>2 DEF SInv, Counting, Crowded, Kept
<1> QED
  BY <1>1, <1>2, <1>3, <1>4, <1>5, <1>6 DEF Next

LEMMA SHolds == Spec => []SInv
BY SInit, SStep, InvHolds, PTL DEF Spec

\* The devices that need an element are those that answer and, with -f, the
\* silent ones.
LEMMA TableInv ==
  ASSUME IInv, SInv
  PROVE  TableSuffices
<1>1. DevsOK
  BY DEF IInv
<1> DEFINE S == IF f.force THEN Silent ELSE {}
<1>2. /\ IsFiniteSet(Answering) /\ IsFiniteSet(S) /\ Answering \cap S = {}
      /\ Eligible = Answering \cup S
  <2>1. Answering \in SUBSET Eligible /\ S \in SUBSET Eligible
    BY DEF Eligible
  <2>2. IsFiniteSet(Answering) /\ IsFiniteSet(S)
    BY Zenon, <1>1, <2>1, EligibleFinite, FS_Subset
  <2>3. Answering \cap Silent = {}
    BY DEF Answering, Silent
  <2> QED
    BY <2>2, <2>3 DEF Eligible
<1>3. Cardinality(S) = IF f.force THEN Cardinality(Silent) ELSE 0
  BY FS_EmptySet
<1> HIDE DEF S
<1>4. Cardinality(Answering \cup S) = Cardinality(Answering) + Cardinality(S)
  <2>1. Cardinality(Answering \cup S)
          = Cardinality(Answering) + Cardinality(S) - Cardinality(Answering \cap S)
    BY Zenon, <1>2, FS_Union
  <2>2. /\ Cardinality(Answering) \in Nat /\ Cardinality(S) \in Nat
        /\ Cardinality(Answering \cap S) = 0
    BY <1>2, FS_CardinalityType, FS_EmptySet
  <2> QED
    BY <2>1, <2>2
<1>5. overrun => Cardinality(Answering) + (IF f.force THEN Cardinality(Silent) ELSE 0) > MaxHubs
  BY <1>2, <1>3, <1>4 DEF SInv, Crowded
<1>6. pc # "scan" /\ ~overrun => Answering \subseteq {hubs[h].dev : h \in DOMAIN hubs}
  BY DEF SInv, Kept
<1> QED
  BY <1>5, <1>6 DEF TableSuffices

\* Nothing is written behind the table, and every hub that answers is in it, as
\* long as there are no more hubs than it has elements: for every tree, in
\* whatever order the devices are listed, and whatever is filtered.
THEOREM TableSafe == Spec => []TableSuffices
BY TableInv, InvHolds, SHolds, PTL

(***************************************************************************)
(* What the entries say of the devices                                     *)
(***************************************************************************)
\* Two records about hubs that differ at most in how the hub was chosen.
Alike(a, b) ==
    /\ a.super_speed = b.super_speed /\ a.nports = b.nports /\ a.cid = b.cid
    /\ a.vendor = b.vendor /\ a.bus = b.bus /\ a.path = b.path /\ a.serial = b.serial

\* Every entry is about the device it names, or empty as a device that said
\* nothing left it, and it is one of the filters' own choices exactly if they
\* choose it.
Faithful ==
    \A h \in DOMAIN hubs :
        /\ hubs[h].dev # 0 =>
              hubs[h].dev \in Answering /\ Alike(hubs[h], Described[hubs[h].dev])
        /\ hubs[h].dev = 0 =>
              /\ ~hubs[h].super_speed /\ hubs[h].cid = None /\ hubs[h].nports = 0 /\ Silent # {}
              /\ hubs[h].bus = 0 /\ hubs[h].path = <<>> /\ hubs[h].vendor = ""
        /\ hubs[h].actionable = 1 <=> hubs[h] \in ChosenInfos

\* The ports that -s finds something on, for each hub it has chosen: nothing
\* else is left in the mask.
Hit == [info \in Info |-> HitPorts(info)]
Hits ==
    f.search => \A h \in DOMAIN hubs :
        hubs[h].actionable = 1 => Hit[hubs[h]] # {} /\ mask \subseteq Hit[hubs[h]]

\* The filters look only at where the hub is and who made it.
LEMMA ChosenAlike ==
  ASSUME NEW a, NEW b, a.bus = b.bus, a.path = b.path, a.vendor = b.vendor
  PROVE  Chosen(a) = Chosen(b) /\ HitPorts(a) = HitPorts(b)
<1>1. SearchEnds(a) = SearchEnds(b)
  BY DEF SearchEnds, IsChild
<1>2. SearchHit(a) = SearchHit(b)
  BY <1>1 DEF SearchHit
<1> QED
  BY <1>2 DEF Chosen, HitPorts

LEMMA MarkedAlike ==
  ASSUME NEW r \in Info, NEW a \in 0..2
  PROVE  /\ [r EXCEPT !.actionable = a] \in Info
         /\ Alike([r EXCEPT !.actionable = a], r)
         /\ Chosen([r EXCEPT !.actionable = a]) = Chosen(r)
         /\ HitPorts([r EXCEPT !.actionable = a]) = HitPorts(r)
<1> DEFINE m == [r EXCEPT !.actionable = a]
<1>1. m \in Info
  BY Zenon, Marked
<1>2. Alike(m, r)
  BY DEF Info, Alike
<1>3. m.bus = r.bus /\ m.path = r.path /\ m.vendor = r.vendor
  BY <1>2 DEF Alike
<1> HIDE DEF m
<1>4. Chosen(m) = Chosen(r) /\ HitPorts(m) = HitPorts(r)
  BY <1>3, ChosenAlike
<1> QED
  BY <1>1, <1>2, <1>4 DEF m

LEMMA EntryAlike ==
  ASSUME NEW r \in Info
  PROVE  /\ Entry(r) \in Info /\ Entry(r).dev = r.dev /\ Alike(Entry(r), r)
         /\ Entry(r).actionable = 1 <=> Chosen(r)
         /\ Chosen(Entry(r)) = Chosen(r) /\ HitPorts(Entry(r)) = HitPorts(r)
<1> DEFINE m == IF Chosen(r) THEN 1 ELSE 0
<1>1. Entry(r) = [r EXCEPT !.actionable = m]
  BY Zenon DEF Entry
<1>2. m \in 0..2 /\ (m = 1 <=> Chosen(r))
  OBVIOUS
<1> HIDE DEF m
<1>3. Entry(r).actionable = m /\ Entry(r).dev = r.dev
  BY ZenonT(60), <1>1, <1>2, Marked
<1>4. /\ Entry(r) \in Info /\ Alike(Entry(r), r)
      /\ Chosen(Entry(r)) = Chosen(r) /\ HitPorts(Entry(r)) = HitPorts(r)
  BY ZenonT(60), <1>1, <1>2, MarkedAlike
<1> QED
  BY <1>2, <1>3, <1>4

\* The element the scan stores for device i.
LEMMA EntryFaithful ==
  ASSUME IInv, AddHub, NEW e, e = Entry(HubInfo(i))
  PROVE  /\ e \in Info
         /\ e.dev # 0 => e.dev \in Answering /\ Alike(e, Described[e.dev])
         /\ e.dev = 0 => /\ ~e.super_speed /\ e.cid = None /\ e.nports = 0 /\ Silent # {}
                         /\ e.bus = 0 /\ e.path = <<>> /\ e.vendor = ""
         /\ e.actionable = 1 <=> e \in ChosenInfos
<1>1. /\ HubInfo(i) \in Info /\ i \in DOMAIN devs
  BY AddHubEffect
<1>2. /\ e \in Info /\ e.dev = HubInfo(i).dev /\ Alike(e, HubInfo(i))
      /\ e.actionable = 1 <=> Chosen(HubInfo(i))
      /\ Chosen(e) = Chosen(HubInfo(i))
  BY <1>1, EntryAlike
<1>3. e.actionable = 1 <=> e \in ChosenInfos
  BY <1>2 DEF ChosenInfos
<1>4. CASE devs[i].answer = "empty"
  <2>1. HubInfo(i) = Zeroed(devs[i])
    BY <1>4 DEF HubInfo
  <2>2. /\ Zeroed(devs[i]).dev = 0 /\ ~Zeroed(devs[i]).super_speed
        /\ Zeroed(devs[i]).nports = 0
        /\ Zeroed(devs[i]).cid = None /\ Zeroed(devs[i]).bus = 0
        /\ Zeroed(devs[i]).path = <<>> /\ Zeroed(devs[i]).vendor = ""
    BY DEF Zeroed
  <2>3. /\ e.dev = 0 /\ ~e.super_speed /\ e.cid = None /\ e.bus = 0 /\ e.nports = 0
        /\ e.path = <<>> /\ e.vendor = ""
    BY <1>2, <2>1, <2>2 DEF Alike
  <2>4. i \in Silent
    BY <1>1, <1>4 DEF Silent, AddHub, AtHub, Readable
  <2> QED
    BY <1>2, <1>3, <2>3, <2>4
<1>5. CASE devs[i].answer # "empty"
  <2>1. HubInfo(i) = Filled(i) /\ Filled(i).dev = i /\ Described[i] = Filled(i)
    BY <1>1, <1>5 DEF HubInfo, Filled, Described
  <2>2. i \in Eligible /\ i # 0
    BY AddHubEffect, EligibleFinite DEF IInv
  <2>3. i \in Answering
    BY <1>5, <2>2 DEF Eligible, Silent
  <2>4. e.dev = i /\ Alike(e, Described[i])
    BY <1>2, <2>1
  <2> QED
    BY <1>2, <1>3, <2>2, <2>3, <2>4
<1> QED
  BY <1>4, <1>5

\* The main() guard counted what is in the table.
Counts ==
    pc = "go" =>
        /\ phys_count = Cardinality({j \in DOMAIN hubs : Counted(hubs[j])})
        /\ phys_count # 0
        /\ f.action # "keep" => phys_count = 1

FInv == Faithful /\ Hits /\ Counts

LEMMA FInit == Init => FInv
<1> SUFFICES ASSUME Init PROVE FInv
  OBVIOUS
<1>1. DOMAIN hubs = {} /\ pc = "scan"
  BY DEF Init
<1> QED
  BY <1>1 DEF FInv, Faithful, Hits, Counts

LEMMA FixedHit == ASSUME UNCHANGED <<devs, f>> PROVE Hit' = Hit
<1>1. Info' = Info
  BY Fixed
<1>2. ASSUME NEW info PROVE SearchEnds(info)' = SearchEnds(info)
  BY DEF SearchEnds, IsChild
<1>3. ASSUME NEW info PROVE HitPorts(info)' = HitPorts(info)
  BY <1>2 DEF HitPorts, SearchHit
<1> QED
  BY <1>1, <1>3 DEF Hit

\* A step that leaves the table alone and gives no port back.
LEMMA FStays ==
  ASSUME FInv, UNCHANGED <<devs, f, hubs>>, mask' \subseteq mask, Counts'
  PROVE  FInv'
<1>1. /\ Answering' = Answering /\ Described' = Described /\ ChosenInfos' = ChosenInfos
      /\ Hit' = Hit /\ Silent' = Silent
  BY Fixed, FixedToo, FixedHit
<1>2. Faithful'
  BY <1>1 DEF FInv, Faithful
<1>3. Hits'
  BY <1>1 DEF FInv, Hits
<1> QED
  BY <1>2, <1>3 DEF FInv

LEMMA FAddHub == IInv /\ FInv /\ AddHub => FInv'
<1> SUFFICES ASSUME IInv, FInv, AddHub PROVE FInv'
  OBVIOUS
<1> DEFINE e == Entry(HubInfo(i))
           n == Len(hubs)
<1>1. /\ UNCHANGED <<devs, f, pc>> /\ pc = "scan"
      /\ n \in Nat /\ DOMAIN hubs = 1..n /\ DOMAIN hubs' = 1..(n + 1)
      /\ \A h \in DOMAIN hubs : hubs'[h] = hubs[h]
      /\ hubs'[n + 1] = e
      /\ HubInfo(i) \in Info
      /\ mask' = Narrowed(HubInfo(i))
  BY AddHubEffect
<1>2. /\ Answering' = Answering /\ Described' = Described /\ ChosenInfos' = ChosenInfos
      /\ Hit' = Hit /\ Silent' = Silent
  BY <1>1, Fixed, FixedToo, FixedHit
<1>3. /\ e \in Info
      /\ e.dev # 0 => e.dev \in Answering /\ Alike(e, Described[e.dev])
      /\ e.dev = 0 => /\ ~e.super_speed /\ e.cid = None /\ e.nports = 0 /\ Silent # {}
                      /\ e.bus = 0 /\ e.path = <<>> /\ e.vendor = ""
      /\ e.actionable = 1 <=> e \in ChosenInfos
  BY EntryFaithful
<1>4. f.search /\ e.actionable = 1 => Hit[e] # {} /\ mask' \subseteq Hit[e]
  <2> SUFFICES ASSUME f.search, e.actionable = 1 PROVE Hit[e] # {} /\ mask' \subseteq Hit[e]
    OBVIOUS
  <2>1. Chosen(HubInfo(i)) /\ HitPorts(e) = HitPorts(HubInfo(i))
    BY <1>1, EntryAlike
  <2>2. SearchHit(HubInfo(i)) # {}
    BY <2>1 DEF Chosen
  <2>3. HitPorts(HubInfo(i)) # {} /\ mask' \subseteq HitPorts(HubInfo(i))
    BY <1>1, <2>2 DEF Narrowed, HitPorts
  <2>4. Hit[e] = HitPorts(e)
    BY <1>3 DEF Hit
  <2> QED
    BY <2>1, <2>3, <2>4
<1>5. mask' \subseteq mask
  BY <1>1, Narrows
<1> HIDE DEF e, n
<1>6. \A h \in DOMAIN hubs' : (h \in DOMAIN hubs /\ hubs'[h] = hubs[h]) \/ hubs'[h] = e
  BY <1>1
<1>7. Faithful'
  <2> SUFFICES ASSUME NEW h \in DOMAIN hubs', NEW x, x = hubs'[h]
               PROVE  /\ x.dev # 0 => x.dev \in Answering /\ Alike(x, Described[x.dev])
                      /\ x.dev = 0 =>
                            /\ ~x.super_speed /\ x.cid = None /\ x.nports = 0 /\ Silent # {}
                            /\ x.bus = 0 /\ x.path = <<>> /\ x.vendor = ""
                      /\ x.actionable = 1 <=> x \in ChosenInfos
    BY <1>2 DEF Faithful
  <2>1. CASE h \in DOMAIN hubs /\ x = hubs[h]
    BY <2>1 DEF FInv, Faithful
  <2>2. CASE x = e
    BY <2>2, <1>3
  <2> QED
    BY <2>1, <2>2, <1>6
<1>8. Hits'
  <2> SUFFICES ASSUME f.search, NEW h \in DOMAIN hubs', hubs'[h].actionable = 1
               PROVE  Hit[hubs'[h]] # {} /\ mask' \subseteq Hit[hubs'[h]]
    BY <1>1, <1>2 DEF Hits
  <2>1. CASE h \in DOMAIN hubs /\ hubs'[h] = hubs[h]
    BY <2>1, <1>5 DEF FInv, Hits
  <2>2. CASE hubs'[h] = e
    BY <2>2, <1>4
  <2> QED
    BY <2>1, <2>2, <1>6
<1>9. Counts'
  BY <1>1 DEF Counts
<1> QED
  BY <1>7, <1>8, <1>9 DEF FInv

LEMMA FDualOf == IInv /\ FInv /\ DualOf => FInv'
<1> SUFFICES ASSUME IInv, FInv, DualOf PROVE FInv'
  OBVIOUS
<1>1. /\ UNCHANGED <<devs, f, mask, pc>> /\ pc = "dual"
      /\ DOMAIN hubs' = DOMAIN hubs
      /\ \A j \in DOMAIN hubs :
            hubs'[j] = IF Marks(j) THEN [hubs[j] EXCEPT !.actionable = 2] ELSE hubs[j]
  BY DualOfEffect
<1>2. /\ Answering' = Answering /\ Described' = Described /\ ChosenInfos' = ChosenInfos
      /\ Hit' = Hit /\ Silent' = Silent
  BY <1>1, Fixed, FixedToo, FixedHit
<1>3. \A j \in DOMAIN hubs :
        /\ hubs'[j].dev = hubs[j].dev /\ Alike(hubs'[j], hubs[j])
        /\ hubs'[j].actionable = 1 <=> hubs[j].actionable = 1
        /\ hubs'[j] \in ChosenInfos <=> hubs[j] \in ChosenInfos
        /\ hubs'[j].actionable = 1 => hubs'[j] = hubs[j]
  <2> TAKE j \in DOMAIN hubs
  <2>1. CASE Marks(j)
    <3>1. hubs[j] \in Info /\ 2 \in 0..2 /\ hubs[j].actionable = 0
      BY <2>1 DEF IInv, TableOK, Marks
    <3> DEFINE m == [hubs[j] EXCEPT !.actionable = 2]
    <3>2. m \in Info /\ m.dev = hubs[j].dev /\ m.actionable = 2
      BY Zenon, <3>1, Marked
    <3>3. Alike(m, hubs[j]) /\ Chosen(m) = Chosen(hubs[j])
      BY Zenon, <3>1, MarkedAlike
    <3>4. m \in ChosenInfos <=> hubs[j] \in ChosenInfos
      BY <3>1, <3>2, <3>3 DEF ChosenInfos
    <3>5. hubs'[j] = m
      BY <1>1, <2>1
    <3> HIDE DEF m
    <3> QED
      BY <3>1, <3>2, <3>3, <3>4, <3>5
  <2>2. CASE ~Marks(j)
    BY <1>1, <2>2 DEF Alike
  <2> QED
    BY <2>1, <2>2
<1>4. Faithful'
  <2> SUFFICES ASSUME NEW h \in DOMAIN hubs
               PROVE  /\ hubs'[h].dev # 0 =>
                            hubs'[h].dev \in Answering /\ Alike(hubs'[h], Described[hubs'[h].dev])
                      /\ hubs'[h].dev = 0 =>
                            /\ ~hubs'[h].super_speed /\ hubs'[h].cid = None /\ hubs'[h].nports = 0 /\ Silent # {}
                            /\ hubs'[h].bus = 0 /\ hubs'[h].path = <<>> /\ hubs'[h].vendor = ""
                      /\ hubs'[h].actionable = 1 <=> hubs'[h] \in ChosenInfos
    BY <1>1, <1>2 DEF Faithful
  <2>1. /\ hubs[h].dev # 0 =>
              hubs[h].dev \in Answering /\ Alike(hubs[h], Described[hubs[h].dev])
        /\ hubs[h].dev = 0 =>
              /\ ~hubs[h].super_speed /\ hubs[h].cid = None /\ hubs[h].nports = 0 /\ Silent # {}
              /\ hubs[h].bus = 0 /\ hubs[h].path = <<>> /\ hubs[h].vendor = ""
        /\ hubs[h].actionable = 1 <=> hubs[h] \in ChosenInfos
    BY DEF FInv, Faithful
  <2>2. /\ hubs'[h].dev = hubs[h].dev /\ Alike(hubs'[h], hubs[h])
        /\ hubs'[h].actionable = 1 <=> hubs[h].actionable = 1
        /\ hubs'[h] \in ChosenInfos <=> hubs[h] \in ChosenInfos
    BY <1>3
  <2>3. hubs'[h].dev # 0 => Alike(hubs'[h], Described[hubs'[h].dev])
    BY <2>1, <2>2 DEF Alike
  <2> QED
    BY <2>1, <2>2, <2>3 DEF Alike
<1>5. Hits'
  BY <1>1, <1>2, <1>3 DEF FInv, Hits
<1>6. Counts'
  BY <1>1 DEF Counts
<1> QED
  BY <1>4, <1>5, <1>6 DEF FInv

LEMMA FStep == IInv /\ FInv /\ [Next]_vars => FInv'
<1> SUFFICES ASSUME IInv, FInv, [Next]_vars PROVE FInv'
  OBVIOUS
<1>1. CASE AddHub
  BY <1>1, FAddHub
<1>2. CASE DualOf
  BY <1>2, FDualOf
<1>3. CASE SkipDevice \/ Unreadable \/ NotSwitchable \/ ScanDone \/ DualsDone
  <2>1. UNCHANGED <<devs, f, hubs, mask>> /\ pc' # "go"
    BY <1>3 DEF SkipDevice, Unreadable, NotSwitchable, ScanDone, DualsDone, AtHub, AtDevice
  <2> QED
    BY <2>1, FStays DEF Counts
<1>4. CASE TooManyHubs
  <2>1. UNCHANGED <<devs, f, hubs>> /\ pc' # "go" /\ mask' \subseteq mask
    BY <1>4, Narrows DEF TooManyHubs
  <2> QED
    BY <2>1, FStays DEF Counts
<1>5. CASE Count
  <2>1. /\ UNCHANGED <<devs, f, hubs, mask>>
        /\ phys_count' = Cardinality({j \in DOMAIN hubs : Counted(hubs[j])})
        /\ pc' = CASE phys_count' = 0 -> "none"
                   [] phys_count' > 1 /\ f.action # "keep" -> "many"
                   [] OTHER -> "go"
    BY <1>5 DEF Count
  <2>2. phys_count' \in Nat
    BY <2>1, CountType
  <2>3. Cardinality({j \in DOMAIN hubs : Counted(hubs[j])})'
          = Cardinality({j \in DOMAIN hubs : Counted(hubs[j])})
    BY <2>1 DEF Counted
  <2>4. pc' = "go" => phys_count' # 0 /\ (f.action # "keep" => phys_count' = 1)
    BY <2>1, <2>2
  <2>5. Counts'
    BY <2>1, <2>3, <2>4 DEF Counts
  <2> QED
    BY <2>1, <2>5, FStays
<1>6. CASE UNCHANGED vars
  <2>1. UNCHANGED <<devs, f, hubs, mask, pc, phys_count>>
    BY <1>6 DEF vars
  <2>2. Counts'
    BY <2>1 DEF FInv, Counts, Counted
  <2> QED
    BY <2>1, <2>2, FStays
<1> QED
  BY <1>1, <1>2, <1>3, <1>4, <1>5, <1>6 DEF Next

LEMMA FHolds == Spec => []FInv
BY FInit, FStep, InvHolds, PTL DEF Spec

LEMMA InfoFields ==
  ASSUME NEW r \in Info
  PROVE  r.actionable \in 0..2 /\ r.dev \in 0 .. Len(devs)
BY DEF Info

\* A run that goes ahead does so for a hub that the filters chose themselves.
LEMMA SomeChosen ==
  ASSUME IInv, FInv, pc = "go"
  PROVE  \E g \in DOMAIN hubs : hubs[g].actionable = 1
<1>1. PICK j \in DOMAIN hubs : Counted(hubs[j])
  <2> DEFINE S == {j \in DOMAIN hubs : Counted(hubs[j])}
  <2>1. Cardinality(S) # 0
    BY DEF FInv, Counts
  <2> HIDE DEF S
  <2>2. S # {}
    BY <2>1, FS_EmptySet
  <2> QED
    BY <2>2 DEF S
<1>2. hubs[j] \in Info /\ hubs[j].actionable # 0
  BY <1>1 DEF Counted, IInv, TableOK
<1>3. hubs[j].actionable \in 0..2
  BY <1>2, InfoFields
<1>4. hubs[j].actionable \in {1, 2}
  BY <1>2, <1>3
<1> QED
  BY <1>4 DEF IInv, DerivedJustified

\* With -s as the only filter and one device that matches, the run operates on
\* that device's port and no other: for every tree, wherever the device is and
\* however many hubs are searched before or after its own.
THEOREM FocusSafe == Spec => []SearchFocus
<1>1. IInv /\ FInv => SearchFocus
  <2> SUFFICES ASSUME IInv, FInv, pc = "go", f.search, Cardinality(Wanted) = 1, NEW n \in Wanted
               PROVE  mask \subseteq {devs[n].path[Len(devs[n].path)]}
    BY DEF SearchFocus
  <2>1. PICK g \in DOMAIN hubs : hubs[g].actionable = 1
    BY SomeChosen
  <2>2. mask \subseteq HitPorts(hubs[g])
    <3>1. hubs[g] \in Info /\ mask \subseteq Hit[hubs[g]]
      BY <2>1 DEF FInv, Hits, IInv, TableOK
    <3> QED
      BY <3>1 DEF Hit
  <2>3. SearchHit(hubs[g]) \subseteq Wanted
    BY DEF SearchHit, SearchEnds, Wanted, Attached
  <2>4. Wanted = {n}
    <3>1. DOMAIN devs = 1 .. Len(devs) /\ Len(devs) \in Nat
      BY DEF IInv, DevsOK
    <3>2. IsFiniteSet(DOMAIN devs) /\ Wanted \in SUBSET DOMAIN devs
      BY <3>1, FS_Interval DEF Wanted
    <3>3. IsFiniteSet(Wanted)
      BY Zenon, <3>2, FS_Subset
    <3>4. PICK x : Wanted = {x}
      BY Zenon, <3>3, FS_Singleton
    <3> QED
      BY <3>4
  <2>5. HitPorts(hubs[g]) \subseteq {devs[n].path[Len(devs[n].path)]}
    BY <2>3, <2>4 DEF HitPorts
  <2> QED
    BY <2>2, <2>5
<1> QED
  BY <1>1, InvHolds, FHolds, PTL

(***************************************************************************)
(* One physical hub, and all of it                                         *)
(***************************************************************************)
\* What a tree must be like for the halves of its hubs to be told apart:
\* whatever devices are listed, filtered or chosen, a hub's two halves are
\* candidates for each other, ...
HalvesMatch ==
    \A m, n \in Answering : m # n /\ devs[m].phys = devs[n].phys =>
        Candidate(Described[m], Described[n])

\* ... and where container IDs are shared, so that a half of another hub is a
\* candidate as well, its own half is the better one: its path is more alike,
\* or as alike and it is listed first.
Better(n, b, m) ==
    LET sb == Score(Described[n], Described[b])
        sm == Score(Described[n], Described[m])
    IN  sm < sb \/ (sm = sb /\ b < m)
HalvesPreferred ==
    \A n, m \in Answering :
        devs[m].phys # devs[n].phys /\ Candidate(Described[n], Described[m]) =>
            \E b \in Answering :
                /\ devs[b].phys = devs[n].phys /\ Candidate(Described[n], Described[b])
                /\ Better(n, b, m)

\* The table has room for all of them; None is not the name of a hub.
Fitting ==
    /\ Cardinality(Answering) + (IF f.force THEN Cardinality(Silent) ELSE 0) <= MaxHubs
    /\ \A n \in DOMAIN devs : devs[n].phys # None

Distinguishable == HalvesMatch /\ HalvesPreferred /\ Fitting

\* A SuperSpeed hub's USB2 half is there and can be switched, too.
Usb2HalfThere ==
    \A n \in Answering : SuperSpeed(devs[n]) =>
        \E m \in Answering : devs[m].phys = devs[n].phys /\ ~SuperSpeed(devs[m])

\* A hub with the container ID of another is plugged in with a USB2 cable: the
\* other one's USB3 half is its best candidate, and both are operated on.  That
\* is what HalvesPreferred excludes.  Hubs whose container IDs are their own
\* satisfy it in whatever order they are listed.
LEMMA OwnContainerIds ==
  ASSUME \A m, n \in Answering :
            ContainerId(devs[m]) = ContainerId(devs[n]) /\ ContainerId(devs[m]) # None =>
                devs[m].phys = devs[n].phys
  PROVE  HalvesPreferred
<1> SUFFICES ASSUME NEW n \in Answering, NEW m \in Answering, devs[m].phys # devs[n].phys,
                    Candidate(Described[n], Described[m])
             PROVE  FALSE
  BY DEF HalvesPreferred
<1>1. n \in DOMAIN devs /\ m \in DOMAIN devs
  BY DEF Answering
<1>2. Described[n].cid = ContainerId(devs[n]) /\ Described[m].cid = ContainerId(devs[m])
  BY <1>1 DEF Described, Filled
<1> QED
  BY <1>2 DEF Candidate

LEMMA FixedTree ==
  ASSUME UNCHANGED <<devs, f>>
  PROVE  Distinguishable' = Distinguishable /\ Usb2HalfThere' = Usb2HalfThere
<1>1. Answering' = Answering /\ Described' = Described /\ Silent' = Silent
  BY Fixed, FixedToo DEF Silent
<1>2. HalvesMatch' = HalvesMatch
  BY <1>1 DEF HalvesMatch
<1>3. HalvesPreferred' = HalvesPreferred
  BY <1>1 DEF HalvesPreferred, Better
<1>4. Fitting' = Fitting
  BY <1>1 DEF Fitting
<1>5. Usb2HalfThere' = Usb2HalfThere
  BY <1>1 DEF Usb2HalfThere, SuperSpeed
<1> QED
  BY <1>2, <1>3, <1>4, <1>5 DEF Distinguishable

\* Hubs are compared by what Alike compares.
LEMMA AlikeMatch ==
  ASSUME NEW a, NEW a2, NEW b, NEW b2, Alike(a, a2), Alike(b, b2)
  PROVE  Candidate(a, b) = Candidate(a2, b2) /\ Score(a, b) = Score(a2, b2)
<1>1. /\ a.super_speed = a2.super_speed /\ a.nports = a2.nports /\ a.cid = a2.cid
      /\ a.bus = a2.bus /\ a.path = a2.path /\ a.serial = a2.serial
      /\ b.super_speed = b2.super_speed /\ b.nports = b2.nports /\ b.cid = b2.cid
      /\ b.bus = b2.bus /\ b.path = b2.path /\ b.serial = b2.serial
  BY DEF Alike
<1>2. Candidate(a, b) = Candidate(a2, b2)
  BY <1>1 DEF Candidate
<1>3. Score(a, b) = Score(a2, b2)
  BY <1>1 DEF Score
<1> QED
  BY <1>2, <1>3

LEMMA ScoreType == ASSUME NEW a, NEW b PROVE Score(a, b) \in 1..5
BY DEF Score

\* The entries at g and h are about the two halves of one hub.
OtherHalf(g, h) ==
    /\ g # h /\ hubs[g].dev # 0 /\ hubs[h].dev # 0
    /\ devs[hubs[g].dev].phys = devs[hubs[h].dev].phys

\* In a tree where the halves can be told apart, the dual pass finds for each
\* hub its other half, and nothing else.
LEMMA Recognised ==
  ASSUME IInv, SInv, FInv, Distinguishable, ~overrun, pc # "scan",
         NEW g \in DOMAIN hubs, hubs[g].cid # None, NEW x \in DOMAIN hubs
  PROVE  x \in BestMatches(hubs[g]) <=> OtherHalf(g, x)
<1> DEFINE n == hubs[g].dev
           Cand(h) == Candidate(hubs[g], hubs[h])
           S(h) == Score(hubs[g], hubs[h])
<1>1. \A h \in DOMAIN hubs : hubs[h].dev # 0 =>
        hubs[h].dev \in Answering /\ Alike(hubs[h], Described[hubs[h].dev])
  BY DEF FInv, Faithful
<1>2. n # 0 /\ n \in Answering /\ Alike(hubs[g], Described[n])
  BY <1>1 DEF FInv, Faithful
<1>3. \A h \in DOMAIN hubs : Cand(h) => h # g /\ hubs[h].dev # 0
  BY DEF Candidate, FInv, Faithful
<1>4. \A h \in DOMAIN hubs : hubs[h].dev # 0 =>
        /\ Cand(h) = Candidate(Described[n], Described[hubs[h].dev])
        /\ S(h) = Score(Described[n], Described[hubs[h].dev])
  BY <1>1, <1>2, AlikeMatch
<1>5. \A h \in DOMAIN hubs : S(h) \in 1..5
  BY ScoreType
<1>6. DOMAIN hubs \subseteq Nat
  BY DEF IInv, TableOK
<1>7. \A h, y \in DOMAIN hubs :
        hubs[h].dev # 0 /\ hubs[y].dev # 0 => (h < y <=> hubs[h].dev < hubs[y].dev)
  <2>1. Answering \subseteq Nat
    BY EligibleFinite DEF IInv, Eligible
  <2>2. \A h, y \in DOMAIN hubs : h < y /\ hubs[y].dev # 0 => hubs[h].dev < hubs[y].dev
    BY DEF IInv, Ordered
  <2> SUFFICES ASSUME NEW h \in DOMAIN hubs, NEW y \in DOMAIN hubs,
                      hubs[h].dev # 0, hubs[y].dev # 0
               PROVE  h < y <=> hubs[h].dev < hubs[y].dev
    OBVIOUS
  <2>3. hubs[h].dev \in Nat /\ hubs[y].dev \in Nat /\ h \in Nat /\ y \in Nat
    BY <1>1, <1>6, <2>1
  <2>4. /\ h < y => hubs[h].dev < hubs[y].dev
        /\ y < h => hubs[y].dev < hubs[h].dev
    BY <2>2
  <2>5. h = y => hubs[h].dev = hubs[y].dev
    OBVIOUS
  <2> QED
    BY <2>3, <2>4, <2>5
<1>8. \A h, y \in DOMAIN hubs : hubs[h].dev # 0 /\ hubs[h].dev = hubs[y].dev => h = y
  <2>1. Answering \subseteq Nat
    BY EligibleFinite DEF IInv, Eligible
  <2> QED
    BY <1>1, <1>6, <1>7, <2>1
<1>9. \A h \in DOMAIN hubs : OtherHalf(g, h) => Cand(h)
  <2> SUFFICES ASSUME NEW h \in DOMAIN hubs, OtherHalf(g, h) PROVE Cand(h)
    OBVIOUS
  <2>1. hubs[h].dev \in Answering /\ hubs[h].dev # n /\ devs[n].phys = devs[hubs[h].dev].phys
    BY <1>1, <1>8 DEF OtherHalf
  <2>2. Candidate(Described[n], Described[hubs[h].dev])
    BY <1>2, <2>1 DEF Distinguishable, HalvesMatch
  <2> QED
    BY <1>4, <2>2 DEF OtherHalf
<1>10. ASSUME NEW h \in DOMAIN hubs, OtherHalf(g, h), NEW y \in DOMAIN hubs, OtherHalf(g, y)
       PROVE  h = y
  <2> SUFFICES ASSUME h # y PROVE FALSE
    OBVIOUS
  <2> DEFINE a == hubs[h].dev
             b == hubs[y].dev
  <2>1. /\ a \in Answering /\ b \in Answering /\ a # b /\ a # n /\ b # n
        /\ devs[a].phys = devs[n].phys /\ devs[b].phys = devs[n].phys
    BY <1>1, <1>8, <1>10 DEF OtherHalf
  <2> HIDE DEF a, b, n
  <2>2. /\ Candidate(Described[n], Described[a]) /\ Candidate(Described[n], Described[b])
        /\ Candidate(Described[a], Described[b])
    BY <1>2, <2>1 DEF Distinguishable, HalvesMatch, n
  <2>3. \A m \in Answering : Described[m].super_speed \in BOOLEAN
    BY DEF Described, Filled, SuperSpeed, Answering
  <2> QED
    BY <1>2, <2>1, <2>2, <2>3 DEF Candidate
\* A candidate that is no half is beaten by the half.
<1>11. ASSUME NEW y \in DOMAIN hubs, Cand(y), ~OtherHalf(g, y)
       PROVE  \E h \in DOMAIN hubs : OtherHalf(g, h) /\ (S(y) < S(h) \/ (S(y) = S(h) /\ h < y))
  <2> DEFINE m == hubs[y].dev
  <2>1. y # g /\ m # 0 /\ m \in Answering /\ Candidate(Described[n], Described[m])
    BY <1>1, <1>3, <1>4, <1>11
  <2>2. devs[m].phys # devs[n].phys
    BY <1>2, <1>11, <2>1 DEF OtherHalf
  <2>3. PICK b \in Answering : /\ devs[b].phys = devs[n].phys
                               /\ Candidate(Described[n], Described[b])
                               /\ Better(n, b, m)
    BY <1>2, <2>1, <2>2 DEF Distinguishable, HalvesPreferred
  <2>4. b # n
    BY <2>3 DEF Candidate
  <2>5. PICK h \in DOMAIN hubs : hubs[h].dev = b
    BY DEF SInv, Kept
  <2>6. b # 0
    BY EligibleFinite DEF IInv, Eligible
  <2>7. OtherHalf(g, h)
    BY <1>2, <2>3, <2>4, <2>5, <2>6 DEF OtherHalf
  <2>8. S(h) = Score(Described[n], Described[b]) /\ S(y) = Score(Described[n], Described[m])
    BY <1>4, <2>1, <2>5, <2>6
  <2>9. b < m => h < y
    BY <1>7, <2>1, <2>5, <2>6
  <2> QED
    BY <2>3, <2>7, <2>8, <2>9 DEF Better
<1> HIDE DEF n, Cand, S
<1>12. x \in BestMatches(hubs[g]) <=>
         /\ Cand(x)
         /\ \A y \in DOMAIN hubs : Cand(y) => S(y) <= S(x)
         /\ \A y \in DOMAIN hubs : Cand(y) /\ (\A z \in DOMAIN hubs : Cand(z) => S(z) <= S(y)) => x <= y
  BY DEF BestMatches, Cand, S
<1>13. ASSUME OtherHalf(g, x) PROVE x \in BestMatches(hubs[g])
  <2>1. Cand(x)
    BY <1>9, <1>13
  <2>2. \A y \in DOMAIN hubs : Cand(y) => y = x \/ S(y) < S(x) \/ (S(y) = S(x) /\ x < y)
    BY <1>10, <1>11, <1>13
  <2>3. \A y \in DOMAIN hubs : Cand(y) => S(y) <= S(x)
    BY <1>5, <2>2
  <2>4. \A y \in DOMAIN hubs : Cand(y) /\ (\A z \in DOMAIN hubs : Cand(z) => S(z) <= S(y)) => x <= y
    <3> SUFFICES ASSUME NEW y \in DOMAIN hubs, Cand(y), S(x) <= S(y) PROVE x <= y
      BY <2>1
    <3> QED
      BY <1>5, <1>6, <2>2
  <2> QED
    BY <1>12, <2>1, <2>3, <2>4
<1>14. ASSUME x \in BestMatches(hubs[g]), ~OtherHalf(g, x) PROVE FALSE
  <2>1. /\ Cand(x)
        /\ \A y \in DOMAIN hubs : Cand(y) => S(y) <= S(x)
    BY <1>12, <1>14
  <2>2. PICK h \in DOMAIN hubs : OtherHalf(g, h) /\ (S(x) < S(h) \/ (S(x) = S(h) /\ h < x))
    BY <1>11, <1>14, <2>1
  <2>3. Cand(h) /\ S(h) <= S(x)
    BY <1>9, <2>1, <2>2
  <2>4. S(x) = S(h) /\ h < x
    BY <1>5, <2>2, <2>3
  <2>5. \A y \in DOMAIN hubs : Cand(y) => S(y) <= S(h)
    BY <2>1, <2>4
  <2>6. x <= h
    BY <1>12, <1>14, <2>3, <2>5
  <2> QED
    BY <1>6, <2>4, <2>6
<1> QED
  BY <1>13, <1>14

\* The scan derives nothing; after it, every derived hub is the other half of a
\* chosen one, and of each chosen hub that the pass has seen both halves are
\* operated on.
NoneYet == pc = "scan" => \A j \in DOMAIN hubs : hubs[j].actionable # 2
Derived ==
    \A j \in DOMAIN hubs : hubs[j].actionable = 2 =>
        \E g \in DOMAIN hubs : hubs[g].actionable = 1 /\ OtherHalf(g, j)
BothSeen ==
    ~f.exact /\ pc # "scan" =>
        \A g, h \in DOMAIN hubs :
            (pc = "dual" => g < i) /\ hubs[g].actionable = 1 /\ OtherHalf(g, h)
                => hubs[h].actionable # 0
HInv == NoneYet /\ (Distinguishable /\ ~overrun => Derived /\ BothSeen)

LEMMA HInit == Init => HInv
<1> SUFFICES ASSUME Init PROVE HInv
  OBVIOUS
<1>1. DOMAIN hubs = {}
  BY DEF Init
<1> QED
  BY <1>1 DEF HInv, NoneYet, Derived, BothSeen

LEMMA HStays ==
  ASSUME HInv, UNCHANGED <<devs, f, hubs>>, overrun' = overrun, NoneYet',
         BothSeen => BothSeen'
  PROVE  HInv'
<1>1. Distinguishable' = Distinguishable
  BY FixedTree
<1>2. Derived => Derived'
  BY DEF Derived, OtherHalf
<1> QED
  BY <1>1, <1>2 DEF HInv

LEMMA HAddHub == IInv /\ HInv /\ AddHub => HInv'
<1> SUFFICES ASSUME IInv, HInv, AddHub PROVE HInv'
  OBVIOUS
<1> DEFINE n == Len(hubs)
<1>1. /\ UNCHANGED <<devs, f, pc, overrun>> /\ pc = "scan"
      /\ n \in Nat /\ DOMAIN hubs = 1..n /\ DOMAIN hubs' = 1..(n + 1)
      /\ \A h \in DOMAIN hubs : hubs'[h] = hubs[h]
      /\ hubs'[n + 1] = Entry(HubInfo(i))
      /\ HubInfo(i) \in Info
  BY AddHubEffect
<1>2. Entry(HubInfo(i)).actionable \in {0, 1}
  BY <1>1, EntryType
<1> HIDE DEF n
<1>3. \A j \in DOMAIN hubs' : hubs'[j].actionable # 2
  <2> TAKE j \in DOMAIN hubs'
  <2>1. CASE j \in DOMAIN hubs
    BY <1>1, <2>1 DEF HInv, NoneYet
  <2>2. CASE j = n + 1
    BY <1>1, <1>2, <2>2
  <2> QED
    BY <1>1, <2>1, <2>2
<1> QED
  BY <1>1, <1>3 DEF HInv, NoneYet, Derived, BothSeen

LEMMA HDualOf == IInv /\ SInv /\ FInv /\ HInv /\ DualOf => HInv'
<1> SUFFICES ASSUME IInv, SInv, FInv, HInv, DualOf PROVE HInv'
  OBVIOUS
<1>1. /\ UNCHANGED <<devs, f, mask, perm_ok, overrun, pc, phys_count>> /\ i' = i + 1
      /\ pc = "dual" /\ i \in DOMAIN hubs /\ DOMAIN hubs' = DOMAIN hubs
      /\ \A j \in DOMAIN hubs :
            hubs'[j] = IF Marks(j) THEN [hubs[j] EXCEPT !.actionable = 2] ELSE hubs[j]
  BY DualOfEffect
<1>2. DOMAIN hubs \subseteq Nat
  BY DEF IInv, TableOK
<1>3. \A j \in DOMAIN hubs :
        /\ hubs'[j].dev = hubs[j].dev
        /\ hubs'[j].actionable = IF Marks(j) THEN 2 ELSE hubs[j].actionable
  <2> TAKE j \in DOMAIN hubs
  <2>1. hubs[j] \in Info /\ 2 \in 0..2
    BY DEF IInv, TableOK
  <2> DEFINE m == [hubs[j] EXCEPT !.actionable = 2]
  <2>2. m.dev = hubs[j].dev /\ m.actionable = 2
    BY Zenon, <2>1, Marked
  <2>3. hubs'[j] = IF Marks(j) THEN m ELSE hubs[j]
    BY <1>1
  <2> HIDE DEF m
  <2> QED
    BY <2>2, <2>3
<1>4. SUFFICES ASSUME Distinguishable, ~overrun PROVE Derived' /\ BothSeen'
  BY <1>1, FixedTree DEF HInv, NoneYet
<1>5. Derived /\ BothSeen
  BY <1>4 DEF HInv
<1>6. \A g, h \in DOMAIN hubs : OtherHalf(g, h)' = OtherHalf(g, h)
  BY <1>1, <1>3 DEF OtherHalf
<1>7. \A x \in DOMAIN hubs : HasDualRule(hubs[i]) =>
        (x \in BestMatches(hubs[i]) <=> OtherHalf(i, x))
  BY <1>1, <1>4, Recognised DEF HasDualRule
<1>8. \A g \in DOMAIN hubs : hubs'[g].actionable = 1 <=> hubs[g].actionable = 1
  BY <1>3 DEF Marks
<1>9. Derived'
  <2> SUFFICES ASSUME NEW j \in DOMAIN hubs, hubs'[j].actionable = 2
               PROVE  \E g \in DOMAIN hubs : hubs'[g].actionable = 1 /\ OtherHalf(g, j)'
    BY <1>1 DEF Derived
  <2>1. \E g \in DOMAIN hubs : hubs[g].actionable = 1 /\ OtherHalf(g, j)
    <3>1. CASE Marks(j)
      BY <3>1, <1>1, <1>7 DEF Marks, HasDualRule
    <3>2. CASE ~Marks(j)
      BY <3>2, <1>3, <1>5 DEF Derived
    <3> QED
      BY <3>1, <3>2
  <2> QED
    BY <2>1, <1>6, <1>8
<1>10. BothSeen'
  <2> SUFFICES ASSUME ~f.exact, NEW g \in DOMAIN hubs, NEW h \in DOMAIN hubs,
                      g < i + 1, hubs'[g].actionable = 1, OtherHalf(g, h)'
               PROVE  hubs'[h].actionable # 0
    BY <1>1 DEF BothSeen
  <2>1. hubs[g].actionable = 1 /\ OtherHalf(g, h)
    BY <1>6, <1>8
  <2>2. CASE g = i
    <3>1. hubs[g].cid # None
      <4>1. \A m \in Answering : \A n \in Answering :
              m # n /\ devs[m].phys = devs[n].phys => Described[m].cid # None
        BY <1>4 DEF Distinguishable, HalvesMatch, Candidate
      <4>2. /\ hubs[g].dev \in Answering /\ hubs[h].dev \in Answering
            /\ hubs[g].cid = Described[hubs[g].dev].cid
            /\ devs[hubs[g].dev].phys = devs[hubs[h].dev].phys
        BY <2>1 DEF FInv, Faithful, Alike, OtherHalf
      <4>3. hubs[g].dev # hubs[h].dev
        <5>1. g \in Nat /\ h \in Nat /\ g # h
          BY <1>2, <2>1 DEF OtherHalf
        <5>2. Answering \subseteq Nat
          BY EligibleFinite DEF IInv, Eligible
        <5>3. /\ g < h => hubs[g].dev < hubs[h].dev
              /\ h < g => hubs[h].dev < hubs[g].dev
          BY <2>1 DEF IInv, Ordered, OtherHalf
        <5>4. hubs[g].dev \in Nat /\ hubs[h].dev \in Nat
          BY <4>2, <5>2
        <5> QED
          BY <5>1, <5>3, <5>4
      <4> QED
        BY <4>1, <4>2, <4>3
    <3>2. HasDualRule(hubs[i]) /\ h \in BestMatches(hubs[i])
      BY <2>1, <2>2, <3>1, <1>7 DEF HasDualRule
    <3> QED
      BY <1>3, <3>2 DEF Marks
  <2>3. CASE g # i
    <3>1. g < i
      BY <1>1, <1>2, <2>3
    <3>2. hubs[h].actionable # 0
      BY <1>1, <1>5, <2>1, <3>1 DEF BothSeen
    <3> QED
      BY <1>3, <3>2
  <2> QED
    BY <2>2, <2>3
<1> QED
  BY <1>9, <1>10

LEMMA HStep == IInv /\ SInv /\ FInv /\ HInv /\ [Next]_vars => HInv'
<1> SUFFICES ASSUME IInv, SInv, FInv, HInv, [Next]_vars PROVE HInv'
  OBVIOUS
<1>1. CASE AddHub
  BY <1>1, HAddHub
<1>2. CASE DualOf
  BY <1>2, HDualOf
<1>3. CASE SkipDevice \/ Unreadable \/ NotSwitchable
  <2>1. UNCHANGED <<devs, f, hubs, pc, overrun>> /\ pc = "scan"
    BY <1>3 DEF SkipDevice, Unreadable, NotSwitchable, AtHub, AtDevice
  <2> QED
    BY <2>1, HStays DEF HInv, NoneYet, BothSeen
<1>4. CASE TooManyHubs
  <2>1. overrun' = TRUE /\ pc' # "scan"
    BY <1>4 DEF TooManyHubs
  <2> QED
    BY <2>1 DEF HInv, NoneYet
<1>5. CASE ScanDone
  <2>1. /\ UNCHANGED <<devs, f, hubs, overrun>> /\ pc = "scan" /\ i' = 1
        /\ pc' = IF f.exact THEN "count" ELSE "dual"
    BY <1>5 DEF ScanDone
  <2>2. DOMAIN hubs = 1 .. Len(hubs) /\ Len(hubs) \in Nat
    BY DEF IInv, TableOK
  <2>3. BothSeen'
    BY <2>1, <2>2 DEF BothSeen
  <2> QED
    BY <2>1, <2>3, HStays DEF NoneYet
<1>6. CASE DualsDone
  <2>1. UNCHANGED <<devs, f, hubs, overrun, i>> /\ pc = "dual" /\ i > Len(hubs) /\ pc' = "count"
    BY <1>6 DEF DualsDone
  <2>2. DOMAIN hubs = 1 .. Len(hubs) /\ Len(hubs) \in Nat /\ i \in Nat
    BY DEF IInv, TableOK, LocalsOK
  <2>3. \A g \in DOMAIN hubs : g < i
    BY <2>1, <2>2
  <2>4. BothSeen => BothSeen'
    BY <2>1, <2>3 DEF BothSeen, OtherHalf
  <2> QED
    BY <2>1, <2>4, HStays DEF NoneYet
<1>7. CASE Count
  <2>1. /\ UNCHANGED <<devs, f, hubs, overrun, i>> /\ pc = "count"
        /\ pc' \in {"none", "many", "go"}
    BY <1>7 DEF Count
  <2>2. BothSeen => BothSeen'
    BY <2>1 DEF BothSeen, OtherHalf
  <2> QED
    BY <2>1, <2>2, HStays DEF NoneYet
<1>8. CASE UNCHANGED vars
  <2>1. UNCHANGED <<devs, f, hubs, overrun, i, pc>>
    BY <1>8 DEF vars
  <2>2. BothSeen => BothSeen'
    BY <2>1 DEF BothSeen, OtherHalf
  <2> QED
    BY <2>1, <2>2, HStays DEF HInv, NoneYet
<1> QED
  BY <1>1, <1>2, <1>3, <1>4, <1>5, <1>6, <1>7, <1>8 DEF Next

LEMMA HHolds == Spec => []HInv
BY HInit, HStep, InvHolds, SHolds, FHolds, PTL DEF Spec

\* What the tree is like does not change during a run.
LEMMA TreeStays ==
  IInv /\ [Next]_vars =>
    (Distinguishable' = Distinguishable) /\ (Usb2HalfThere' = Usb2HalfThere)
<1> SUFFICES ASSUME [Next]_vars PROVE UNCHANGED <<devs, f>>
  BY FixedTree
<1>1. CASE Next
  BY <1>1 DEF Next, SkipDevice, Unreadable, NotSwitchable, AddHub, TooManyHubs, ScanDone,
              DualOf, DualsDone, Count
<1>2. CASE UNCHANGED vars
  BY <1>2 DEF vars
<1> QED
  BY <1>1, <1>2

\* The table is never too short for a tree that fits.
LEMMA NoOverrun ==
  ASSUME IInv, TableSuffices, Distinguishable
  PROVE  ~overrun
<1> SUFFICES ASSUME overrun PROVE FALSE
  OBVIOUS
<1> DEFINE c == Cardinality(Answering) + (IF f.force THEN Cardinality(Silent) ELSE 0)
<1>1. c > MaxHubs /\ c <= MaxHubs
  BY DEF TableSuffices, Distinguishable, Fitting
<1>2. MaxHubs \in Nat
  BY MaxHubsAssumption
<1>3. c \in Nat
  <2>1. Answering \in SUBSET (1 .. Len(devs)) /\ Silent \in SUBSET (1 .. Len(devs))
    BY DEF IInv, DevsOK, Answering, Silent
  <2>2. IsFiniteSet(1 .. Len(devs))
    BY FS_Interval DEF IInv, DevsOK
  <2>3. IsFiniteSet(Answering) /\ IsFiniteSet(Silent)
    BY Zenon, <2>1, <2>2, FS_Subset
  <2>4. Cardinality(Answering) \in Nat /\ Cardinality(Silent) \in Nat
    BY <2>3, FS_CardinalityType
  <2> QED
    BY <2>4
<1> HIDE DEF c
<1> QED
  BY <1>1, <1>2, <1>3

LEMMA BothActed ==
  ASSUME IInv, FInv, HInv, Distinguishable, ~overrun, ~f.exact,
         pc \in {"count", "none", "go", "many"},
         NEW g \in DOMAIN hubs, NEW h \in DOMAIN hubs,
         Phys(hubs[g]) = Phys(hubs[h]), Acted(hubs[g])
  PROVE  Acted(hubs[h])
<1>1. Derived /\ BothSeen
  BY DEF HInv
<1>2. \A x \in DOMAIN hubs :
        /\ hubs[x] \in Info /\ hubs[x].actionable \in 0..2
        /\ hubs[x].dev # 0 => devs[hubs[x].dev].phys # None
  <2> TAKE x \in DOMAIN hubs
  <2>1. hubs[x] \in Info
    BY DEF IInv, TableOK
  <2>2. hubs[x].dev # 0 => hubs[x].dev \in DOMAIN devs
    BY DEF FInv, Faithful, Answering
  <2> QED
    BY <2>1, <2>2, InfoFields DEF Distinguishable, Fitting
<1>3. CASE hubs[g].dev # 0
  <2>1. hubs[h].dev # 0 /\ devs[hubs[g].dev].phys = devs[hubs[h].dev].phys
    BY <1>2, <1>3 DEF Phys
  <2>2. CASE hubs[g].actionable = 1
    BY <1>1, <1>3, <2>1, <2>2 DEF BothSeen, OtherHalf, Acted
  <2>3. CASE hubs[g].actionable = 2
    <3>1. PICK x \in DOMAIN hubs : hubs[x].actionable = 1 /\ OtherHalf(x, g)
      BY <1>1, <2>3 DEF Derived
    <3>2. x = h \/ OtherHalf(x, h)
      BY <2>1, <3>1 DEF OtherHalf
    <3> QED
      BY <1>1, <3>1, <3>2 DEF BothSeen, Acted
  <2>4. hubs[g].actionable \in {1, 2}
    BY <1>2 DEF Acted
  <2> QED
    BY <2>2, <2>3, <2>4
\* Nothing is known of either: the filters do not tell them apart.
<1>4. CASE hubs[g].dev = 0
  <2>1. hubs[h].dev = 0
    BY <1>2, <1>4 DEF Phys
  <2>2. /\ hubs[g].bus = hubs[h].bus /\ hubs[g].path = hubs[h].path
        /\ hubs[g].vendor = hubs[h].vendor
    BY <1>4, <2>1 DEF FInv, Faithful
  <2>3. Chosen(hubs[g]) = Chosen(hubs[h])
    BY <2>2, ChosenAlike
  <2>4. hubs[g].actionable # 2
    BY <1>1, <1>4 DEF Derived, OtherHalf
  <2>5. hubs[g].actionable = 1
    BY <1>2, <2>4 DEF Acted
  <2>6. hubs[h] \in ChosenInfos
    BY <1>2, <2>3, <2>5 DEF FInv, Faithful, ChosenInfos
  <2>7. hubs[h].actionable = 1
    BY <2>6 DEF FInv, Faithful
  <2> QED
    BY <2>7 DEF Acted
<1> QED
  BY <1>3, <1>4

\* Both halves of a hub are operated on or none, unless -e is given: for any
\* number of hubs, in whatever order they are listed and whatever is filtered,
\* as long as the halves can be told apart and the table has room.
THEOREM HalvesTogether == Spec /\ Distinguishable => []BothHalves
<1>1. IInv /\ FInv /\ HInv /\ TableSuffices /\ Distinguishable => BothHalves
  BY NoOverrun, BothActed DEF BothHalves
<1>2. IInv /\ Distinguishable /\ [Next]_vars => Distinguishable'
  BY TreeStays
<1> QED
  BY <1>1, <1>2, InvHolds, FHolds, HHolds, TableSafe, PTL DEF Spec

\* Counting the USB2 halves in a tree where each hub has one amounts to
\* counting hubs.
LEMMA OneHubInv ==
  ASSUME IInv, FInv, HInv, TableSuffices, Distinguishable, Usb2HalfThere
  PROVE  OneHub
<1> SUFFICES ASSUME pc = "go", f.action # "keep",
                    NEW g \in DOMAIN hubs, NEW h \in DOMAIN hubs,
                    Acted(hubs[g]), Acted(hubs[h])
             PROVE  Phys(hubs[g]) = Phys(hubs[h])
  BY DEF OneHub
<1>1. PICK u : {j \in DOMAIN hubs : Counted(hubs[j])} = {u}
  <2> DEFINE S == {j \in DOMAIN hubs : Counted(hubs[j])}
  <2>1. Cardinality(S) = 1
    BY DEF FInv, Counts
  <2>2. DOMAIN hubs = 1 .. Len(hubs) /\ Len(hubs) \in Nat
    BY DEF IInv, TableOK
  <2>3. IsFiniteSet(DOMAIN hubs) /\ S \in SUBSET DOMAIN hubs
    BY <2>2, FS_Interval
  <2> HIDE DEF S
  <2>4. IsFiniteSet(S)
    BY Zenon, <2>3, FS_Subset
  <2>5. \E u : S = {u}
    BY Zenon, <2>1, <2>4, FS_Singleton
  <2> QED
    BY <2>5 DEF S
<1>2. \A x \in DOMAIN hubs : Counted(hubs[x]) => x = u
  BY <1>1
\* Whatever is operated on belongs to the hub that was counted.
<1>3. ASSUME NEW x \in DOMAIN hubs, Acted(hubs[x]) PROVE Phys(hubs[x]) = Phys(hubs[u])
  <2>1. CASE f.exact \/ ~hubs[x].super_speed
    BY <1>2, <1>3, <2>1 DEF Counted, Acted
  <2>2. CASE ~f.exact /\ hubs[x].super_speed
    <3>1. /\ hubs[x].dev # 0 /\ hubs[x].dev \in Answering
          /\ hubs[x].super_speed = Described[hubs[x].dev].super_speed
      BY <2>2 DEF FInv, Faithful, Alike
    <3>2. SuperSpeed(devs[hubs[x].dev])
      BY <2>2, <3>1 DEF Described, Filled, Answering
    <3>3. PICK m \in Answering : devs[m].phys = devs[hubs[x].dev].phys /\ ~SuperSpeed(devs[m])
      BY <3>1, <3>2 DEF Usb2HalfThere
    <3>4. ~overrun
      BY NoOverrun
    <3>5. PICK y \in DOMAIN hubs : hubs[y].dev = m
      BY <3>4 DEF TableSuffices
    <3>6. m # 0
      BY EligibleFinite DEF IInv, Eligible
    <3>7. Phys(hubs[x]) = Phys(hubs[y])
      BY <3>1, <3>3, <3>5, <3>6 DEF Phys
    <3>8. Acted(hubs[y])
      BY <1>3, <2>2, <3>4, <3>7, BothActed
    <3>9. ~hubs[y].super_speed
      <4>1. hubs[y].super_speed = Described[m].super_speed
        BY <3>5, <3>6 DEF FInv, Faithful, Alike
      <4> QED
        BY <3>3, <4>1 DEF Described, Filled, Answering
    <3> QED
      BY <1>2, <3>7, <3>8, <3>9 DEF Counted, Acted
  <2> QED
    BY <2>1, <2>2
<1> QED
  BY <1>3

\* main() goes on only with the halves of one physical hub, however the
\* filters were chosen: counting the USB2 halves in a tree where each hub has
\* one amounts to counting hubs.
THEOREM OneHubSafe == Spec /\ Distinguishable /\ Usb2HalfThere => []OneHub
<1>1. IInv /\ FInv /\ HInv /\ TableSuffices /\ Distinguishable /\ Usb2HalfThere => OneHub
  BY OneHubInv
<1>2. IInv /\ Distinguishable /\ Usb2HalfThere /\ [Next]_vars
        => Distinguishable' /\ Usb2HalfThere'
  BY TreeStays
<1> QED
  BY <1>1, <1>2, InvHolds, FHolds, HHolds, TableSafe, PTL DEF Spec
=============================================================================
