--------------------------- MODULE OpenvpnProofs ---------------------------
(***************************************************************************)
(* Theorems about making VPN users beside the installer, for any number of *)
(* runs, clients and installations.                                        *)
(***************************************************************************)
EXTENDS OpenvpnInstall, TLAPS

(***************************************************************************)
(* Appending to client.ovpn                                                *)
(***************************************************************************)
LEMMA Added ==
  ASSUME NEW S, NEW s \in Seq(S), NEW x \in S
  PROVE  /\ s \o <<x>> \in Seq(S)
         /\ Len(s \o <<x>>) = Len(s) + 1
         /\ (s \o <<x>>)[Len(s) + 1] = x
         /\ \A j \in 1 .. Len(s) : (s \o <<x>>)[j] = s[j]
OBVIOUS

LEMMA AddedNothing ==
  ASSUME NEW S, NEW s \in Seq(S)
  PROVE  s \o <<>> = s
OBVIOUS

LEMMA PartTypes ==
  ASSUME TypeOK, NEW r \in Runs
  PROVE  /\ HeadPart(r) \in Part
         /\ MyCrt(r) # None => CrtPart(MyCrt(r)) \in Part
         /\ MyKey(r) # None => KeyPart(MyKey(r)) \in Part
         /\ who[r] \in Names
<1>1. who[r] \in Names
  BY DEF TypeOK
<1>2. HeadPart(r) \in Part
  BY DEF TypeOK, HeadPart, Part
<1>3. MyCrt(r) # None => CrtPart(MyCrt(r)) \in Part
  BY <1>1 DEF TypeOK, MyCrt, CrtPart, Part
<1>4. MyKey(r) # None => KeyPart(MyKey(r)) \in Part
  BY <1>1 DEF TypeOK, MyKey, KeyPart, Part
<1> QED
  BY <1>1, <1>2, <1>3, <1>4

LEMMA AppendedType ==
  ASSUME TypeOK, NEW r \in Runs, NEW parts,
         parts = <<>> \/ \E x \in Part : parts = <<x>>
  PROVE  /\ Appended(r, parts) \in {None} \cup Seq(Part)
         /\ Appended(r, parts) # None => tmp
<1>1. Old \in Seq(Part)
  BY DEF TypeOK, Old
<1>2. Old \o parts \in Seq(Part)
  BY <1>1, Added, AddedNothing
<1>3. CASE InTree(r) /\ tmp
  BY <1>2, <1>3 DEF Appended
<1>4. CASE ~(InTree(r) /\ tmp)
  BY <1>4 DEF Appended, TypeOK
<1> QED
  BY <1>3, <1>4

(***************************************************************************)
(* The types                                                               *)
(***************************************************************************)
LEMMA TypeInit == Init => TypeOK
<1>1. ASSUME Init PROVE TypeOK
  BY <1>1, NoneAssumption DEF Init, UInit, TypeOK
<1> QED
  BY <1>1

\* What a step leaves to the types of the run itself.
LEMMA TypeGo ==
  ASSUME TypeOK, NEW r \in Runs,
         NEW l \in {"start", "clean", "key", "crt", "rmtmp", "mktmp", "check", "head", "addcrt",
                    "addkey", "mv", "rmdir", "over"}, Go(r, l)
  PROVE  /\ who' \in [Runs -> Names] /\ cwd' \in [Runs -> Int \cup {None}]
         /\ pc' \in [Runs -> {"start", "clean", "key", "crt", "rmtmp", "mktmp", "check", "head",
                              "addcrt", "addkey", "mv", "rmdir", "over"}]
BY DEF TypeOK, Go

LEMMA TypeEnd ==
  ASSUME TypeOK, NEW r \in Runs, End(r)
  PROVE  /\ who' \in [Runs -> Names] /\ cwd' \in [Runs -> Int \cup {None}]
         /\ pc' \in [Runs -> {"start", "clean", "key", "crt", "rmtmp", "mktmp", "check", "head",
                              "addcrt", "addkey", "mv", "rmdir", "over"}]
BY DEF TypeOK, End

LEMMA TypeUser ==
  ASSUME TypeOK, NEW r \in Runs, UStep(r), UNCHANGED ivars, Crowded
  PROVE  TypeOK'
<1> USE DEF ivars
<1>0. crowded' \in BOOLEAN /\ who[r] \in Names
  BY DEF TypeOK, Crowded
<1>1. CASE Enter(r)
  <2>1. /\ cwd' \in [Runs -> Int \cup {None}]
        /\ pc' \in [Runs -> {"start", "clean", "key", "crt", "rmtmp", "mktmp", "check", "head",
                             "addcrt", "addkey", "mv", "rmdir", "over"}]
    BY <1>1 DEF TypeOK, Enter
  <2> QED
    BY <1>0, <1>1, <2>1 DEF TypeOK, Enter, given, pki, work
<1>2. CASE Clean(r)
  <2>1. /\ key' \in [Names -> Runs \cup {None}]
        /\ crt' \in [Names -> [by : Runs, ca : Int] \cup {None}]
    BY <1>0, <1>2 DEF TypeOK, Clean, Removed
  <2> QED
    BY <1>0, <1>2, <2>1, TypeGo DEF TypeOK, Clean, given, work
<1>3. CASE BuildKey(r)
  <2>1. key' \in [Names -> Runs \cup {None}]
    BY <1>0, <1>3 DEF TypeOK, BuildKey
  <2> QED
    BY <1>0, <1>3, <2>1, TypeGo DEF TypeOK, BuildKey, given, work
<1>4. CASE BuildCrt(r)
  <2>1. ca \in Int
    BY <1>4 DEF TypeOK, BuildCrt, CanBuild
  <2>2. [by |-> r, ca |-> ca] \in [by : Runs, ca : Int]
    BY <2>1
  <2>3. crt' \in [Names -> [by : Runs, ca : Int] \cup {None}]
    BY <1>0, <1>4, <2>2 DEF TypeOK, BuildCrt
  <2> QED
    BY <1>0, <1>4, <2>3, TypeGo DEF TypeOK, BuildCrt, given, work
<1>5. CASE BuildFails(r)
  BY <1>0, <1>5, TypeGo DEF TypeOK, BuildFails, given, pki, work
<1>6. CASE RemoveTmp(r)
  BY <1>0, <1>6, TypeGo DEF TypeOK, RemoveTmp, AfterRmTmp, given, pki, work
<1>7. CASE MakeTmp(r)
  BY <1>0, <1>7, TypeGo DEF TypeOK, MakeTmp, TmpMade, InTree, given, pki
<1>8. CASE Check(r)
  BY <1>0, <1>8, TypeGo, TypeEnd DEF TypeOK, Check, given, pki, work
<1>9. CASE AppendHead(r)
  <2>1. HeadPart(r) \in Part
    BY PartTypes
  <2>2. client' \in {None} \cup Seq(Part) /\ (client' # None => tmp)
    BY <1>9, <2>1, AppendedType DEF AppendHead
  <2> QED
    BY <1>0, <1>9, <2>2, TypeGo DEF TypeOK, AppendHead, given, pki
<1>10. CASE AppendCrt(r)
  <2>1. MyCrt(r) # None => CrtPart(MyCrt(r)) \in Part
    BY PartTypes
  <2>2. client' \in {None} \cup Seq(Part) /\ (client' # None => tmp)
    BY <1>10, <2>1, AppendedType DEF AppendCrt
  <2> QED
    BY <1>0, <1>10, <2>2, TypeGo DEF TypeOK, AppendCrt, given, pki
<1>11. CASE AppendKey(r)
  <2>1. MyKey(r) # None => KeyPart(MyKey(r)) \in Part
    BY PartTypes
  <2>2. client' \in {None} \cup Seq(Part) /\ (client' # None => tmp)
    BY <1>11, <2>1, AppendedType DEF AppendKey
  <2> QED
    BY <1>0, <1>11, <2>2, TypeGo DEF TypeOK, AppendKey, given, pki
<1>12. CASE Move(r)
  <2>1. home' \in [Names -> {None} \cup Seq(Part)] /\ client' \in {client, None}
    BY <1>0, <1>12 DEF TypeOK, Move
  <2> QED
    BY <1>0, <1>12, <2>1, TypeGo DEF TypeOK, Move, given, pki
<1>13. CASE RmDir(r)
  BY <1>0, <1>13, TypeEnd DEF TypeOK, RmDir, InTree, given, pki
<1>14. CASE Kill(r)
  BY <1>0, <1>14, TypeEnd DEF TypeOK, Kill, given, pki, work
<1> QED
  BY <1>1, <1>2, <1>3, <1>4, <1>5, <1>6, <1>7, <1>8, <1>9, <1>10, <1>11, <1>12, <1>13, <1>14
     DEF UStep

LEMMA TypeInstall ==
  ASSUME TypeOK, IStep, Crowded
  PROVE  TypeOK'
<1> USE DEF IAt, TheRest, uvars, given, pki, work
<1>0. crowded' \in BOOLEAN
  BY DEF TypeOK, Crowded
<1>1. CASE Begin
  BY <1>0, <1>1 DEF TypeOK, Begin
<1>2. CASE RemoveOne
  <2>1. /\ key' \in [Names -> Runs \cup {None}]
        /\ crt' \in [Names -> [by : Runs, ca : Int] \cup {None}]
    BY <1>2 DEF TypeOK, RemoveOne
  <2>2. ca' \in Int \cup {None} /\ client' \in {client, None} /\ tmp' = tmp
    BY <1>2 DEF TypeOK, RemoveOne
  <2> QED
    BY <1>0, <1>2, <2>1, <2>2 DEF TypeOK, RemoveOne
<1>3. CASE RemoveTree
  BY <1>0, <1>3 DEF TypeOK, RemoveTree
<1>4. CASE MakeCadir
  BY <1>0, <1>4 DEF TypeOK, MakeCadir
<1>5. CASE BuildCa
  BY <1>0, <1>5 DEF TypeOK, BuildCa
<1>6. CASE BuildServer
  BY <1>0, <1>6 DEF TypeOK, BuildServer
<1>7. CASE RestartServer
  BY <1>0, <1>7 DEF TypeOK, RestartServer, Loaded
<1>8. CASE WriteTemplate
  BY <1>0, <1>8 DEF TypeOK, WriteTemplate
<1>9. CASE ClearHome
  BY <1>0, <1>9 DEF TypeOK, ClearHome, Emptied
<1>10. CASE TouchMarker
  BY <1>0, <1>10 DEF TypeOK, TouchMarker
<1>11. CASE InstallStops
  BY <1>0, <1>11 DEF TypeOK, InstallStops
<1>12. CASE DeleteMarker
  BY <1>0, <1>12 DEF TypeOK, DeleteMarker
<1> QED
  BY <1>1, <1>2, <1>3, <1>4, <1>5, <1>6, <1>7, <1>8, <1>9, <1>10, <1>11, <1>12 DEF IStep

LEMMA TypeStep == TypeOK /\ [Next]_vars => TypeOK'
<1>1. ASSUME TypeOK, Next PROVE TypeOK'
  BY <1>1, TypeUser, TypeInstall DEF Next
<1>2. ASSUME TypeOK, UNCHANGED vars PROVE TypeOK'
  BY <1>2 DEF TypeOK, vars, uvars, ivars, given, pki, work
<1> QED
  BY <1>1, <1>2

\* Type correctness, and no file without a directory, however runs and the
\* installer meet.
THEOREM TypeCorrect == Spec => []TypeOK
<1> QED
  BY TypeInit, TypeStep, PTL DEF Spec

(***************************************************************************)
(* One authority                                                           *)
(***************************************************************************)
Late    == {"head", "addcrt", "addkey", "mv"}
Settled == marker \/ ipc \in {"server", "restart", "template", "home", "mark"}

\* No run is in the directory of an installation that has not made it yet, and
\* until there is a CA in it nothing is assembled there.
Dated ==
    /\ tree # None => tree <= attempts
    /\ ca # None => ca <= attempts
    /\ \A r \in Runs : cwd[r] # None => cwd[r] <= attempts
    /\ ipc = "rm" => tree # attempts
    /\ ipc = "cadir" => tree = None
    /\ ipc \in {"rm", "cadir"} => \A r \in Runs : cwd[r] # attempts
    /\ ipc \in {"cadir", "ca"} =>
          /\ ca = None /\ client = None
          /\ \A m \in Names : crt[m] = None
          /\ \A r \in Runs : InTree(r) => pc[r] \notin Late

\* From the new CA on, all that a configuration can be made of is signed by it.
Issued ==
    /\ marker => ipc = "off"
    /\ Settled => /\ ca # None
                  /\ client # None => Signed(client)
                  /\ \A m \in Names : crt[m] # None => crt[m].ca = ca
    /\ marker \/ ipc \in {"restart", "template", "home", "mark"} => server = ca
    /\ marker \/ ipc \in {"template", "home", "mark"} => served = ca
    /\ marker \/ ipc = "mark" => \A m \in Names : home[m] # None => Signed(home[m])

AInv == TypeOK /\ Dated /\ Issued

LEMMA AuthorityInit == Init => AInv
<1>1. Init => Dated
  BY DEF Init, UInit, Dated, InTree
<1>2. Init => Issued
  BY DEF Init, UInit, Issued, Settled
<1> QED
  BY <1>1, <1>2, TypeInit DEF AInv

\* What a run can add to client.ovpn.
Bits(r) == {HeadPart(r)} \cup {CrtPart(c) : c \in {MyCrt(r)} \ {None}}
                         \cup {KeyPart(q) : q \in {MyKey(r)} \ {None}}
Grown(r) == {Old} \cup {Old \o <<x>> : x \in Bits(r)}

LEMMA GrownBy ==
  ASSUME TypeOK, NEW r \in Runs, pc[r] \in Late, NEW parts,
         parts = <<>> \/ \E x \in Bits(r) : parts = <<x>>
  PROVE  \/ Appended(r, parts) = client
         \/ InTree(r) /\ pc[r] \in Late /\ Appended(r, parts) \in Grown(r)
<1>1. Old \in Seq(Part)
  BY DEF TypeOK, Old
<1>2. parts = <<>> => Old \o parts = Old
  BY <1>1, AddedNothing
<1>3. Old \o parts \in Grown(r)
  BY <1>2 DEF Grown
<1> QED
  BY <1>3 DEF Appended

\* What a step of a run can do to the places of runs.
LEMMA UserPlace ==
  ASSUME TypeOK, NEW r \in Runs, UStep(r), NEW q \in Runs
  PROVE  /\ who' = who
         /\ q # r => cwd'[q] = cwd[q] /\ pc'[q] = pc[q]
         /\ cwd'[q] \in {cwd[q], None, tree}
         /\ pc'[q] \in Late => pc[q] \in Late \/ (q = r /\ pc[r] = "check" /\ Made(r))
         /\ pc'[q] \in Late => cwd'[q] = cwd[q]
<1>1. CASE Enter(r)
  BY <1>1 DEF Enter, TypeOK, Late
<1>2. CASE \E l \in {"key", "crt", "rmtmp", "mktmp", "check", "rmdir"} : Go(r, l)
  BY <1>2 DEF TypeOK, Late, Go
<1>3. CASE \E l \in {"addcrt", "addkey", "mv"} : (Go(r, l) /\ pc[r] \in Late)
  BY <1>3 DEF TypeOK, Late, Go
<1>4. CASE End(r)
  BY <1>4 DEF TypeOK, Late, End
<1>5. CASE Go(r, "head") /\ pc[r] = "check" /\ Made(r)
  BY <1>5 DEF TypeOK, Late, Go
<1> QED
  BY <1>1, <1>2, <1>3, <1>4, <1>5 DEF UStep, Clean, BuildKey, BuildCrt, BuildFails, RemoveTmp,
     MakeTmp, Check, AppendHead, AppendCrt, AppendKey, Move, RmDir, Kill, At, Late

\* What a step of a run can do to the files.
LEMMA UserFiles ==
  ASSUME TypeOK, NEW r \in Runs, UStep(r)
  PROVE  /\ tree' = tree /\ ca' = ca /\ template' = template
         /\ \A m \in Names : crt'[m] \in {crt[m], None} \/ (ca # None /\ crt'[m] = [by |-> r, ca |-> ca])
         /\ client' \in {client, None} \/ (InTree(r) /\ pc[r] \in Late /\ client' \in Grown(r))
         /\ \A m \in Names : home'[m] = home[m] \/ (client # None /\ home'[m] = client)
<1> USE DEF pki, work, given
<1>0. who[r] \in Names /\ crt = [m \in Names |-> crt[m]] /\ home = [m \in Names |-> home[m]]
  BY DEF TypeOK
<1>1. CASE Enter(r) \/ BuildFails(r) \/ Check(r) \/ Kill(r)
  BY <1>1 DEF Enter, BuildFails, Check, Kill
<1>2. CASE Clean(r)
  <2>1. \A m \in Names : crt'[m] \in {crt[m], None}
    BY <1>0, <1>2 DEF Clean, Removed, TypeOK
  <2> QED
    BY <1>2, <2>1 DEF Clean
<1>3. CASE BuildKey(r)
  BY <1>3 DEF BuildKey
<1>4. CASE BuildCrt(r)
  <2>1. \A m \in Names : crt'[m] = crt[m] \/ (ca # None /\ crt'[m] = [by |-> r, ca |-> ca])
    BY <1>0, <1>4 DEF BuildCrt, CanBuild, TypeOK
  <2> QED
    BY <1>4, <2>1 DEF BuildCrt
<1>6. CASE RemoveTmp(r)
  BY <1>6 DEF RemoveTmp, AfterRmTmp
<1>7. CASE MakeTmp(r) \/ RmDir(r)
  BY <1>7 DEF MakeTmp, RmDir
<1>9. CASE AppendHead(r)
  <2>1. client' = client \/ (InTree(r) /\ pc[r] \in Late /\ client' \in Grown(r))
    BY <1>9, GrownBy DEF AppendHead, At, Bits, Late
  <2> QED
    BY <1>9, <2>1 DEF AppendHead
<1>10. CASE AppendCrt(r)
  <2>1. client' = client \/ (InTree(r) /\ pc[r] \in Late /\ client' \in Grown(r))
    BY <1>10, GrownBy DEF AppendCrt, At, Bits, Late
  <2> QED
    BY <1>10, <2>1 DEF AppendCrt
<1>11. CASE AppendKey(r)
  <2>1. client' = client \/ (InTree(r) /\ pc[r] \in Late /\ client' \in Grown(r))
    BY <1>11, GrownBy DEF AppendKey, At, Bits, Late
  <2> QED
    BY <1>11, <2>1 DEF AppendKey
<1>12. CASE Move(r)
  <2>1. \A m \in Names : home'[m] = home[m] \/ (client # None /\ home'[m] = client)
    BY <1>0, <1>12 DEF Move, CanMove, TypeOK
  <2> QED
    BY <1>12, <2>1 DEF Move
<1> QED
  BY <1>1, <1>2, <1>3, <1>4, <1>6, <1>7, <1>9, <1>10, <1>11, <1>12 DEF UStep

\* Whatever a run adds once things are settled is signed by the CA.
LEMMA GrownSigned ==
  ASSUME TypeOK, Settled, Issued, NEW r \in Runs, NEW c \in Grown(r)
  PROVE  Signed(c)
<1>1. Old \in Seq(Part) /\ \A j \in 1 .. Len(Old) : Old[j].part # "key" => Old[j].ca = ca
  BY DEF TypeOK, Old, Issued, Signed
<1>2. CASE c = Old
  BY <1>1, <1>2 DEF Signed
<1>3. ASSUME NEW x \in Bits(r), c = Old \o <<x>> PROVE Signed(c)
  <2>1. x \in Part
    BY PartTypes DEF Bits
  <2>2. x.part # "key" => x.ca = ca
    <3>1. HeadPart(r).ca = ca /\ \A q : KeyPart(q).part = "key"
      BY DEF HeadPart, KeyPart
    <3>2. MyCrt(r) # None => CrtPart(MyCrt(r)).ca = ca
      BY PartTypes DEF Issued, CrtPart, MyCrt
    <3> QED
      BY <3>1, <3>2 DEF Bits
  <2>3. /\ c \in Seq(Part) /\ Len(c) = Len(Old) + 1 /\ c[Len(Old) + 1] = x
        /\ \A j \in 1 .. Len(Old) : c[j] = Old[j]
    BY <1>1, <1>3, <2>1, Added
  <2>4. ASSUME NEW j \in DOMAIN c, c[j].part # "key" PROVE c[j].ca = ca
    <3>1. j \in 1 .. Len(Old) \/ j = Len(Old) + 1
      BY <1>1, <2>3
    <3> QED
      BY <1>1, <2>2, <2>3, <2>4, <3>1
  <2> QED
    BY <2>4 DEF Signed
<1> QED
  BY <1>2, <1>3 DEF Grown

LEMMA AuthorityUser ==
  ASSUME AInv, NEW r \in Runs, UStep(r), UNCHANGED ivars
  PROVE  Dated' /\ Issued'
<1> USE DEF AInv, ivars
<1>1. Dated'
  <2>1. (tree # None => tree <= attempts)' /\ (ca # None => ca <= attempts)'
        /\ (ipc = "rm" => tree # attempts)'
        /\ (ipc = "cadir" => tree = None)'
    BY UserFiles DEF Dated
  <2>2. \A q \in Runs : (cwd[q] # None => cwd[q] <= attempts)'
                        /\ (ipc \in {"rm", "cadir"} => cwd[q] # attempts)'
    BY UserPlace, NoneAssumption DEF Dated, TypeOK
  <2>3. ASSUME ipc' \in {"cadir", "ca"}
        PROVE  /\ ca' = None /\ client' = None
               /\ \A m \in Names : crt'[m] = None
               /\ \A q \in Runs : InTree(q)' => pc'[q] \notin Late
    <3>1. ca = None /\ client = None /\ \A m \in Names : crt[m] = None
      BY <2>3 DEF Dated
    <3>2. \A q \in Runs : InTree(q) => pc[q] \notin Late
      BY <2>3 DEF Dated
    <3>3. \A q \in Runs : who[q] \in Names
      BY DEF TypeOK
    <3>4. client' = None /\ ca' = None /\ tree' = tree
      BY <3>1, <3>2, UserFiles
    <3>5. ASSUME NEW q \in Runs, InTree(q)', pc'[q] \in Late PROVE FALSE
      <4>1. InTree(q)
        BY <3>4, <3>5, UserPlace DEF InTree
      <4>2. crt[who[r]] = None
        BY <3>1, <3>3
      <4> QED
        BY <3>2, <3>5, <4>1, <4>2, UserPlace DEF Made, MyCrt
    <3> QED
      BY <3>1, <3>4, <3>5, UserFiles
  <2> QED
    BY <2>1, <2>2, <2>3 DEF Dated
<1>2. Settled' <=> Settled
  BY DEF Settled
<1>3. ca' = ca /\ \A c : Signed(c)' <=> Signed(c)
  BY UserFiles DEF Signed
<1>4. ASSUME Settled
      PROVE  /\ ca' # None /\ (client' # None => Signed(client'))
             /\ \A m \in Names : crt'[m] # None => crt'[m].ca = ca'
  <2>1. \A c \in Grown(r) : Signed(c)
    BY <1>4, GrownSigned
  <2>2. client # None => Signed(client)
    BY <1>4 DEF Issued
  <2>3. client' # None => Signed(client')
    BY <2>1, <2>2, UserFiles
  <2>4. ca # None /\ \A m \in Names : crt[m] # None => crt[m].ca = ca
    BY <1>4 DEF Issued
  <2>5. ASSUME NEW m \in Names, crt'[m] # None PROVE crt'[m].ca = ca
    <3>1. crt'[m] = crt[m] \/ crt'[m] = [by |-> r, ca |-> ca]
      BY <2>5, UserFiles
    <3> QED
      BY <2>4, <2>5, <3>1
  <2> QED
    BY <1>3, <2>3, <2>4, <2>5
<1>5. ASSUME marker \/ ipc = "mark", NEW m \in Names, home'[m] # None
      PROVE  Signed(home'[m])
  BY <1>5, UserFiles DEF Issued, Settled
<1> QED
  BY <1>1, <1>2, <1>3, <1>4, <1>5 DEF Issued

LEMMA AuthorityInstall ==
  ASSUME AInv, IStep
  PROVE  Dated' /\ Issued'
<1> USE DEF IAt, TheRest, uvars, given, pki, work, AInv
<1>0. attempts \in Nat /\ ipc \in {"off", "rm", "cadir", "ca", "server", "restart", "template", "home", "mark"}
  BY DEF TypeOK
<1>1. CASE Begin
  <2>1. attempts' = attempts + 1 /\ ipc' = "rm" /\ ~marker' /\ UNCHANGED uvars
    BY <1>1 DEF Begin
  <2>2. {tree, ca} \subseteq Int \cup {None} /\ \A r \in Runs : cwd[r] \in Int \cup {None}
    BY DEF TypeOK
  <2>3. /\ tree' # None => tree' <= attempts' /\ tree' # attempts'
        /\ ca' # None => ca' <= attempts'
        /\ \A r \in Runs : cwd'[r] # None => cwd'[r] <= attempts' /\ cwd'[r] # attempts'
    BY <1>0, <2>1, <2>2 DEF Dated
  <2>4. attempts' # None
    BY <1>0, <2>1, NoneAssumption
  <2>5. Dated'
    BY <2>1, <2>3, <2>4 DEF Dated
  <2>6. Issued'
    BY <2>1 DEF Issued, Settled
  <2> QED
    BY <2>5, <2>6
<1>2. CASE RemoveOne
  BY <1>2 DEF RemoveOne, Dated, Issued, Settled
<1>3. CASE RemoveTree
  <2>1. Dated'
    BY <1>3 DEF RemoveTree, Dated, InTree
  <2>2. Issued'
    BY <1>3 DEF RemoveTree, Issued, Settled
  <2> QED
    BY <2>1, <2>2
<1>4. CASE MakeCadir
  <2>1. Dated'
    BY <1>0, <1>4 DEF MakeCadir, Dated, InTree
  <2>2. Issued'
    BY <1>4 DEF MakeCadir, Issued, Settled
  <2> QED
    BY <2>1, <2>2
<1>5. CASE BuildCa
  <2>1. Dated'
    BY <1>0, <1>5 DEF BuildCa, Dated
  <2>2. Issued'
    BY <1>0, <1>5, NoneAssumption DEF BuildCa, Dated, Issued, Settled
  <2> QED
    BY <2>1, <2>2
<1>6. CASE BuildServer \/ RestartServer \/ WriteTemplate
  <2>1. Dated'
    BY <1>6 DEF BuildServer, RestartServer, WriteTemplate, Dated, InTree
  <2>2. UNCHANGED <<ca, client, crt, home, marker>>
    BY <1>6 DEF BuildServer, RestartServer, WriteTemplate
  <2>3. \A c : Signed(c)' <=> Signed(c)
    BY <2>2 DEF Signed
  <2>4. Issued'
    BY <1>6, <2>2, <2>3 DEF BuildServer, RestartServer, WriteTemplate, Loaded, Issued, Settled
  <2> QED
    BY <2>1, <2>4
<1>7. CASE ClearHome
  <2>1. Dated'
    BY <1>7 DEF ClearHome, Dated, InTree
  <2>2. UNCHANGED <<ca, client, crt, marker>> /\ \A m \in Names : home'[m] = None
    BY <1>7 DEF ClearHome, Emptied
  <2>3. \A c : Signed(c)' <=> Signed(c)
    BY <2>2 DEF Signed
  <2>4. Issued'
    BY <1>7, <2>2, <2>3 DEF ClearHome, Issued, Settled
  <2> QED
    BY <2>1, <2>4
<1>8. CASE TouchMarker \/ InstallStops \/ DeleteMarker
  <2>1. UNCHANGED uvars /\ attempts' = attempts /\ ipc' = "off"
    BY <1>8 DEF TouchMarker, InstallStops, DeleteMarker
  <2>2. Dated'
    BY <2>1 DEF Dated, InTree
  <2>3. \A c : Signed(c)' <=> Signed(c)
    BY <2>1 DEF Signed
  <2>4. Issued'
    BY <1>8, <2>1, <2>3 DEF TouchMarker, InstallStops, DeleteMarker, Issued, Settled
  <2> QED
    BY <2>2, <2>4
<1> QED
  BY <1>1, <1>2, <1>3, <1>4, <1>5, <1>6, <1>7, <1>8 DEF IStep

LEMMA AuthorityStep == AInv /\ [Next]_vars => AInv'
<1>1. ASSUME AInv, Next PROVE AInv'
  BY <1>1, TypeStep, AuthorityUser, AuthorityInstall DEF AInv, Next
<1>2. ASSUME AInv, UNCHANGED vars PROVE AInv'
  <2>1. TypeOK'
    BY <1>2, TypeStep DEF AInv
  <2>2. Dated'
    BY <1>2 DEF AInv, Dated, InTree, vars, uvars, ivars, given, pki, work
  <2>3. Issued'
    BY <1>2 DEF AInv, Issued, Settled, Signed, vars, uvars, ivars, given, pki, work
  <2> QED
    BY <2>1, <2>2, <2>3 DEF AInv
<1> QED
  BY <1>1, <1>2

\* After a complete installation there is one CA, for the server and for every
\* configuration, whoever was making users when and wherever earlier
\* installations stopped.
THEOREM AuthoritySafe == Spec => []OneAuthority
<1>1. Spec => []AInv
  BY AuthorityInit, AuthorityStep, PTL DEF Spec
<1>2. AInv => OneAuthority
  BY DEF AInv, Issued, Settled, OneAuthority
<1> QED
  BY <1>1, <1>2, PTL

(***************************************************************************)
(* Whole configurations                                                    *)
(***************************************************************************)
Alone == ~Meets /\ \A q, r \in Runs : q # r => ~Clash(q, r)

Own(r) == ca # None /\ MyKey(r) = r /\ MyCrt(r) = [by |-> r, ca |-> ca]
Holds(k) == client # None /\ Len(client) = k
OwnCrt(r) == CrtPart([by |-> r, ca |-> ca])

\* How far a run that nobody is in the way of has got with its key and its
\* certificate, and with its file.
KeyStage(r) ==
    /\ r \in Active => InTree(r)
    /\ pc[r] = "key" => MyKey(r) = None /\ MyCrt(r) = None
    /\ pc[r] = "crt" => MyKey(r) = r /\ MyCrt(r) = None
    /\ pc[r] \in {"rmtmp", "mktmp", "check"} => (MyCrt(r) # None => Own(r))
    /\ pc[r] \in Late => Own(r) /\ Made(r)
FileStage(r) ==
    /\ pc[r] = "mktmp" => client = None
    /\ pc[r] \in {"check", "head"} => tmp /\ client = None
    /\ pc[r] = "addcrt" => tmp /\ Holds(1)
    /\ pc[r] = "addkey" => tmp /\ Holds(2)
    /\ pc[r] = "mv" => Holds(3)
    /\ pc[r] \in {"addcrt", "addkey", "mv"} => client[1] = HeadPart(r)
    /\ pc[r] \in {"addkey", "mv"} => client[2] = OwnCrt(r)
    /\ pc[r] = "mv" => client[3] = KeyPart(r)

\* What is under /home/vpn has a CA older than any installation under way, so that
\* the template this one may write is of no earlier date than the CA.
Homes ==
    /\ \A m \in Names : home[m] # None =>
          /\ \E r \in Runs : who[r] = m /\ Matched(r, home[m])
          /\ home[m][1].template # None \/ TooEarly(home[m])
          /\ home[m][1].ca \in Int /\ home[m][1].ca <= attempts
          /\ ipc # "off" => home[m][1].ca < attempts
          /\ marker => home[m][1].template = template
    /\ ipc = "mark" => \A m \in Names : home[m] = None

WInv == AInv /\ (~crowded => /\ Alone /\ Homes
                             /\ \A r \in Runs : KeyStage(r) /\ FileStage(r))

LEMMA WholeInit == Init => WInv
<1>1. Init => Alone /\ Homes
  BY DEF Init, UInit, Alone, Meets, Active, Clash, Assembling, Homes
<1>2. Init => \A r \in Runs : KeyStage(r) /\ FileStage(r)
  BY DEF Init, UInit, KeyStage, FileStage, Active, Late
<1> QED
  BY <1>1, <1>2, AuthorityInit DEF WInv

\* A run changes only the key and certificate of its own client, and tmp only
\* when it has begun with it.
LEMMA UserOwn ==
  ASSUME TypeOK, NEW r \in Runs, UStep(r)
  PROVE  /\ \A m \in Names \ {who[r]} : key'[m] = key[m] /\ crt'[m] = crt[m]
         /\ r \in Active \/ (key' = key /\ crt' = crt)
         /\ (client' = client /\ tmp' = tmp) \/ Assembling(r) \/ Assembling(r)'
<1> USE DEF pki, work, given
<1>0. who[r] \in Names /\ crt = [m \in Names |-> crt[m]] /\ key = [m \in Names |-> key[m]]
  BY DEF TypeOK
<1>1. CASE Enter(r) \/ BuildFails(r) \/ Check(r) \/ Kill(r)
  BY <1>1 DEF Enter, BuildFails, Check, Kill
<1>2. CASE Clean(r) \/ BuildKey(r) \/ BuildCrt(r)
  <2>1. \A m \in Names \ {who[r]} : key'[m] = key[m] /\ crt'[m] = crt[m]
    BY <1>0, <1>2 DEF Clean, BuildKey, BuildCrt
  <2> QED
    BY <1>2, <2>1 DEF Clean, BuildKey, BuildCrt, At, Active
<1>3. CASE RemoveTmp(r)
  <2>1. pc'[r] = "mktmp"
    BY <1>3 DEF RemoveTmp, Go, TypeOK
  <2>2. Assembling(r)'
    BY <2>1 DEF Assembling, Active
  <2> QED
    BY <1>3, <2>2 DEF RemoveTmp
<1>4. CASE MakeTmp(r) \/ AppendHead(r) \/ AppendCrt(r) \/ AppendKey(r) \/ Move(r) \/ RmDir(r)
  <2>1. Assembling(r)
    BY <1>4 DEF MakeTmp, AppendHead, AppendCrt, AppendKey, Move, RmDir, At, Assembling, Active
  <2> QED
    BY <1>4, <2>1 DEF MakeTmp, AppendHead, AppendCrt, AppendKey, Move, RmDir
<1> QED
  BY <1>1, <1>2, <1>3, <1>4 DEF UStep

LEMMA StagesOfOthers ==
  ASSUME WInv, NEW r \in Runs, UStep(r), ~crowded, Alone', NEW q \in Runs \ {r}
  PROVE  KeyStage(q)' /\ FileStage(q)'
<1>0. TypeOK /\ Alone /\ KeyStage(q) /\ FileStage(q) /\ who[q] \in Names
  BY DEF WInv, AInv, TypeOK
<1>1. /\ pc'[q] = pc[q] /\ cwd'[q] = cwd[q] /\ who' = who
      /\ tree' = tree /\ ca' = ca /\ template' = template
  <2>1. pc'[q] = pc[q] /\ cwd'[q] = cwd[q] /\ who' = who
    BY <1>0, UserPlace
  <2> QED
    BY <1>0, <2>1, UserFiles
<1>2. q \in Active' <=> q \in Active
  BY <1>1 DEF Active
<1>3. q \in Active => MyKey(q)' = MyKey(q) /\ MyCrt(q)' = MyCrt(q)
  <2>1. q \in Active /\ r \in Active => who[q] # who[r]
    BY <1>0 DEF Alone, Clash
  <2> QED
    BY <1>0, <1>1, <2>1, UserOwn DEF MyKey, MyCrt
<1>4. Assembling(q) => client' = client /\ tmp' = tmp
  <2>1. Assembling(q) => ~Assembling(r)
    BY <1>0 DEF Alone, Clash
  <2>2. Assembling(q)' => ~Assembling(r)'
    BY DEF Alone, Clash
  <2>3. Assembling(q) => Assembling(q)'
    BY <1>1, <1>2 DEF Assembling
  <2> QED
    BY <1>0, <2>1, <2>2, <2>3, UserOwn
<1>5. KeyStage(q)'
  BY <1>0, <1>1, <1>2, <1>3 DEF KeyStage, Active, InTree, Late, Own, Made
<1>6. FileStage(q)'
  <2>1. HeadPart(q)' = HeadPart(q) /\ OwnCrt(q)' = OwnCrt(q)
    BY <1>1 DEF HeadPart, OwnCrt
  <2>2. KeyPart(q)' = KeyPart(q)
    BY DEF KeyPart
  <2>3. CASE Assembling(q)
    BY <1>0, <1>1, <1>4, <2>1, <2>2, <2>3 DEF FileStage, Holds
  <2>4. CASE ~Assembling(q)
    BY <1>1, <2>4 DEF FileStage, Assembling, Active
  <2> QED
    BY <2>3, <2>4
<1> QED
  BY <1>5, <1>6

\* Growing client.ovpn by one part.
LEMMA GrowOne ==
  ASSUME TypeOK, NEW r \in Runs, InTree(r), tmp, NEW x \in Part, NEW k \in Nat,
         Len(Old) = k, client' = Appended(r, <<x>>)
  PROVE  Holds(k + 1)' /\ client'[k + 1] = x /\ \A j \in 1..k : client'[j] = Old[j]
<1>1. Old \in Seq(Part)
  BY DEF TypeOK, Old
<1>2. client' = Old \o <<x>>
  BY DEF Appended
<1>3. client' # None
  BY <1>1, <1>2, Added, FileAssumption
<1> QED
  BY <1>1, <1>2, <1>3, Added DEF Holds

\* A step that leaves the file alone, and what it does to the stage of the run.
LEMMA KeyStageOwn ==
  ASSUME WInv, NEW r \in Runs, UStep(r), ~crowded
  PROVE  KeyStage(r)'
<1> USE DEF At, pki, work, given
<1>0. TypeOK /\ Alone /\ KeyStage(r) /\ who[r] \in Names /\ (r \in Active => InTree(r))
  BY DEF WInv, AInv, TypeOK, KeyStage
<1>1. tree' = tree /\ ca' = ca /\ who' = who
  BY <1>0, UserFiles, UserPlace
<1>2. CASE Enter(r)
  <2>1. pc'[r] = "clean" /\ cwd'[r] = tree /\ tree # None
    BY <1>0, <1>2 DEF Enter, TypeOK
  <2> QED
    BY <1>1, <2>1 DEF KeyStage, InTree, Late
<1>3. CASE Clean(r)
  <2>1. pc'[r] = "key" /\ cwd'[r] = cwd[r] /\ InTree(r)
    BY <1>0, <1>3 DEF Clean, Go, TypeOK, Active
  <2>2. key'[who[r]] = None /\ crt'[who[r]] = None
    BY <1>0, <1>3, <2>1 DEF Clean, Removed, TypeOK
  <2> QED
    BY <1>1, <2>1, <2>2 DEF KeyStage, InTree, Late, MyKey, MyCrt
<1>4. CASE BuildKey(r)
  <2>1. pc'[r] = "crt" /\ cwd'[r] = cwd[r] /\ InTree(r) /\ pc[r] = "key"
    BY <1>0, <1>4 DEF BuildKey, Go, TypeOK, Active
  <2>2. key'[who[r]] = r /\ crt' = crt
    BY <1>0, <1>4 DEF BuildKey, TypeOK
  <2> QED
    BY <1>0, <1>1, <2>1, <2>2 DEF KeyStage, InTree, Late, MyKey, MyCrt
<1>5. CASE BuildCrt(r)
  <2>1. pc'[r] = "rmtmp" /\ cwd'[r] = cwd[r] /\ InTree(r) /\ pc[r] = "crt" /\ ca # None
    BY <1>0, <1>5 DEF BuildCrt, CanBuild, Go, TypeOK, Active
  <2>2. crt'[who[r]] = [by |-> r, ca |-> ca] /\ key' = key
    BY <1>0, <1>5 DEF BuildCrt, TypeOK
  <2> QED
    BY <1>0, <1>1, <2>1, <2>2 DEF KeyStage, InTree, Late, MyKey, MyCrt, Own
<1>6. CASE BuildFails(r)
  <2>1. pc'[r] = "rmtmp" /\ cwd'[r] = cwd[r] /\ InTree(r) /\ pc[r] \in {"key", "crt"}
    BY <1>0, <1>6 DEF BuildFails, Go, TypeOK, Active
  <2>2. crt' = crt /\ key' = key
    BY <1>6 DEF BuildFails
  <2> QED
    BY <1>0, <1>1, <2>1, <2>2 DEF KeyStage, InTree, Late, MyKey, MyCrt, Own
<1>7. CASE RemoveTmp(r) \/ MakeTmp(r) \/ (Check(r) /\ Made(r)) \/ AppendHead(r) \/ AppendCrt(r)
           \/ AppendKey(r) \/ Move(r)
  <2>1. /\ cwd'[r] = cwd[r] /\ InTree(r)
        /\ \/ pc[r] = "rmtmp" /\ pc'[r] = "mktmp"
           \/ pc[r] = "mktmp" /\ pc'[r] = "check"
           \/ pc[r] = "check" /\ pc'[r] = "head" /\ Made(r)
           \/ pc[r] \in Late /\ pc'[r] \in Late \cup {"rmdir"}
    BY <1>0, <1>7 DEF RemoveTmp, MakeTmp, Check, AppendHead, AppendCrt, AppendKey, Move, Go, TypeOK,
       Active, Late
  <2>2. crt' = crt /\ key' = key
    BY <1>7 DEF RemoveTmp, MakeTmp, Check, AppendHead, AppendCrt, AppendKey, Move
  <2>3. Own(r)' <=> Own(r)
    BY <1>1, <2>2 DEF Own, MyKey, MyCrt
  <2> QED
    BY <1>0, <1>1, <2>1, <2>2, <2>3 DEF KeyStage, InTree, Late, MyKey, MyCrt, Made
<1>8. CASE (Check(r) /\ ~Made(r)) \/ RmDir(r) \/ Kill(r)
  <2>1. pc'[r] = "over"
    BY <1>0, <1>8 DEF Check, RmDir, Kill, End, TypeOK
  <2> QED
    BY <2>1 DEF KeyStage, Active, Late
<1> QED
  BY <1>2, <1>3, <1>4, <1>5, <1>6, <1>7, <1>8 DEF UStep

LEMMA FileStageOwn ==
  ASSUME WInv, NEW r \in Runs, UStep(r), ~crowded
  PROVE  FileStage(r)'
<1> USE DEF At, pki, work, given
<1>0. /\ TypeOK /\ KeyStage(r) /\ FileStage(r) /\ who[r] \in Names
      /\ r \in Active => InTree(r)
      /\ pc[r] \in Late => Own(r) /\ Made(r)
  BY DEF WInv, AInv, TypeOK, KeyStage
<1>1. HeadPart(r)' = HeadPart(r) /\ OwnCrt(r)' = OwnCrt(r) /\ KeyPart(r)' = KeyPart(r)
  BY <1>0, UserFiles DEF HeadPart, OwnCrt, KeyPart
<1>2. CASE Enter(r) \/ Clean(r) \/ BuildKey(r) \/ BuildCrt(r) \/ BuildFails(r) \/ RmDir(r)
           \/ Kill(r) \/ (Check(r) /\ ~Made(r)) \/ Move(r)
  <2>1. pc'[r] \in {"clean", "key", "crt", "rmtmp", "over", "rmdir"}
    BY <1>0, <1>2 DEF Enter, Clean, BuildKey, BuildCrt, BuildFails, RmDir, Kill, Check, Move,
       Go, End, TypeOK
  <2> QED
    BY <2>1 DEF FileStage
<1>3. CASE RemoveTmp(r)
  <2>1. pc'[r] = "mktmp" /\ InTree(r)
    BY <1>0, <1>3 DEF RemoveTmp, Go, TypeOK, Active
  <2> QED
    BY <1>3, <2>1 DEF RemoveTmp, AfterRmTmp, FileStage
<1>4. CASE MakeTmp(r)
  <2>1. pc'[r] = "check" /\ InTree(r) /\ client = None
    BY <1>0, <1>4 DEF MakeTmp, Go, TypeOK, Active, FileStage
  <2> QED
    BY <1>4, <2>1 DEF MakeTmp, TmpMade, FileStage
<1>5. CASE Check(r) /\ Made(r)
  <2>1. pc'[r] = "head" /\ client = None /\ tmp
    BY <1>0, <1>5 DEF Check, Go, TypeOK, FileStage
  <2> QED
    BY <1>5, <2>1 DEF Check, FileStage
<1>6. CASE AppendHead(r)
  <2>1. pc'[r] = "addcrt" /\ InTree(r) /\ client = None /\ tmp
    BY <1>0, <1>6 DEF AppendHead, Go, TypeOK, Active, FileStage
  <2>2. Old = <<>> /\ Len(Old) = 0
    BY <2>1 DEF Old
  <2>3. Holds(1)' /\ client'[1] = HeadPart(r)
    BY <1>0, <1>6, <2>1, <2>2, GrowOne, PartTypes DEF AppendHead
  <2> QED
    BY <1>1, <1>6, <2>1, <2>3 DEF AppendHead, FileStage
<1>7. CASE AppendCrt(r)
  <2>1. /\ pc'[r] = "addkey" /\ pc[r] = "addcrt" /\ InTree(r) /\ Holds(1) /\ tmp
        /\ client[1] = HeadPart(r)
    BY <1>0, <1>7 DEF AppendCrt, Go, TypeOK, Active, FileStage
  <2>2. Old = client /\ Len(Old) = 1
    BY <2>1 DEF Old, Holds
  <2>3. MyCrt(r) # None /\ CrtPart(MyCrt(r)) = OwnCrt(r)
    <3>1. MyCrt(r) = [by |-> r, ca |-> ca]
      BY <1>0, <2>1 DEF Late, Own
    <3>2. Made(r)
      BY <1>0, <2>1 DEF Late
    <3> QED
      BY <3>1, <3>2 DEF OwnCrt, Made
  <2>4. client' = Appended(r, <<OwnCrt(r)>>) /\ OwnCrt(r) \in Part
    BY <1>0, <1>7, <2>3, PartTypes DEF AppendCrt
  <2>5. Holds(2)' /\ client'[2] = OwnCrt(r) /\ client'[1] = HeadPart(r)
    BY <1>0, <2>1, <2>2, <2>4, GrowOne
  <2> QED
    BY <1>1, <1>7, <2>1, <2>5 DEF AppendCrt, FileStage
<1>8. CASE AppendKey(r)
  <2>1. /\ pc'[r] = "mv" /\ pc[r] = "addkey" /\ InTree(r) /\ Holds(2) /\ tmp
        /\ client[1] = HeadPart(r) /\ client[2] = OwnCrt(r)
    BY <1>0, <1>8 DEF AppendKey, Go, TypeOK, Active, FileStage
  <2>2. Old = client /\ Len(Old) = 2
    BY <2>1 DEF Old, Holds
  <2>3. MyKey(r) = r /\ MyKey(r) # None
    BY <1>0, <2>1, NoneAssumption DEF Late, Own
  <2>4. client' = Appended(r, <<KeyPart(r)>>) /\ KeyPart(r) \in Part
    BY <1>0, <1>8, <2>3, PartTypes DEF AppendKey
  <2>5. Holds(3)' /\ client'[3] = KeyPart(r) /\ client'[1] = HeadPart(r) /\ client'[2] = OwnCrt(r)
    BY <1>0, <2>1, <2>2, <2>4, GrowOne
  <2> QED
    BY <1>1, <1>8, <2>1, <2>5 DEF AppendKey, FileStage
<1> QED
  BY <1>2, <1>3, <1>4, <1>5, <1>6, <1>7, <1>8 DEF UStep

\* What a run that nobody was in the way of delivers.
LEMMA MoveWhole ==
  ASSUME WInv, NEW r \in Runs, ~crowded, Move(r)
  PROVE  /\ CanMove(r) /\ Matched(r, client) /\ client[1].template = template /\ client[1].ca = ca /\ ca # None
         /\ home' = [home EXCEPT ![who[r]] = client]
<1>1. FileStage(r) /\ pc[r] = "mv" /\ InTree(r) /\ Own(r)
  BY DEF WInv, KeyStage, Move, At, Active, Late
<1>2. /\ client # None /\ Len(client) = 3
      /\ client[1] = HeadPart(r) /\ client[2] = OwnCrt(r) /\ client[3] = KeyPart(r)
  BY <1>1 DEF FileStage, Holds
<1>3. /\ client[1].part = "head" /\ client[1].by = r /\ client[1].ca = ca
      /\ client[1].template = template
  BY <1>2 DEF HeadPart
<1>4. Matched(r, client)
  BY <1>1, <1>2, <1>3 DEF Matched, Own, OwnCrt
<1>5. CanMove(r)
  BY <1>1, <1>2 DEF CanMove
<1> QED
  BY <1>1, <1>3, <1>4, <1>5 DEF Move, Own

LEMMA HomesUser ==
  ASSUME WInv, NEW r \in Runs, UStep(r), UNCHANGED ivars, ~crowded
  PROVE  Homes'
<1>0. TypeOK /\ Homes /\ Alone /\ who[r] \in Names
  BY DEF WInv, AInv, TypeOK
<1>1. template' = template /\ who' = who /\ marker' = marker /\ ipc' = ipc
  BY <1>0, UserFiles, UserPlace DEF ivars
<1>2. CASE ~Move(r)
  <2>1. home' = home
    BY <1>2 DEF UStep, Enter, Clean, BuildKey, BuildCrt, BuildFails, RemoveTmp, MakeTmp, Check,
       AppendHead, AppendCrt, AppendKey, RmDir, Kill
  <2> QED
    BY <1>0, <1>1, <2>1 DEF Homes, Matched, TooEarly, CrtPart, KeyPart, ivars
<1>3. CASE Move(r)
  <2>1. /\ Matched(r, client) /\ client[1].template = template /\ client[1].ca = ca /\ ca # None
        /\ home' = [home EXCEPT ![who[r]] = client]
    BY <1>3, MoveWhole
  <2>2. home'[who[r]] = client /\ \A m \in Names \ {who[r]} : home'[m] = home[m]
    BY <1>0, <2>1 DEF TypeOK
  <2>3. ipc = "off"
    BY <1>0, <1>3 DEF Alone, Meets, Active, Move, At
  <2>4. ASSUME NEW m \in Names, home'[m] # None
        PROVE  /\ \E q \in Runs : who'[q] = m /\ Matched(q, home'[m])
               /\ home'[m][1].template # None \/ TooEarly(home'[m])
               /\ home'[m][1].ca \in Int /\ home'[m][1].ca <= attempts
               /\ marker' => home'[m][1].template = template'
    <3>1. CASE m = who[r]
      <4>1. ca \in Int /\ ca <= attempts
        BY <1>0, <2>1 DEF WInv, AInv, Dated, TypeOK
      <4>2. client[1].template # None \/ TooEarly(client)
        BY <2>1 DEF TooEarly
      <4> QED
        BY <1>1, <2>1, <2>2, <3>1, <4>1, <4>2
    <3>2. CASE m # who[r]
      <4>1. home'[m] = home[m]
        BY <2>2, <3>2
      <4> QED
        BY <1>0, <1>1, <2>4, <4>1 DEF Homes
    <3> QED
      BY <3>1, <3>2
  <2> QED
    BY <1>1, <2>3, <2>4 DEF Homes, Matched, TooEarly, CrtPart, KeyPart, ivars
<1> QED
  BY <1>2, <1>3

LEMMA HomesInstall ==
  ASSUME WInv, IStep, ~crowded
  PROVE  Homes'
<1> USE DEF IAt, TheRest, uvars, given
<1>0. Homes /\ (marker => ipc = "off") /\ attempts \in Nat
  BY DEF WInv, AInv, Issued, TypeOK
<1>1. CASE Begin \/ RemoveOne \/ RemoveTree \/ MakeCadir \/ BuildCa \/ BuildServer \/ RestartServer
           \/ InstallStops \/ DeleteMarker
  <2>1. /\ home' = home /\ template' = template /\ who' = who /\ (marker' => marker) /\ ipc' # "mark"
        /\ \/ attempts' = attempts /\ (ipc' # "off" => ipc # "off")
           \/ attempts' = attempts + 1
    BY <1>1 DEF Begin, RemoveOne, RemoveTree, MakeCadir, BuildCa, BuildServer, RestartServer,
       InstallStops, DeleteMarker
  <2>2. ASSUME NEW m \in Names, home'[m] # None
        PROVE  /\ \E r \in Runs : who'[r] = m /\ Matched(r, home'[m])
               /\ home'[m][1].template # None \/ TooEarly(home[m])'
               /\ marker' => home'[m][1].template = template'
    BY <1>0, <2>1, <2>2 DEF Homes, TooEarly
  <2>3. ASSUME NEW m \in Names, home'[m] # None
        PROVE  /\ home'[m][1].ca \in Int /\ home'[m][1].ca <= attempts'
               /\ ipc' # "off" => home'[m][1].ca < attempts'
    <3>1. /\ home[m][1].ca \in Int /\ home[m][1].ca <= attempts
          /\ ipc # "off" => home[m][1].ca < attempts
      BY <1>0, <2>1, <2>3 DEF Homes
    <3> QED
      BY <1>0, <2>1, <3>1
  <2> QED
    BY <2>1, <2>2, <2>3 DEF Homes, Matched, CrtPart, KeyPart
<1>2. CASE WriteTemplate
  <2>1. /\ home' = home /\ who' = who /\ ~marker' /\ ipc' = "home" /\ ipc = "template"
        /\ attempts' = attempts /\ template' = attempts
    BY <1>0, <1>2 DEF WriteTemplate
  <2>2. ASSUME NEW m \in Names, home[m] # None
        PROVE  home'[m][1].template # None \/ TooEarly(home[m])'
    BY <1>0, <2>1, <2>2 DEF Homes, TooEarly
  <2> QED
    BY <1>0, <2>1, <2>2 DEF Homes, Matched, CrtPart, KeyPart
<1>3. CASE ClearHome
  <2>1. \A m \in Names : home'[m] = None
    BY <1>3 DEF ClearHome, Emptied
  <2> QED
    BY <2>1 DEF Homes
<1>4. CASE TouchMarker
  <2>1. \A m \in Names : home'[m] = None
    BY <1>0, <1>4 DEF TouchMarker, Homes
  <2> QED
    BY <2>1 DEF Homes
<1> QED
  BY <1>1, <1>2, <1>3, <1>4 DEF IStep

LEMMA StagesInstall ==
  ASSUME WInv, IStep, ~crowded, Alone', NEW r \in Runs
  PROVE  KeyStage(r)' /\ FileStage(r)'
<1>1. pc' = pc /\ who' = who /\ cwd' = cwd
  BY DEF IStep, Begin, RemoveOne, RemoveTree, MakeCadir, BuildCa, BuildServer, RestartServer,
     WriteTemplate, ClearHome, TouchMarker, InstallStops, DeleteMarker, TheRest, uvars
<1>2. CASE r \notin Active
  BY <1>1, <1>2 DEF Active, KeyStage, FileStage, Late
<1>3. CASE r \in Active
  <2>1. ipc = "off" /\ ipc' = "off"
    BY <1>1, <1>3 DEF WInv, Alone, Meets, Active
  <2>2. DeleteMarker
    BY <2>1 DEF IStep, IAt, Begin, RemoveOne, RemoveTree, MakeCadir, BuildCa, BuildServer,
       RestartServer, WriteTemplate, ClearHome, TouchMarker, InstallStops
  <2>3. UNCHANGED <<tree, ca, template, key, crt, tmp, client>>
    BY <2>2 DEF DeleteMarker, uvars, given, pki, work
  <2>4. KeyStage(r) /\ FileStage(r)
    BY DEF WInv
  <2>5. KeyStage(r)'
    BY <1>1, <2>3, <2>4 DEF KeyStage, Active, InTree, Late, Own, MyKey, MyCrt, Made
  <2>6. FileStage(r)'
    BY <1>1, <2>3, <2>4 DEF FileStage, Holds, HeadPart, OwnCrt, KeyPart, CrtPart
  <2> QED
    BY <2>5, <2>6
<1> QED
  BY <1>2, <1>3

LEMMA WholeStep == WInv /\ [Next]_vars => WInv'
<1>1. ASSUME WInv, Next PROVE WInv'
  <2>1. AInv'
    BY <1>1, AuthorityStep DEF WInv
  <2>2. ASSUME ~crowded' PROVE ~crowded /\ Alone'
    BY <1>1, <2>2 DEF Next, Crowded, Alone
  <2>3. ASSUME ~crowded', IStep PROVE Homes' /\ \A q \in Runs : KeyStage(q)' /\ FileStage(q)'
    BY <1>1, <2>2, <2>3, HomesInstall, StagesInstall
  <2>4. ASSUME ~crowded', NEW r \in Runs, UStep(r), UNCHANGED ivars
        PROVE  Homes' /\ \A q \in Runs : KeyStage(q)' /\ FileStage(q)'
    <3>1. Homes'
      BY <1>1, <2>2, <2>4, HomesUser
    <3>2. KeyStage(r)' /\ FileStage(r)'
      BY <1>1, <2>2, <2>4, KeyStageOwn, FileStageOwn
    <3>3. \A q \in Runs \ {r} : KeyStage(q)' /\ FileStage(q)'
      BY <1>1, <2>2, <2>4, StagesOfOthers
    <3> QED
      BY <3>1, <3>2, <3>3
  <2>5. ~crowded' => Alone' /\ Homes' /\ \A q \in Runs : KeyStage(q)' /\ FileStage(q)'
    BY <1>1, <2>2, <2>3, <2>4 DEF Next
  <2> QED
    BY <2>1, <2>5 DEF WInv
<1>2. ASSUME WInv, UNCHANGED vars PROVE WInv'
  <2>1. AInv'
    BY <1>2, AuthorityStep DEF WInv
  <2> USE <1>2 DEF vars, uvars, ivars, given, pki, work
  <2>2. Alone' <=> Alone
    BY DEF Alone, Meets, Clash, Active, Assembling
  <2>3. Homes' <=> Homes
    BY DEF Homes, Matched, TooEarly, CrtPart, KeyPart
  <2>4. ASSUME NEW r \in Runs PROVE KeyStage(r)' <=> KeyStage(r)
    BY DEF KeyStage, Active, InTree, Late, Own, MyKey, MyCrt, Made
  <2>5. ASSUME NEW r \in Runs PROVE FileStage(r)' <=> FileStage(r)
    BY DEF FileStage, Holds, HeadPart, OwnCrt, KeyPart, CrtPart
  <2> QED
    BY <2>1, <2>2, <2>3, <2>4, <2>5 DEF WInv
<1> QED
  BY <1>1, <1>2

LEMMA WholeAlways == Spec => []WInv
<1> QED
  BY WholeInit, WholeStep, PTL DEF Spec

\* As long as nobody is in another's way, every delivered configuration is that
\* of one run for that client, with a key and certificate of that run and the CA
\* that signed it, and with a template unless none had been written yet.
THEOREM WholeSafe == Spec => []HomeWhole
<1>1. WInv => HomeWhole
  BY DEF WInv, Homes, HomeWhole
<1> QED
  BY <1>1, WholeAlways, PTL

\* ... and, once the installation is complete, it has the current template.
THEOREM UpToDateSafe == Spec => []UpToDate
<1>1. WInv => UpToDate
  BY DEF WInv, Homes, UpToDate
<1> QED
  BY <1>1, WholeAlways, PTL

\* A run that gets to its mv alone delivers its own new key and certificate, under
\* the template that is there.
THEOREM DeliversNew == Spec => DoneIsNew
<1>1. ASSUME WInv, [Next]_vars
      PROVE  [\A r \in Runs : At(r, "mv") /\ pc'[r] = "rmdir" /\ ~crowded' =>
                 /\ Matched(r, home'[who[r]])
                 /\ home'[who[r]][1].template = template]_<<uvars, crowded>>
  <2>1. ASSUME NEW r \in Runs, At(r, "mv"), pc'[r] = "rmdir", ~crowded', Next
        PROVE  Matched(r, home'[who[r]]) /\ home'[who[r]][1].template = template
    <3>1. ~crowded /\ TypeOK /\ who[r] \in Names
      BY <1>1, <2>1 DEF Next, Crowded, WInv, AInv, TypeOK
    <3>2. ASSUME IStep PROVE FALSE
      <4>1. pc' = pc
        BY <3>2 DEF IStep, Begin, RemoveOne, RemoveTree, MakeCadir, BuildCa, BuildServer,
           RestartServer, WriteTemplate, ClearHome, TouchMarker, InstallStops, DeleteMarker,
           TheRest, uvars
      <4> QED
        BY <2>1, <4>1 DEF At
    <3>3. PICK q \in Runs : UStep(q)
      BY <2>1, <3>2 DEF Next
    <3>4. q = r
      BY <2>1, <3>1, <3>3, UserPlace DEF At
    <3>5. Move(r)
      BY <2>1, <3>1, <3>3, <3>4 DEF UStep, Enter, Clean, BuildKey, BuildCrt, BuildFails,
         RemoveTmp, MakeTmp, Check, AppendHead, AppendCrt, AppendKey, RmDir, Kill, At, Go, End,
         TypeOK
    <3>6. Matched(r, client) /\ client[1].template = template /\ home' = [home EXCEPT ![who[r]] = client]
      BY <1>1, <3>1, <3>5, MoveWhole
    <3> QED
      BY <3>1, <3>6 DEF TypeOK
  <2>2. ASSUME NEW r \in Runs, At(r, "mv"), pc'[r] = "rmdir", UNCHANGED vars PROVE FALSE
    BY <2>2 DEF At, vars, uvars
  <2> QED
    BY <1>1, <2>1, <2>2
<1> QED
  BY <1>1, WholeAlways, PTL DEF Spec, DoneIsNew
=============================================================================
