---------------------------- MODULE OpenvpnUser ----------------------------
(***************************************************************************)
(* openvpn_create_user <name>: make a new key and certificate for a VPN    *)
(* user, put them together with the template and the CA certificate in     *)
(* tmp/client.ovpn and move that file to /home/vpn/<name>.ovpn.  The       *)
(* script goes on after every failing command but one, may be killed       *)
(* anywhere, and shares the directory tmp with every other run, whatever   *)
(* the name.                                                               *)
(*                                                                         *)
(* The script changes its directory once, to /etc/openvpn/easy-rsa, and    *)
(* the installer may remove that directory and make a new one: a directory *)
(* is named by the installation that made it.  What the script does with   *)
(* relative names has an effect only as long as its directory is there;    *)
(* the three files it names with absolute paths are those of the current   *)
(* one.  A CA is named by the installation, a key or certificate by the    *)
(* run that made it.  The parts of a configuration are "head" (template    *)
(* and CA certificate), "crt" and "key".                                   *)
(***************************************************************************)
EXTENDS Integers, Sequences

CONSTANTS
    Runs,     \* the runs of the script
    Names,    \* the clients
    None

Part == [part : {"head", "crt", "key"}, by : Runs, ca : Int \cup {None}, template : Int \cup {None}]

ASSUME NoneAssumption == None \notin Runs /\ None \notin Int
ASSUME FileAssumption == None \notin Seq(Part)

VARIABLES
    tree,       \* the installation that made /etc/openvpn/easy-rsa, or None
    ca,         \* pki/ca.crt: the installation that built it, or None
    key, crt,   \* pki/private/<name>.key: the run that made it, or None;
                \* pki/issued/<name>.crt: [by, ca], or None
    tmp,        \* the directory tmp exists
    client,     \* tmp/client.ovpn, a sequence of Parts; None: no file
    home,       \* /home/vpn/<name>.ovpn, likewise
    template,   \* client.ovpn.template: the installation that wrote it, or None
    who,        \* the client each run is for ($1)
    pc,         \* where each run is; "over" when it ended, failed or was killed
    cwd,        \* the directory each run is in; None: the run is not under way
    crowded     \* history: two processes were in each other's way

pki   == <<key, crt>>
work  == <<tmp, client>>
given == <<tree, ca, template>>   \* what only the installer writes
uvars == <<given, pki, work, home, who, pc, cwd>>

(***************************************************************************)
(* Operators                                                               *)
(***************************************************************************)
Active    == {r \in Runs : pc[r] \notin {"start", "over"}}
At(r, l)  == pc[r] = l
Go(r, l)  == pc' = [pc EXCEPT ![r] = l] /\ UNCHANGED <<who, cwd>>
End(r)    == pc' = [pc EXCEPT ![r] = "over"] /\ cwd' = [cwd EXCEPT ![r] = None] /\ UNCHANGED who
InTree(r) == tree # None /\ cwd[r] = tree
MyKey(r)  == key[who[r]]
MyCrt(r)  == crt[who[r]]

HeadPart(r) == [part |-> "head", by |-> r, ca |-> ca, template |-> template]
CrtPart(c) == [part |-> "crt", by |-> c.by, ca |-> c.ca, template |-> None]
KeyPart(q) == [part |-> "key", by |-> q, ca |-> None, template |-> None]

\* rm -f of the old key and certificate
Removed_Kept(old) == old
Removed(old) == None

\* rm -rf tmp
AfterRmTmp_Kept == client
AfterRmTmp == None

\* [[ -f "$CRT_FILE" ]] && [[ -f "$KEY_FILE" ]]
Made(r) == MyCrt(r) # None /\ MyKey(r) # None

\* >> tmp/client.ovpn creates the file, if there is a directory for it; cat of
\* a missing file adds nothing.
Old == IF client = None THEN <<>> ELSE client
Appended(r, parts) == IF InTree(r) /\ tmp THEN Old \o parts ELSE client

UInit ==
    /\ key = [n \in Names |-> None] /\ crt = [n \in Names |-> None]
    /\ tmp = FALSE /\ client = None
    /\ home = [n \in Names |-> None]
    /\ who \in [Runs -> Names]
    /\ pc = [r \in Runs |-> "start"] /\ cwd = [r \in Runs |-> None]

(***************************************************************************)
(* The script                                                              *)
(***************************************************************************)
\* cd /etc/openvpn/easy-rsa.  A run started where there is no such directory
\* goes on in its caller's and is left out.
Enter(r) ==
    /\ At(r, "start") /\ tree # None
    /\ pc' = [pc EXCEPT ![r] = "clean"] /\ cwd' = [cwd EXCEPT ![r] = tree] /\ UNCHANGED who
    /\ UNCHANGED <<given, pki, work, home>>

Clean(r) ==
    /\ At(r, "clean") /\ Go(r, "key")
    /\ key' = IF InTree(r) THEN [key EXCEPT ![who[r]] = Removed(@)] ELSE key
    /\ crt' = IF InTree(r) THEN [crt EXCEPT ![who[r]] = Removed(@)] ELSE crt
    /\ UNCHANGED <<given, work, home>>

\* easyrsa build-client-full makes the key, then the certificate; it needs a CA.
CanBuild(r) == InTree(r) /\ ca # None

BuildKey(r) ==
    /\ At(r, "key") /\ Go(r, "crt") /\ CanBuild(r)
    /\ key' = [key EXCEPT ![who[r]] = r]
    /\ UNCHANGED <<given, crt, work, home>>

BuildCrt(r) ==
    /\ At(r, "crt") /\ Go(r, "rmtmp") /\ CanBuild(r)
    /\ crt' = [crt EXCEPT ![who[r]] = [by |-> r, ca |-> ca]]
    /\ UNCHANGED <<given, key, work, home>>

\* easyrsa fails; the script goes on.
BuildFails(r) ==
    /\ pc[r] \in {"key", "crt"} /\ Go(r, "rmtmp")
    /\ UNCHANGED <<given, pki, work, home>>

RemoveTmp(r) ==
    /\ At(r, "rmtmp") /\ Go(r, "mktmp")
    /\ IF InTree(r) THEN client' = AfterRmTmp /\ tmp' = (client' # None)
                    ELSE UNCHANGED work
    /\ UNCHANGED <<given, pki, home>>

\* mkdir tmp, where mkdir -p of the absolute path would make the parents too.
TmpMade_Parents(r) == TRUE
TmpMade(r) == tmp \/ InTree(r)

MakeTmp(r) ==
    /\ At(r, "mktmp") /\ Go(r, "check")
    /\ tmp' = TmpMade(r)
    /\ UNCHANGED <<given, pki, client, home>>

Check(r) ==
    /\ At(r, "check")
    /\ IF Made(r) THEN Go(r, "head") ELSE End(r)
    /\ UNCHANGED <<given, pki, work, home>>

\* The template and the CA certificate, then the certificate, then the key.
AppendHead(r) ==
    /\ At(r, "head") /\ Go(r, "addcrt")
    /\ client' = Appended(r, <<HeadPart(r)>>)
    /\ UNCHANGED <<given, pki, tmp, home>>

AppendCrt(r) ==
    /\ At(r, "addcrt") /\ Go(r, "addkey")
    /\ client' = Appended(r, IF MyCrt(r) = None THEN <<>> ELSE <<CrtPart(MyCrt(r))>>)
    /\ UNCHANGED <<given, pki, tmp, home>>

AppendKey(r) ==
    /\ At(r, "addkey") /\ Go(r, "mv")
    /\ client' = Appended(r, IF MyKey(r) = None THEN <<>> ELSE <<KeyPart(MyKey(r))>>)
    /\ UNCHANGED <<given, pki, tmp, home>>

\* mv tmp/client.ovpn; without that file mv fails and the script goes on.
CanMove(r) == InTree(r) /\ client # None

Move(r) ==
    /\ At(r, "mv") /\ Go(r, "rmdir")
    /\ IF CanMove(r)
       THEN home' = [home EXCEPT ![who[r]] = client] /\ client' = None
       ELSE UNCHANGED <<home, client>>
    /\ UNCHANGED <<given, pki, tmp>>

\* rmdir fails when another run has put a file there.
RmDir(r) ==
    /\ At(r, "rmdir") /\ End(r)
    /\ tmp' = (tmp /\ (InTree(r) => client # None))
    /\ UNCHANGED <<given, pki, client, home>>

Kill(r) ==
    /\ r \in Active /\ End(r)
    /\ UNCHANGED <<given, pki, work, home>>

UStep(r) ==
    \/ Enter(r) \/ Clean(r) \/ BuildKey(r) \/ BuildCrt(r) \/ BuildFails(r)
    \/ RemoveTmp(r) \/ MakeTmp(r) \/ Check(r)
    \/ AppendHead(r) \/ AppendCrt(r) \/ AppendKey(r) \/ Move(r) \/ RmDir(r)
    \/ Kill(r)

\* Two runs are in each other's way when both are for one client, or both have
\* begun with tmp.
Assembling(r) == r \in Active /\ pc[r] \notin {"clean", "key", "crt", "rmtmp"}
Clash(q, r) == \/ who[q] = who[r] /\ q \in Active /\ r \in Active
               \/ Assembling(q) /\ Assembling(r)

(***************************************************************************)
(* Properties                                                              *)
(***************************************************************************)
\* The key, the certificate and the CA of a configuration belong together and are
\* of one run.
Matched(r, c) ==
    /\ Len(c) = 3 /\ c[1].part = "head" /\ c[1].by = r /\ c[1].ca # None
    /\ c[2] = CrtPart([by |-> r, ca |-> c[1].ca])
    /\ c[3] = KeyPart(r)

\* It has no template, and for the one reason there can be: none had been written
\* yet, and what there is now is of a later installation than its CA.
TooEarly(c) == c[1].template = None /\ (template = None \/ template > c[1].ca)

\* As long as processes are not in each other's way, what lies in /home/vpn is a
\* configuration made by one run for that client, with a key and a certificate
\* that belong together and the CA that signed the certificate: what a killed or
\* failed run left in tmp or in the pki gets into none, and a failed run leaves
\* the last good one in place.  It has a template, too, which the script does not
\* check, unless it was made before any installation had got as far as writing
\* one: after a CA, but stopped before the template.
HomeWhole ==
    ~crowded => \A n \in Names : home[n] # None =>
        /\ \E r \in Runs : who[r] = n /\ Matched(r, home[n])
        /\ home[n][1].template # None \/ TooEarly(home[n])

\* A run that gets as far as its mv while nobody is in its way has put its own
\* new key and certificate in place, under the template that is there, if there
\* is one; one whose easyrsa failed does not get there with the old ones.
DoneIsNew ==
    [][\A r \in Runs : At(r, "mv") /\ pc'[r] = "rmdir" /\ ~crowded' =>
            /\ Matched(r, home'[who[r]])
            /\ home'[who[r]][1].template = template]_<<uvars, crowded>>
=============================================================================
