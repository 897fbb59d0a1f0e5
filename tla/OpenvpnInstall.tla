--------------------------- MODULE OpenvpnInstall ---------------------------
(***************************************************************************)
(* install_openvpn.sh beside runs of openvpn_create_user.  The installer   *)
(* does nothing once its completion marker is there; without it, it starts *)
(* from nothing: it removes easy-rsa with all keys and certificates, makes *)
(* a new CA and server certificate, restarts the server, writes the client *)
(* template, removes every delivered configuration and touches the marker. *)
(* It stops at the first command that fails (set -e), may be killed        *)
(* anywhere, and is then run again.  Nothing keeps users from being made   *)
(* meanwhile.                                                              *)
(***************************************************************************)
EXTENDS OpenvpnUser

CONSTANT MaxInstalls   \* bound on the installations that get under way
ASSUME MaxInstallsAssumption == MaxInstalls \in Nat

VARIABLES
    attempts, \* installations begun
    ipc,      \* where the installer is; "off" when none runs
    marker,   \* /etc/openvpn/.proxysmart.conf.completed
    server,   \* the CA that signed pki/issued/server.crt, or None
    served    \* the CA the running server loaded, or None

ivars == <<attempts, ipc, marker, server, served>>
vars  == <<uvars, crowded, ivars>>

Init ==
    /\ tree = None /\ ca = None /\ template = None
    /\ UInit /\ crowded = FALSE
    /\ attempts = 0 /\ ipc = "off" /\ marker = FALSE /\ server = None /\ served = None

IAt(l, m) == ipc = l /\ ipc' = m
TheRest == UNCHANGED <<who, pc, cwd, attempts, marker>>

Begin ==
    /\ IAt("off", "rm") /\ ~marker /\ attempts < MaxInstalls
    /\ attempts' = attempts + 1
    /\ UNCHANGED <<uvars, marker, server, served>>

\* rm -rf takes the files that runs look at one by one ...
RemoveOne ==
    /\ IAt("rm", "rm")
    /\ \/ ca' = None /\ UNCHANGED <<pki, work>>
       \/ \E m \in Names : key' = [key EXCEPT ![m] = None] /\ UNCHANGED <<ca, crt, work>>
       \/ \E m \in Names : crt' = [crt EXCEPT ![m] = None] /\ UNCHANGED <<ca, key, work>>
       \/ client' = None /\ UNCHANGED <<ca, pki, tmp>>
    /\ UNCHANGED <<tree, template, home, server, served>> /\ TheRest

\* ... and at last what is left, with the directory.
RemoveTree ==
    /\ IAt("rm", "cadir")
    /\ tree' = None /\ ca' = None /\ server' = None
    /\ key' = [m \in Names |-> None] /\ crt' = [m \in Names |-> None]
    /\ tmp' = FALSE /\ client' = None
    /\ UNCHANGED <<template, home, served>> /\ TheRest

\* make-cadir, which wants no such directory, and clean-all, which finds nothing
\* to remove there: without a CA no run has made a key or a certificate.
MakeCadir ==
    /\ IAt("cadir", "ca") /\ tree = None
    /\ tree' = attempts
    /\ UNCHANGED <<ca, template, pki, work, home, server, served>> /\ TheRest

BuildCa ==
    /\ IAt("ca", "server") /\ ca = None
    /\ ca' = attempts
    /\ UNCHANGED <<tree, template, pki, work, home, server, served>> /\ TheRest

BuildServer ==
    /\ IAt("server", "restart") /\ ca # None /\ server = None
    /\ server' = ca
    /\ UNCHANGED <<given, pki, work, home, served>> /\ TheRest

\* systemctl restart, where start would leave a running server as it is.
Loaded_Start == IF served = None THEN server ELSE served
Loaded == server

RestartServer ==
    /\ IAt("restart", "template")
    /\ served' = Loaded
    /\ UNCHANGED <<given, pki, work, home, server>> /\ TheRest

WriteTemplate ==
    /\ IAt("template", "home")
    /\ template' = attempts
    /\ UNCHANGED <<tree, ca, pki, work, home, server, served>> /\ TheRest

\* rm -f /home/vpn/*
Emptied_Kept == home
Emptied == [m \in Names |-> None]

ClearHome ==
    /\ IAt("home", "mark")
    /\ home' = Emptied
    /\ UNCHANGED <<given, pki, work, server, served>> /\ TheRest

TouchMarker ==
    /\ IAt("mark", "off")
    /\ marker' = TRUE
    /\ UNCHANGED <<uvars, attempts, server, served>>

\* A command fails or the installer is killed.
InstallStops ==
    /\ ipc # "off" /\ ipc' = "off"
    /\ UNCHANGED <<uvars, attempts, marker, server, served>>

\* "if you want to reinstall, delete $INDICATOR_COMPLETED and rerun"
DeleteMarker ==
    /\ marker /\ ipc = "off" /\ attempts < MaxInstalls
    /\ marker' = FALSE
    /\ UNCHANGED <<uvars, attempts, ipc, server, served>>

IStep ==
    \/ Begin \/ RemoveOne \/ RemoveTree \/ MakeCadir \/ BuildCa \/ BuildServer
    \/ RestartServer \/ WriteTemplate \/ ClearHome \/ TouchMarker \/ InstallStops \/ DeleteMarker

\* A run is in the installer's way, and the other way round, when both are under way.
Meets == Active # {} /\ ipc # "off"
Crowded == crowded' = (crowded \/ Meets' \/ \E q, r \in Runs : q # r /\ Clash(q, r)')

Next ==
    /\ \/ IStep
       \/ \E r \in Runs : UStep(r) /\ UNCHANGED ivars
    /\ Crowded

Spec == Init /\ [][Next]_vars

(***************************************************************************)
(* Properties                                                              *)
(***************************************************************************)
\* The types; and, whoever meets whom, there is no file without a directory.
TypeOK ==
    /\ {tree, ca, template, server, served} \subseteq Int \cup {None}
    /\ key \in [Names -> Runs \cup {None}]
    /\ crt \in [Names -> [by : Runs, ca : Int] \cup {None}]
    /\ tmp \in BOOLEAN /\ client \in {None} \cup Seq(Part)
    /\ (client # None => tmp) /\ (tmp => tree # None)
    /\ home \in [Names -> {None} \cup Seq(Part)]
    /\ who \in [Runs -> Names] /\ cwd \in [Runs -> Int \cup {None}]
    /\ pc \in [Runs -> {"start", "clean", "key", "crt", "rmtmp", "mktmp", "check", "head", "addcrt",
                        "addkey", "mv", "rmdir", "over"}]
    /\ attempts \in Nat /\ crowded \in BOOLEAN /\ marker \in BOOLEAN
    /\ ipc \in {"off", "rm", "cadir", "ca", "server", "restart", "template", "home", "mark"}

Signed(c) == \A j \in DOMAIN c : c[j].part # "key" => c[j].ca = ca

\* Once the marker says that the installation is complete, the running server,
\* its certificate on disk and every delivered configuration belong to the one CA
\* that is there; so does every configuration delivered later.  It holds whoever
\* was making users meanwhile, whether the runs met the installer or each other,
\* and however many installations stopped halfway before.
OneAuthority ==
    marker => /\ ca # None /\ server = ca /\ served = ca
              /\ \A m \in Names : home[m] # None => Signed(home[m])

\* Then, too, every delivered configuration has the current template, unless
\* somebody made a user while the installer ran.
UpToDate ==
    marker /\ ~crowded =>
        \A m \in Names : home[m] # None => home[m][1].template = template
=============================================================================
