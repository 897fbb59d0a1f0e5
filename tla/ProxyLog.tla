------------------------------ MODULE ProxyLog ------------------------------
(***************************************************************************)
(* The proxy log: proxy_log_dump.sh runs dumpcap, which writes packets to  *)
(* a new pcap file every interval, and proxy_log_analyze.sh, in a loop,    *)
(* parses every pcap file but the newest into the log and removes it.  The *)
(* two processes share the directory and nothing else.                     *)
(*                                                                         *)
(* File names carry the time the file was opened; the analyzer sorts by    *)
(* name.  A packet here is one that the display filter selects.            *)
(***************************************************************************)
EXTENDS Integers, Sequences

CONSTANTS
    MaxPackets,   \* bound on the packets captured
    MaxFiles,     \* bound on the pcap files that exist at a time
    MaxMishaps,   \* bound on kills, failed parses and appends, and clock steps together
    None

ASSUME BoundsAssumption == MaxPackets \in Nat /\ MaxFiles \in Nat \ {0} /\ MaxMishaps \in Nat
ASSUME NoneAssumption == None \notin Nat

VARIABLES
    dir,        \* the pcap files in the order of their names, a sequence of inodes
    data,       \* the packets in each inode, in capture order
    open,       \* the inode dumpcap writes to, or None
    captured,   \* the number of packets so far; packets are 1 .. captured
    pc,         \* "list", "parse", "append", "remove" or "dead"
    listed,     \* $FILES
    read,       \* how many of them cat has read
    tmp,        \* $TMP
    log,        \* /var/log/proxy_log.log, a sequence of packets
    mishaps,
    gone,       \* history: packets a mishap may cost
    twice       \* history: packets a kill may have logged twice

dumper   == <<open, captured>>
analyzer == <<pc, listed, read, tmp, log>>
history  == <<mishaps, gone, twice>>
vars == <<dir, data, dumper, analyzer, history>>

Inodes  == 1 .. MaxFiles
Packets == 1 .. MaxPackets

(***************************************************************************)
(* Operators                                                               *)
(***************************************************************************)
Elements(s)  == {s[j] : j \in DOMAIN s}
Linked       == Elements(dir)
Newest(n)    == dir # <<>> /\ n = dir[Len(dir)]
InFiles(fs)  == UNION {Elements(data[fs[j]]) : j \in DOMAIN fs}

\* sort -V | tac | sed 1d | tac: all files but the last by name.
AllButNewest_All(d) == d
AllButNewest_Oldest(d) == IF d = <<>> THEN <<>> ELSE Tail(d)
AllButNewest(d) == IF d = <<>> THEN <<>> ELSE SubSeq(d, 1, Len(d) - 1)

\* [[ -n $FILES ]]
Found_Always(fs) == TRUE
Found(fs) == fs # <<>>

\* cat $FILES: the file that is read next.
NextFile_Backwards == listed[Len(listed) - read]
NextFile == listed[read + 1]

\* What follows the parse: cat $TMP >> the log comes before the files are removed.
AfterParse_Remove == "remove"
AfterParse == "append"

\* What is left to remove after a file was.
Rest_None(fs) == <<>>
Rest(fs) == Tail(fs)

\* A directory after a name was entered in or deleted from it.
Entered(d, at, n) ==
    [j \in 1 .. Len(d) + 1 |-> IF j < at THEN d[j] ELSE IF j = at THEN n ELSE d[j - 1]]
Deleted(d, at) == [j \in 1 .. Len(d) - 1 |-> IF j < at THEN d[j] ELSE d[j + 1]]

Init ==
    /\ dir = <<>> /\ data = [n \in Inodes |-> <<>>]
    /\ open = None /\ captured = 0
    /\ pc = "list" /\ listed = <<>> /\ read = 0 /\ tmp = <<>> /\ log = <<>>
    /\ mishaps = 0 /\ gone = {} /\ twice = {}

(***************************************************************************)
(* dumpcap -b interval:$SNIFFER_INTERVAL -b nametimenum:2                  *)
(***************************************************************************)
\* The inodes that no name and no process refers to.
Free == Inodes \ (Linked \cup Elements(listed) \cup {open})
Unused(n) == n \in Free /\ \A k \in Free : n <= k

\* The service starts dumpcap, or the interval is over: a file with the newest
\* name.
NewFile ==
    /\ \E n \in Inodes : Unused(n) /\ dir' = Append(dir, n) /\ open' = n
    /\ UNCHANGED <<data, captured, analyzer, history>>

Capture ==
    /\ open # None /\ captured < MaxPackets
    /\ captured' = captured + 1
    /\ data' = IF open \in Linked THEN [data EXCEPT ![open] = Append(@, captured + 1)]
                                  ELSE data
    \* only after a clock step: the file is removed, or may be at any moment
    /\ gone' = IF Newest(open) THEN gone ELSE gone \cup {captured + 1}
    /\ UNCHANGED <<dir, open, analyzer, mishaps, twice>>

DumpcapStops ==
    /\ open # None
    /\ open' = None
    /\ UNCHANGED <<dir, data, captured, analyzer, history>>

\* The clock is set back over the rotation: the new file's name sorts before
\* that of an older one, and it may be removed while dumpcap writes to it.
NewFileInThePast ==
    /\ mishaps < MaxMishaps /\ dir # <<>>
    /\ \E n \in Inodes, at \in 1 .. Len(dir) :
          /\ Unused(n) /\ open' = n
          /\ dir' = Entered(dir, at, n)
    /\ mishaps' = mishaps + 1
    /\ UNCHANGED <<data, captured, analyzer, gone, twice>>

(***************************************************************************)
(* proxy_log_analyze.sh                                                    *)
(***************************************************************************)
List ==
    /\ pc = "list"
    /\ listed' = AllButNewest(dir) /\ read' = 0
    /\ pc' = IF Found(AllButNewest(dir)) THEN "parse" ELSE "list"
    /\ UNCHANGED <<dir, data, dumper, tmp, log, history>>

\* cat $FILES | tshark > $TMP, one file after the other.
ReadFile ==
    /\ pc = "parse" /\ read < Len(listed)
    /\ tmp' = tmp \o data[NextFile] /\ read' = read + 1
    /\ UNCHANGED <<dir, data, dumper, pc, listed, log, history>>

Parsed ==
    /\ pc = "parse" /\ read = Len(listed)
    /\ pc' = AfterParse
    /\ UNCHANGED <<dir, data, dumper, listed, read, tmp, log, history>>

\* tshark fails part-way, or $TMP cannot be written: the loop goes on.
ParseFails ==
    /\ pc = "parse" /\ mishaps < MaxMishaps
    /\ \E n \in 0 .. Len(tmp) : tmp' = SubSeq(tmp, 1, n)
    /\ pc' = AfterParse
    /\ mishaps' = mishaps + 1
    /\ gone' = gone \cup InFiles(listed)
    /\ UNCHANGED <<dir, data, dumper, listed, read, log, twice>>

\* cat $TMP >> log; rm $TMP
AppendLog ==
    /\ pc = "append"
    /\ log' = log \o tmp /\ tmp' = <<>>
    /\ pc' = "remove"
    /\ UNCHANGED <<dir, data, dumper, listed, read, history>>

\* cat $TMP >> log fails, or stops part-way: nothing looks at its status, so
\* $TMP and the files are removed as if it had not.
AppendFails ==
    /\ pc = "append" /\ mishaps < MaxMishaps
    /\ \E n \in 0 .. Len(tmp) - 1 :
          /\ log' = log \o SubSeq(tmp, 1, n)
          /\ gone' = gone \cup {tmp[j] : j \in n + 1 .. Len(tmp)}
    /\ tmp' = <<>>
    /\ pc' = "remove"
    /\ mishaps' = mishaps + 1
    /\ UNCHANGED <<dir, data, dumper, listed, read, twice>>

\* for F in $FILES: rm -f $F
RemoveFile ==
    /\ pc = "remove" /\ listed # <<>>
    /\ \E at \in DOMAIN dir : dir[at] = Head(listed) /\ dir' = Deleted(dir, at)
    /\ data' = [data EXCEPT ![Head(listed)] = <<>>]
    /\ listed' = Rest(listed)
    /\ UNCHANGED <<dumper, pc, read, tmp, log, history>>

Again ==
    /\ pc = "remove" /\ listed = <<>>
    /\ pc' = "list"
    /\ UNCHANGED <<dir, data, dumper, listed, read, tmp, log, history>>

\* The script is killed between two steps, or part-way through an append.
Kill ==
    /\ pc # "dead" /\ mishaps < MaxMishaps
    /\ pc' = "dead" /\ listed' = <<>> /\ read' = 0 /\ tmp' = <<>>
    /\ mishaps' = mishaps + 1
    /\ \/ log' = log /\ twice' = IF pc = "remove" THEN twice \cup InFiles(listed) ELSE twice
       \/ /\ pc = "append"
          /\ \E n \in DOMAIN tmp :
                log' = log \o SubSeq(tmp, 1, n) /\ twice' = twice \cup {tmp[j] : j \in 1 .. n}
    /\ UNCHANGED <<dir, data, dumper, gone>>

Restart ==
    /\ pc = "dead" /\ pc' = "list"
    /\ UNCHANGED <<dir, data, dumper, listed, read, tmp, log, history>>

Dump    == NewFile \/ Capture \/ DumpcapStops \/ NewFileInThePast
Analyze == List \/ ReadFile \/ Parsed \/ AppendLog \/ RemoveFile \/ Again
Next    == Dump \/ Analyze \/ ParseFails \/ AppendFails \/ Kill \/ Restart

\* The analyzer's loop goes on as long as it is not killed.  Nothing is assumed
\* of dumpcap, and nothing of whoever restarts the scripts.
Spec == Init /\ [][Next]_vars /\ WF_vars(Analyze)

(***************************************************************************)
(* Properties                                                              *)
(***************************************************************************)
\* The types, and: a directory lists a file once, and there is always a file to
\* parse (cat without a file would wait for the terminal).
TypeOK ==
    /\ dir \in Seq(Inodes) /\ \A j, m \in DOMAIN dir : dir[j] = dir[m] => j = m
    /\ data \in [Inodes -> Seq(Packets)]
    /\ open \in Inodes \cup {None} /\ captured \in 0 .. MaxPackets
    /\ pc \in {"list", "parse", "append", "remove", "dead"}
    /\ listed \in Seq(Inodes) /\ (pc \in {"parse", "append"} => listed # <<>>)
    /\ read \in Nat /\ (pc = "parse" => read <= Len(listed))
    /\ tmp \in Seq(Packets) /\ log \in Seq(Packets)
    /\ mishaps \in 0 .. MaxMishaps /\ gone \subseteq Packets /\ twice \subseteq Packets

Held == InFiles(dir) \cup Elements(log)

\* A packet that was captured is in the log or in a file that is still there,
\* at every moment, also across kills of the analyzer.  What costs packets is a
\* parse or an append that fails, of those it did not get through, and a clock
\* set back while files were opened.
NoLoss == 1 .. captured \subseteq Held \cup gone

\* A packet is logged once, unless the analyzer was killed after it had logged
\* the packet and before it had removed its file.
LoggedOnce == \A j, m \in DOMAIN log : j # m /\ log[j] = log[m] => log[j] \in twice

\* Unless something went wrong, the log is in the order of capture, although it
\* is put together from files, and holds no packet before an earlier one.
InOrder == mishaps = 0 => \A j, m \in DOMAIN log : j < m => log[j] < log[m]

Superseded == InFiles(SubSeq(dir, 1, Len(dir) - 1))

\* A packet in a file that has a newer one beside it is logged sooner or later,
\* unless a mishap cost it or the analyzer is killed: no file stays behind.
EventuallyLogged ==
    \A p \in Packets :
        p \in Superseded ~> p \in Elements(log) \cup gone \/ pc = "dead"
=============================================================================
