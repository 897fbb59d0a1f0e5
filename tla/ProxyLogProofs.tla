--------------------------- MODULE ProxyLogProofs ---------------------------
(***************************************************************************)
(* Theorems about the proxy log, for any number of packets, files and      *)
(* mishaps.                                                                *)
(***************************************************************************)
EXTENDS ProxyLog, TLAPS

(***************************************************************************)
(* The invariant                                                           *)
(***************************************************************************)
\* The files to parse are files of the directory, each listed once, and the
\* newest of the directory is not among them, whatever was opened since.
ListOK ==
    /\ \A j, m \in DOMAIN listed : listed[j] = listed[m] => j = m
    /\ Elements(listed) \subseteq Linked
    /\ listed # <<>> => dir # <<>> /\ dir[Len(dir)] \notin Elements(listed)

\* Packets are numbered as they are captured, and lie in one place of one file;
\* what has no name holds nothing.
DataOK ==
    /\ \A n \in Inodes : \A j \in DOMAIN data[n] : data[n][j] \in 1 .. captured
    /\ \A n \in Inodes : \A j, m \in DOMAIN data[n] : j < m => data[n][j] < data[n][m]
    /\ \A n, k \in Inodes : n # k => Elements(data[n]) \cap Elements(data[k]) = {}
    /\ \A n \in Inodes \ Linked : data[n] = <<>>
    /\ Elements(tmp) \cup Elements(log) \subseteq 1 .. captured

\* The files that the current round is through with.
Through(j) == j \in DOMAIN listed /\ (pc = "parse" => j <= read)

\* What was read is in $TMP, and what was appended is in the log, but for what a
\* failing parse or append cost.
KeptOK ==
    /\ pc \in {"parse", "append"} =>
          \A j \in DOMAIN listed : Through(j) =>
              Elements(data[listed[j]]) \subseteq Elements(tmp) \cup gone
    /\ pc = "remove" =>
          \A j \in DOMAIN listed : Elements(data[listed[j]]) \subseteq Elements(log) \cup gone

\* $TMP holds packets of the files that were read, each once.
TmpOK ==
    /\ \A i \in DOMAIN tmp : \E j \in DOMAIN listed :
          Through(j) /\ tmp[i] \in Elements(data[listed[j]])
    /\ \A i, k \in DOMAIN tmp : tmp[i] = tmp[k] => i = k
    /\ pc \notin {"parse", "append"} => tmp = <<>>

\* A packet of the log that is still in a file will not be logged again, unless
\* a kill made it.
LogOK ==
    /\ LoggedOnce
    /\ \A n \in Inodes :
          \/ pc = "remove" /\ n \in Elements(listed)
          \/ Elements(data[n]) \cap Elements(log) \subseteq twice

\* As long as nothing goes wrong, dumpcap writes to the newest file, the files
\* are in the order of capture, those to parse come first, and the log is behind
\* them.
OpenNewest   == open # None => dir # <<>> /\ open = dir[Len(dir)]
ListedFirst  == Len(listed) <= Len(dir) /\ \A j \in DOMAIN listed : listed[j] = dir[j]
Rising(q)    == \A i, k \in DOMAIN q : i < k => q[i] < q[k]
FilesInOrder ==
    \A i, k \in DOMAIN dir : i < k =>
        \A p \in Elements(data[dir[i]]), q \in Elements(data[dir[k]]) : p < q
LogBehind ==
    \A p \in Elements(log) : \A i \in DOMAIN dir :
        (pc = "remove" => i > Len(listed)) => \A q \in Elements(data[dir[i]]) : p < q

OrderOK ==
    mishaps = 0 =>
        /\ pc # "dead" /\ OpenNewest /\ ListedFirst /\ FilesInOrder
        /\ Rising(tmp) /\ Rising(log) /\ LogBehind

LossOK == 1 .. captured \subseteq Held \cup gone

Inv == TypeOK /\ ListOK /\ DataOK /\ KeptOK /\ TmpOK /\ LogOK /\ OrderOK /\ LossOK

(***************************************************************************)
(* Sequences and their elements                                            *)
(***************************************************************************)
LEMMA AppendElements ==
    ASSUME NEW S, NEW s \in Seq(S), NEW x \in S
    PROVE  Elements(Append(s, x)) = Elements(s) \cup {x}
<1>1. /\ Append(s, x) \in Seq(S) /\ Len(Append(s, x)) = Len(s) + 1
      /\ \A j \in 1 .. Len(s) : Append(s, x)[j] = s[j]
      /\ Append(s, x)[Len(s) + 1] = x
  OBVIOUS
<1>2. DOMAIN s = 1 .. Len(s) /\ DOMAIN Append(s, x) = 1 .. Len(s) + 1 /\ Len(s) \in Nat
  OBVIOUS
<1> QED BY <1>1, <1>2 DEF Elements

LEMMA ConcatElements ==
    ASSUME NEW S, NEW s \in Seq(S), NEW t \in Seq(S)
    PROVE  /\ s \o t \in Seq(S) /\ Len(s \o t) = Len(s) + Len(t)
           /\ \A j \in 1 .. Len(s) : (s \o t)[j] = s[j]
           /\ \A j \in 1 .. Len(t) : (s \o t)[Len(s) + j] = t[j]
           /\ \A i \in 1 .. Len(s) + Len(t) :
                 \/ i \in 1 .. Len(s) /\ (s \o t)[i] = s[i]
                 \/ i - Len(s) \in 1 .. Len(t) /\ (s \o t)[i] = t[i - Len(s)]
           /\ Elements(s \o t) = Elements(s) \cup Elements(t)
<1>1. /\ s \o t \in Seq(S) /\ Len(s \o t) = Len(s) + Len(t)
      /\ \A j \in 1 .. Len(s) : (s \o t)[j] = s[j]
      /\ \A j \in 1 .. Len(t) : (s \o t)[Len(s) + j] = t[j]
  OBVIOUS
<1>2. /\ DOMAIN s = 1 .. Len(s) /\ DOMAIN t = 1 .. Len(t)
      /\ DOMAIN (s \o t) = 1 .. Len(s) + Len(t)
      /\ Len(s) \in Nat /\ Len(t) \in Nat
  OBVIOUS
<1>3. \A i \in 1 .. Len(s) + Len(t) :
        \/ i \in 1 .. Len(s) /\ (s \o t)[i] = s[i]
        \/ i - Len(s) \in 1 .. Len(t) /\ (s \o t)[i] = t[i - Len(s)]
  OBVIOUS
<1>4. \A j \in 1 .. Len(t) : Len(s) + j \in DOMAIN (s \o t)
  BY <1>2
<1>5. \A j \in 1 .. Len(s) : j \in DOMAIN (s \o t)
  BY <1>2
<1>6. Elements(s \o t) \subseteq Elements(s) \cup Elements(t)
  <2> SUFFICES ASSUME NEW i \in 1 .. Len(s) + Len(t)
               PROVE  (s \o t)[i] \in Elements(s) \cup Elements(t)
    BY <1>2, Zenon DEF Elements
  <2> QED BY <1>2, <1>3, Zenon DEF Elements
<1>7. Elements(s) \subseteq Elements(s \o t)
  BY <1>1, <1>2, <1>5, Zenon DEF Elements
<1>8. Elements(t) \subseteq Elements(s \o t)
  BY <1>1, <1>2, <1>4, Zenon DEF Elements
<1> QED BY <1>1, <1>3, <1>6, <1>7, <1>8, Zenon

LEMMA DeletedElements ==
    ASSUME NEW S, NEW d \in Seq(S), \A j, m \in DOMAIN d : d[j] = d[m] => j = m,
           NEW at \in DOMAIN d
    PROVE  /\ Deleted(d, at) \in Seq(S) /\ Len(Deleted(d, at)) = Len(d) - 1
           /\ \A j \in 1 .. Len(d) - 1 :
                 Deleted(d, at)[j] = IF j < at THEN d[j] ELSE d[j + 1]
           /\ \A j, m \in DOMAIN Deleted(d, at) :
                 Deleted(d, at)[j] = Deleted(d, at)[m] => j = m
           /\ Elements(Deleted(d, at)) = Elements(d) \ {d[at]}
<1> DEFINE e == Deleted(d, at)
<1>1. DOMAIN d = 1 .. Len(d) /\ Len(d) \in Nat /\ at \in 1 .. Len(d)
  OBVIOUS
<1>2. /\ e = [j \in 1 .. Len(d) - 1 |-> IF j < at THEN d[j] ELSE d[j + 1]]
      /\ DOMAIN e = 1 .. Len(d) - 1
      /\ \A j \in 1 .. Len(d) - 1 : e[j] = IF j < at THEN d[j] ELSE d[j + 1]
  BY DEF Deleted
<1>3. \A j \in 1 .. Len(d) - 1 : e[j] \in S
  BY <1>1, <1>2
<1>4. e \in Seq(S) /\ Len(e) = Len(d) - 1
  BY <1>1, <1>2, <1>3
<1> HIDE DEF e
<1>5. ASSUME NEW j \in DOMAIN e, NEW m \in DOMAIN e, e[j] = e[m] PROVE j = m
  BY <1>1, <1>2, <1>5
<1>6. \A j \in DOMAIN e : e[j] \in Elements(d) \ {d[at]}
  BY <1>1, <1>2 DEF Elements
<1>7. ASSUME NEW j \in DOMAIN d, j # at PROVE d[j] \in Elements(e)
  <2>1. CASE j < at
    BY <2>1, <1>1, <1>2, <1>7 DEF Elements
  <2>2. CASE j > at
    <3>1. j - 1 \in DOMAIN e /\ e[j - 1] = d[j]
      BY <2>2, <1>1, <1>2
    <3> QED BY <3>1 DEF Elements
  <2> QED BY <2>1, <2>2, <1>1, <1>7
<1>8. Elements(e) = Elements(d) \ {d[at]}
  BY <1>6, <1>7 DEF Elements
<1> QED BY <1>2, <1>4, <1>5, <1>8 DEF e

LEMMA EnteredElements ==
    ASSUME NEW S, NEW d \in Seq(S), \A j, m \in DOMAIN d : d[j] = d[m] => j = m,
           NEW at \in 1 .. Len(d), NEW n \in S, n \notin Elements(d)
    PROVE  /\ Entered(d, at, n) \in Seq(S) /\ Len(Entered(d, at, n)) = Len(d) + 1
           /\ Entered(d, at, n)[Len(d) + 1] = d[Len(d)]
           /\ \A j, m \in DOMAIN Entered(d, at, n) :
                 Entered(d, at, n)[j] = Entered(d, at, n)[m] => j = m
           /\ Elements(Entered(d, at, n)) = Elements(d) \cup {n}
<1> DEFINE e == Entered(d, at, n)
<1>1. DOMAIN d = 1 .. Len(d) /\ Len(d) \in Nat /\ \A j \in DOMAIN d : d[j] # n
  BY DEF Elements
<1>2. /\ e = [j \in 1 .. Len(d) + 1 |-> IF j < at THEN d[j] ELSE IF j = at THEN n ELSE d[j - 1]]
      /\ DOMAIN e = 1 .. Len(d) + 1
      /\ \A j \in 1 .. Len(d) + 1 : e[j] = IF j < at THEN d[j] ELSE IF j = at THEN n ELSE d[j - 1]
  BY DEF Entered
<1>3. \A j \in 1 .. Len(d) + 1 : e[j] \in S
  BY <1>1, <1>2
<1>4. e \in Seq(S) /\ Len(e) = Len(d) + 1
  BY <1>1, <1>2, <1>3
<1> HIDE DEF e
<1>0. \A i \in DOMAIN e :
        \/ i = at /\ e[i] = n
        \/ i < at /\ i \in DOMAIN d /\ e[i] = d[i]
        \/ i > at /\ i - 1 \in DOMAIN d /\ e[i] = d[i - 1]
  BY <1>1, <1>2
<1>5. ASSUME NEW j \in DOMAIN e, NEW m \in DOMAIN e, e[j] = e[m] PROVE j = m
  <2>1. j \in Nat /\ m \in Nat
    BY <1>1, <1>2
  <2>2. CASE j = at \/ m = at
    BY <2>1, <2>2, <1>0, <1>1, <1>5
  <2>3. CASE j < at
    BY <2>1, <2>3, <1>0, <1>1, <1>5
  <2>4. CASE j > at
    BY <2>1, <2>4, <1>0, <1>1, <1>5
  <2> QED BY <2>1, <2>2, <2>3, <2>4
<1>6. \A j \in DOMAIN e : e[j] \in Elements(d) \cup {n}
  BY <1>1, <1>2 DEF Elements
<1>7. ASSUME NEW j \in DOMAIN d PROVE d[j] \in Elements(e)
  <2>1. CASE j < at
    BY <2>1, <1>1, <1>2 DEF Elements
  <2>2. CASE j >= at
    <3>1. j + 1 \in DOMAIN e /\ e[j + 1] = d[j]
      BY <2>2, <1>1, <1>2
    <3> QED BY <3>1 DEF Elements
  <2> QED BY <2>1, <2>2, <1>1
<1>8. at \in DOMAIN e /\ e[at] = n
  BY <1>1, <1>2
<1>9. Elements(e) = Elements(d) \cup {n}
  BY <1>6, <1>7, <1>8 DEF Elements
<1>10. e[Len(d) + 1] = d[Len(d)]
  BY <1>1, <1>2
<1> QED BY <1>4, <1>5, <1>9, <1>10 DEF e

LEMMA PartElements ==
    ASSUME NEW S, NEW s \in Seq(S), NEW n \in 0 .. Len(s)
    PROVE  /\ SubSeq(s, 1, n) \in Seq(S) /\ Len(SubSeq(s, 1, n)) = n
           /\ \A j \in 1 .. n : SubSeq(s, 1, n)[j] = s[j]
           /\ DOMAIN SubSeq(s, 1, n) = 1 .. n /\ 1 .. n \subseteq DOMAIN s
           /\ Elements(SubSeq(s, 1, n)) \subseteq Elements(s)
<1>1. /\ SubSeq(s, 1, n) \in Seq(S) /\ Len(SubSeq(s, 1, n)) = n
      /\ \A j \in 1 .. n : SubSeq(s, 1, n)[j] = s[j]
      /\ DOMAIN SubSeq(s, 1, n) = 1 .. n /\ 1 .. n \subseteq DOMAIN s
  OBVIOUS
<1>2. Elements(SubSeq(s, 1, n)) \subseteq Elements(s)
  BY <1>1, Zenon DEF Elements
<1> QED BY <1>1, <1>2

LEMMA TailElements ==
    ASSUME NEW S, NEW s \in Seq(S), s # <<>>
    PROVE  /\ Tail(s) \in Seq(S) /\ Len(Tail(s)) = Len(s) - 1 /\ Len(s) \in Nat \ {0}
           /\ Head(s) = s[1] /\ 1 \in DOMAIN s
           /\ DOMAIN Tail(s) = 1 .. Len(s) - 1
           /\ \A j \in 1 .. Len(s) - 1 : Tail(s)[j] = s[j + 1] /\ j + 1 \in DOMAIN s
           /\ Elements(Tail(s)) \subseteq Elements(s) /\ Head(s) \in Elements(s)
<1>1. /\ Tail(s) \in Seq(S) /\ Len(Tail(s)) = Len(s) - 1 /\ Len(s) \in Nat \ {0}
      /\ Head(s) = s[1] /\ 1 \in DOMAIN s
  OBVIOUS
<1>3. DOMAIN Tail(s) = 1 .. Len(s) - 1
  BY <1>1
<1>4. \A j \in 1 .. Len(s) - 1 : Tail(s)[j] = s[j + 1] /\ j + 1 \in DOMAIN s
  BY <1>1
<1>5. \A j \in DOMAIN Tail(s) : Tail(s)[j] \in Elements(s)
  BY <1>3, <1>4 DEF Elements
<1>6. Elements(Tail(s)) \subseteq Elements(s)
  BY <1>5, Zenon DEF Elements
<1>7. Head(s) \in Elements(s)
  BY <1>1 DEF Elements
<1> QED BY <1>1, <1>3, <1>4, <1>6, <1>7

(***************************************************************************)
(* Types                                                                   *)
(***************************************************************************)
LEMMA FreshInode ==
    ASSUME TypeOK, DataOK, NEW n, Unused(n)
    PROVE  /\ n \in Inodes /\ n \notin Linked /\ n \notin Elements(listed)
           /\ n # open /\ data[n] = <<>>
BY DEF Unused, Free, DataOK

\* A file that is opened gets a name, and no name goes.
LEMMA Opening ==
    ASSUME TypeOK, DataOK, NewFile \/ NewFileInThePast
    PROVE  Linked \subseteq Linked'
<1>1. dir \in Seq(Inodes) /\ \A j, m \in DOMAIN dir : dir[j] = dir[m] => j = m
  BY DEF TypeOK
<1>2. CASE NewFile
  <2>1. PICK n \in Inodes : dir' = Append(dir, n)
    BY <1>2 DEF NewFile
  <2> QED BY <1>1, <2>1, AppendElements DEF Linked
<1>3. CASE NewFileInThePast
  <2>1. PICK n \in Inodes, at \in 1 .. Len(dir) : Unused(n) /\ dir' = Entered(dir, at, n)
    BY <1>3 DEF NewFileInThePast
  <2>2. n \notin Elements(dir)
    BY <2>1, FreshInode DEF Linked
  <2>3. Elements(dir') = Elements(dir) \cup {n}
    BY <1>1, <2>1, <2>2, EnteredElements
  <2> QED BY <2>3 DEF Linked
<1> QED BY <1>2, <1>3

\* The listing.
LEMMA Listing ==
    ASSUME TypeOK
    PROVE  LET fs == AllButNewest(dir)
           IN  /\ fs \in Seq(Inodes) /\ Elements(fs) \subseteq Linked
               /\ \A j, m \in DOMAIN fs : fs[j] = fs[m] => j = m
               /\ fs # <<>> => dir # <<>> /\ dir[Len(dir)] \notin Elements(fs)
               /\ Len(fs) <= Len(dir) /\ \A j \in DOMAIN fs : fs[j] = dir[j]
<1> DEFINE fs == AllButNewest(dir)
<1>1. CASE dir = <<>>
  <2>1. fs = <<>>
    BY <1>1 DEF AllButNewest
  <2>2. Len(fs) = 0 /\ Elements(fs) = {} /\ fs \in Seq(Inodes)
    BY <2>1 DEF Elements
  <2> QED BY <2>1, <2>2, <1>1
<1>2. CASE dir # <<>>
  <2>1. dir \in Seq(Inodes) /\ Len(dir) \in Nat \ {0} /\ DOMAIN dir = 1 .. Len(dir)
        /\ \A j, m \in DOMAIN dir : dir[j] = dir[m] => j = m
    BY <1>2 DEF TypeOK
  <2>2. fs = SubSeq(dir, 1, Len(dir) - 1) /\ Len(dir) - 1 \in 0 .. Len(dir)
    BY <1>2, <2>1 DEF AllButNewest
  <2>3. /\ fs \in Seq(Inodes) /\ Len(fs) = Len(dir) - 1
        /\ \A j \in 1 .. Len(dir) - 1 : fs[j] = dir[j]
        /\ DOMAIN fs = 1 .. Len(dir) - 1 /\ Elements(fs) \subseteq Linked
    BY <2>1, <2>2, PartElements DEF Linked
  <2> HIDE DEF fs
  <2>4. dir[Len(dir)] \notin Elements(fs)
    BY <2>1, <2>3 DEF Elements
  <2>5. \A j, m \in DOMAIN fs : fs[j] = fs[m] => j = m
    BY <2>1, <2>3
  <2>6. Len(fs) <= Len(dir)
    BY <2>1, <2>3
  <2> QED BY <1>2, <2>3, <2>4, <2>5, <2>6 DEF fs
<1> QED BY <1>1, <1>2

\* What a failing append leaves of $TMP: a beginning t of it in the log, and the
\* rest gone.
LEMMA Failing ==
    ASSUME TypeOK, AppendFails
    PROVE  /\ UNCHANGED <<dir, data, open, captured, listed, read, twice>>
           /\ pc = "append" /\ pc' = "remove" /\ tmp' = <<>> /\ Elements(tmp') = {}
           /\ mishaps' # 0 /\ mishaps' \in 0 .. MaxMishaps
           /\ gone \subseteq gone' /\ gone' \subseteq Packets
           /\ log' \in Seq(Packets)
           /\ \E t \in Seq(Packets) :
                 /\ log' = log \o t /\ Elements(log') = Elements(log) \cup Elements(t)
                 /\ DOMAIN t \subseteq DOMAIN tmp /\ \A j \in DOMAIN t : t[j] = tmp[j]
                 /\ Elements(t) \subseteq Elements(tmp)
                 /\ Elements(tmp) \subseteq Elements(t) \cup gone'
<1>1. /\ UNCHANGED <<dir, data, open, captured, listed, read, twice>>
      /\ pc = "append" /\ pc' = "remove" /\ tmp' = <<>>
      /\ mishaps < MaxMishaps /\ mishaps' = mishaps + 1
  BY DEF AppendFails, dumper
<1>0. mishaps' # 0 /\ mishaps' \in 0 .. MaxMishaps
  <2>1. mishaps \in 0 .. MaxMishaps
    BY DEF TypeOK
  <2> QED BY <1>1, <2>1, BoundsAssumption
<1>2. Elements(tmp') = {}
  BY <1>1 DEF Elements
<1>3. PICK n \in 0 .. Len(tmp) - 1 :
        /\ log' = log \o SubSeq(tmp, 1, n)
        /\ gone' = gone \cup {tmp[j] : j \in n + 1 .. Len(tmp)}
  BY DEF AppendFails
<1> DEFINE t == SubSeq(tmp, 1, n)
<1>4. tmp \in Seq(Packets) /\ log \in Seq(Packets) /\ n \in 0 .. Len(tmp) /\ gone \subseteq Packets
  BY DEF TypeOK
<1>5. /\ t \in Seq(Packets) /\ DOMAIN t = 1 .. n /\ 1 .. n \subseteq DOMAIN tmp
      /\ (\A j \in 1 .. n : t[j] = tmp[j]) /\ Elements(t) \subseteq Elements(tmp)
  BY <1>4, PartElements
<1>6. log' = log \o t
  BY <1>3
<1> HIDE DEF t
<1>7. Elements(log') = Elements(log) \cup Elements(t) /\ log' \in Seq(Packets)
  BY <1>4, <1>5, <1>6, ConcatElements
<1>8. Elements(tmp) \subseteq Elements(t) \cup gone'
  <2> SUFFICES ASSUME NEW j \in DOMAIN tmp PROVE tmp[j] \in Elements(t) \cup gone'
    BY DEF Elements
  <2>1. j \in 1 .. n \/ j \in n + 1 .. Len(tmp)
    BY <1>4
  <2>2. CASE j \in 1 .. n
    BY <1>5, <2>2 DEF Elements
  <2>3. CASE j \in n + 1 .. Len(tmp)
    BY <1>3, <2>3
  <2> QED BY <2>1, <2>2, <2>3
<1>9. gone \subseteq gone' /\ gone' \subseteq Packets
  <2>1. \A j \in n + 1 .. Len(tmp) : tmp[j] \in Packets
    <3>1. DOMAIN tmp = 1 .. Len(tmp) /\ \A j \in DOMAIN tmp : tmp[j] \in Packets
      BY <1>4
    <3>2. Len(tmp) \in Nat /\ n \in Nat
      BY <1>4
    <3> QED BY <3>1, <3>2
  <2> QED BY <1>3, <1>4, <2>1
<1> QED BY <1>0, <1>1, <1>2, <1>5, <1>6, <1>7, <1>8, <1>9

LEMMA StepTypeOK == ASSUME Inv, [Next]_vars PROVE TypeOK'
<1> USE BoundsAssumption, NoneAssumption
<1>0. TypeOK /\ DataOK /\ ListOK
  BY DEF Inv
<1>1. CASE NewFile
  <2>1. PICK n \in Inodes : Unused(n) /\ dir' = Append(dir, n) /\ open' = n
    BY <1>1 DEF NewFile
  <2>2. n \notin Linked
    BY <1>0, <2>1, FreshInode
  <2>3. dir' \in Seq(Inodes) /\ \A j, m \in DOMAIN dir' : dir'[j] = dir'[m] => j = m
    BY SMTT(30), <1>0, <2>1, <2>2 DEF TypeOK, Linked, Elements
  <2> QED BY <1>0, <1>1, <2>1, <2>3 DEF NewFile, TypeOK, analyzer, history
<1>2. CASE Capture
  <2>1. captured + 1 \in Packets /\ captured' = captured + 1
    BY <1>0, <1>2 DEF Capture, TypeOK, Packets
  <2>2. data' \in [Inodes -> Seq(Packets)]
    <3>1. ASSUME open \in Linked
          PROVE  data' = [data EXCEPT ![open] = Append(data[open], captured + 1)] /\ open \in Inodes
      BY <1>0, <1>2, <3>1 DEF Capture, TypeOK
    <3>2. ASSUME open \in Linked PROVE Append(data[open], captured + 1) \in Seq(Packets)
      BY <1>0, <2>1, <3>1, <3>2 DEF TypeOK
    <3>3. CASE open \in Linked
      BY <1>0, <3>1, <3>2, <3>3 DEF TypeOK
    <3>4. CASE open \notin Linked
      BY <1>0, <1>2, <3>4 DEF Capture, TypeOK
    <3> QED BY <3>3, <3>4
  <2>3. gone' \subseteq Packets
    BY <1>0, <1>2, <2>1 DEF Capture, TypeOK
  <2>4. captured' \in 0 .. MaxPackets
    BY <1>0, <1>2 DEF Capture, TypeOK
  <2> QED BY <1>0, <1>2, <2>2, <2>3, <2>4 DEF Capture, TypeOK, analyzer
<1>3. CASE DumpcapStops
  BY <1>0, <1>3 DEF DumpcapStops, TypeOK, analyzer, history
<1>4. CASE NewFileInThePast
  <2>1. PICK n \in Inodes, at \in 1 .. Len(dir) :
          Unused(n) /\ open' = n /\ dir' = Entered(dir, at, n)
    BY <1>4 DEF NewFileInThePast
  <2>2. n \notin Elements(dir)
    BY <1>0, <2>1, FreshInode DEF Linked
  <2>3. dir' \in Seq(Inodes) /\ \A j, m \in DOMAIN dir' : dir'[j] = dir'[m] => j = m
    <3>1. dir \in Seq(Inodes) /\ \A j, m \in DOMAIN dir : dir[j] = dir[m] => j = m
      BY <1>0 DEF TypeOK
    <3> QED BY <2>1, <2>2, <3>1, EnteredElements
  <2>4. mishaps' \in 0 .. MaxMishaps
    BY <1>0, <1>4 DEF NewFileInThePast, TypeOK
  <2> QED BY <1>0, <1>4, <2>1, <2>3, <2>4 DEF NewFileInThePast, TypeOK, analyzer
<1>5. CASE List
  <2>1. listed' \in Seq(Inodes) /\ (pc' = "parse" => listed' # <<>>)
    BY <1>0, <1>5, Listing DEF List, Found
  <2>2. pc' \in {"parse", "list"} /\ read' = 0
    BY <1>5 DEF List
  <2>3. Len(listed') \in Nat
    BY <2>1
  <2> QED BY <1>0, <1>5, <2>1, <2>2, <2>3 DEF List, TypeOK, dumper, history
<1>6. CASE ReadFile
  <2>1. NextFile \in Inodes
    BY <1>0, <1>6 DEF ReadFile, TypeOK, NextFile
  <2>2. tmp' \in Seq(Packets)
    BY <1>0, <1>6, <2>1 DEF ReadFile, TypeOK
  <2>3. read' \in Nat /\ read' <= Len(listed)
    BY <1>0, <1>6 DEF ReadFile, TypeOK
  <2> QED BY <1>0, <1>6, <2>2, <2>3 DEF ReadFile, TypeOK, dumper, history
<1>7. CASE Parsed
  BY <1>0, <1>7 DEF Parsed, TypeOK, AfterParse, dumper, history
<1>8. CASE ParseFails
  <2>1. PICK n \in 0 .. Len(tmp) : tmp' = SubSeq(tmp, 1, n)
    BY <1>8 DEF ParseFails
  <2>2. tmp' \in Seq(Packets)
    BY <1>0, <2>1, PartElements DEF TypeOK
  <2>3. InFiles(listed) \subseteq Packets
    BY <1>0 DEF TypeOK, InFiles, Elements
  <2>4. mishaps' \in 0 .. MaxMishaps
    BY <1>0, <1>8 DEF ParseFails, TypeOK
  <2> QED BY <1>0, <1>8, <2>2, <2>3, <2>4 DEF ParseFails, TypeOK, AfterParse, dumper
<1>9. CASE AppendLog
  <2>1. log' \in Seq(Packets) /\ tmp' \in Seq(Packets)
    BY <1>0, <1>9 DEF AppendLog, TypeOK
  <2> QED BY <1>0, <1>9, <2>1 DEF AppendLog, TypeOK, dumper, history
<1>10. CASE RemoveFile
  <2>1. PICK at \in DOMAIN dir : dir[at] = Head(listed) /\ dir' = Deleted(dir, at)
    BY <1>10 DEF RemoveFile
  <2>2. dir' \in Seq(Inodes) /\ \A j, m \in DOMAIN dir' : dir'[j] = dir'[m] => j = m
    <3>1. dir \in Seq(Inodes) /\ \A j, m \in DOMAIN dir : dir[j] = dir[m] => j = m
      BY <1>0 DEF TypeOK
    <3> QED BY <2>1, <3>1, DeletedElements
  <2>3. listed' \in Seq(Inodes)
    BY <1>0, <1>10, TailElements DEF RemoveFile, Rest, TypeOK
  <2>4. data' \in [Inodes -> Seq(Packets)]
    BY <1>0, <1>10 DEF RemoveFile, TypeOK
  <2> QED BY <1>0, <1>10, <2>2, <2>3, <2>4 DEF RemoveFile, TypeOK, dumper, history
<1>11. CASE Again
  BY <1>0, <1>11 DEF Again, TypeOK, dumper, history
<1>12. CASE Kill
  <2>1. listed' = <<>> /\ tmp' = <<>> /\ read' = 0 /\ pc' = "dead"
        /\ UNCHANGED <<dir, data, open, captured, gone>>
    BY <1>12 DEF Kill, dumper
  <2>2. mishaps' \in 0 .. MaxMishaps
    BY <1>0, <1>12 DEF Kill, TypeOK
  <2>3. log' \in Seq(Packets) /\ twice' \subseteq Packets
    <3>1. CASE log' = log /\ twice' = IF pc = "remove" THEN twice \cup InFiles(listed) ELSE twice
      <4>1. InFiles(listed) \subseteq Packets
        BY <1>0 DEF TypeOK, InFiles, Elements
      <4> QED BY <1>0, <3>1, <4>1 DEF TypeOK
    <3>2. ASSUME NEW n \in DOMAIN tmp, log' = log \o SubSeq(tmp, 1, n),
                 twice' = twice \cup {tmp[j] : j \in 1 .. n}
          PROVE  log' \in Seq(Packets) /\ twice' \subseteq Packets
      <4>1. n \in 0 .. Len(tmp) /\ tmp \in Seq(Packets) /\ log \in Seq(Packets)
        BY <1>0 DEF TypeOK
      <4>2. SubSeq(tmp, 1, n) \in Seq(Packets) /\ \A j \in 1 .. n : tmp[j] \in Packets
        BY <4>1, PartElements
      <4>3. twice' \subseteq Packets
        BY <1>0, <3>2, <4>2 DEF TypeOK
      <4> QED BY <3>2, <4>1, <4>2, <4>3
    <3> QED BY <1>12, <3>1, <3>2 DEF Kill
  <2>4. listed' \in Seq(Inodes) /\ tmp' \in Seq(Packets)
    BY <2>1
  <2> QED BY <1>0, <2>1, <2>2, <2>3, <2>4 DEF TypeOK
<1>13. CASE Restart
  BY <1>0, <1>13 DEF Restart, TypeOK, dumper, history
<1>14. CASE UNCHANGED vars
  BY <1>0, <1>14 DEF vars, TypeOK, dumper, analyzer, history
<1>15. CASE AppendFails
  <2>1. /\ UNCHANGED <<dir, data, open, captured, listed, read, twice>>
        /\ pc' = "remove" /\ tmp' = <<>> /\ mishaps' \in 0 .. MaxMishaps
        /\ gone' \subseteq Packets /\ log' \in Seq(Packets)
    BY <1>0, <1>15, Failing
  <2>2. tmp' \in Seq(Packets)
    BY <2>1
  <2> QED BY <1>0, <2>1, <2>2 DEF TypeOK
<1> QED BY <1>1, <1>2, <1>3, <1>4, <1>5, <1>6, <1>7, <1>8, <1>9, <1>10, <1>11,
           <1>12, <1>13, <1>14, <1>15 DEF Next, Dump, Analyze

(***************************************************************************)
(* The files                                                               *)
(***************************************************************************)
\* What the removal of the first listed file leaves.
LEMMA Removal ==
    ASSUME TypeOK, ListOK, RemoveFile
    PROVE  /\ Head(listed) \in Inodes /\ Head(listed) \in Elements(listed)
           /\ Head(listed) = listed[1] /\ 1 \in DOMAIN listed
           /\ Linked' = Linked \ {Head(listed)}
           /\ listed' = Tail(listed) /\ DOMAIN listed' = 1 .. Len(listed) - 1
           /\ Len(listed') = Len(listed) - 1 /\ Len(listed) \in Nat \ {0}
           /\ \A j \in DOMAIN listed' : listed'[j] = listed[j + 1] /\ j + 1 \in DOMAIN listed
           /\ Elements(listed') = Elements(listed) \ {Head(listed)}
           /\ data'[Head(listed)] = <<>>
           /\ \A n \in Inodes : n # Head(listed) => data'[n] = data[n]
<1>1. listed \in Seq(Inodes) /\ listed # <<>> /\ listed' = Tail(listed)
  BY DEF RemoveFile, Rest, TypeOK
<1>2. /\ listed' \in Seq(Inodes) /\ Len(listed') = Len(listed) - 1 /\ Len(listed) \in Nat \ {0}
      /\ Head(listed) = listed[1] /\ 1 \in DOMAIN listed
      /\ DOMAIN listed' = 1 .. Len(listed) - 1
      /\ \A j \in 1 .. Len(listed) - 1 : listed'[j] = listed[j + 1] /\ j + 1 \in DOMAIN listed
      /\ Elements(listed') \subseteq Elements(listed) /\ Head(listed) \in Elements(listed)
  BY <1>1, TailElements
<1>3. Head(listed) \in Inodes
  BY <1>1, <1>2
<1>4. \A j \in DOMAIN listed' : listed'[j] # Head(listed)
  <2> SUFFICES ASSUME NEW j \in 1 .. Len(listed) - 1, listed[j + 1] = listed[1] PROVE FALSE
    BY <1>2
  <2>1. j + 1 = 1
    BY <1>2 DEF ListOK
  <2> QED BY <2>1, <1>2
<1>5. ASSUME NEW i \in DOMAIN listed, listed[i] # Head(listed) PROVE listed[i] \in Elements(listed')
  <2>1. i # 1 /\ i \in 1 .. Len(listed)
    BY <1>5, <1>2, <1>1
  <2>2. i - 1 \in DOMAIN listed' /\ listed'[i - 1] = listed[i]
    BY <2>1, <1>2
  <2> QED BY <2>2 DEF Elements
<1>6. Elements(listed') = Elements(listed) \ {Head(listed)}
  BY ZenonT(60), <1>2, <1>4, <1>5 DEF Elements
<1>7. Linked' = Linked \ {Head(listed)}
  <2>1. PICK at \in DOMAIN dir : dir[at] = Head(listed) /\ dir' = Deleted(dir, at)
    BY DEF RemoveFile
  <2>2. dir \in Seq(Inodes) /\ \A j, m \in DOMAIN dir : dir[j] = dir[m] => j = m
    BY DEF TypeOK
  <2>3. Elements(dir') = Elements(dir) \ {dir[at]}
    BY <2>1, <2>2, DeletedElements
  <2> QED BY <2>1, <2>3 DEF Linked
<1>8. data'[Head(listed)] = <<>> /\ \A n \in Inodes : n # Head(listed) => data'[n] = data[n]
  BY <1>3 DEF RemoveFile, TypeOK
<1> QED BY <1>1, <1>2, <1>3, <1>6, <1>7, <1>8

\* What a captured packet changes.
LEMMA Captured ==
    ASSUME TypeOK, DataOK, Capture
    PROVE  /\ captured' = captured + 1 /\ captured \in Nat
           /\ \A n \in Inodes : n # open \/ open \notin Linked => data'[n] = data[n]
           /\ open \in Linked => open \in Inodes /\ data'[open] = Append(data[open], captured + 1)
           /\ \A n \in Inodes : Elements(data[n]) \subseteq Elements(data'[n])
           /\ \A n \in Inodes : Elements(data[n]) \subseteq 1 .. captured
           /\ \A n \in Inodes : \A p \in Elements(data'[n]) :
                 p \in Elements(data[n]) \/ (p = captured + 1 /\ n = open /\ open \in Linked)
           /\ open \in Linked => captured + 1 \in Elements(data'[open])
<1>1. captured' = captured + 1 /\ captured \in Nat /\ captured + 1 \in Packets
  BY BoundsAssumption DEF Capture, TypeOK, Packets
<1>2. \A n \in Inodes : n # open \/ open \notin Linked => data'[n] = data[n]
  BY DEF Capture, TypeOK
<1>3. open \in Linked => open \in Inodes
  BY DEF TypeOK, Linked, Elements
<1>4. open \in Linked => data'[open] = Append(data[open], captured + 1)
  BY <1>3 DEF Capture, TypeOK
<1>5. open \in Linked => Elements(data'[open]) = Elements(data[open]) \cup {captured + 1}
  <2> SUFFICES ASSUME open \in Linked
               PROVE  Elements(data'[open]) = Elements(data[open]) \cup {captured + 1}
    OBVIOUS
  <2>1. data[open] \in Seq(Packets)
    BY <1>3 DEF TypeOK
  <2>2. data'[open] = Append(data[open], captured + 1)
    BY <1>4
  <2> QED BY <2>1, <2>2, <1>1, AppendElements
<1>6. \A n \in Inodes : Elements(data[n]) \subseteq 1 .. captured
  BY DEF DataOK, Elements
<1>7. \A n \in Inodes : Elements(data[n]) \subseteq Elements(data'[n])
  BY <1>2, <1>5
<1>8. \A n \in Inodes : \A p \in Elements(data'[n]) :
        p \in Elements(data[n]) \/ (p = captured + 1 /\ n = open /\ open \in Linked)
  BY <1>2, <1>5
<1>9. open \in Linked => captured + 1 \in Elements(data'[open])
  BY <1>5
<1> QED BY <1>1, <1>2, <1>3, <1>4, <1>6, <1>7, <1>8, <1>9

LEMMA StepListOK == ASSUME Inv, [Next]_vars PROVE ListOK'
<1>0. TypeOK /\ DataOK /\ ListOK
  BY DEF Inv
<1>1. CASE NewFile
  <2>1. PICK n \in Inodes : Unused(n) /\ dir' = Append(dir, n) /\ listed' = listed
    BY <1>1 DEF NewFile, analyzer
  <2>2. n \notin Elements(listed)
    BY <1>0, <2>1, FreshInode
  <2>3. Len(dir') = Len(dir) + 1 /\ dir'[Len(dir) + 1] = n /\ Linked' = Linked \cup {n} /\ dir' # <<>>
    <3>1. dir \in Seq(Inodes)
      BY <1>0 DEF TypeOK
    <3>2. /\ dir' \in Seq(Inodes) /\ Len(dir') = Len(dir) + 1
          /\ dir'[Len(dir) + 1] = n
      BY <2>1, <3>1
    <3>3. dir' # <<>>
      BY <3>1, <3>2
    <3>4. Elements(dir') = Elements(dir) \cup {n}
      BY <2>1, <3>1, AppendElements
    <3> QED BY <3>2, <3>3, <3>4 DEF Linked
  <2> QED BY <1>0, <2>1, <2>2, <2>3 DEF ListOK
<1>2. CASE NewFileInThePast
  <2>1. PICK n \in Inodes, at \in 1 .. Len(dir) :
          Unused(n) /\ dir' = Entered(dir, at, n) /\ listed' = listed
    BY <1>2 DEF NewFileInThePast, analyzer
  <2>2. n \notin Elements(dir)
    BY <1>0, <2>1, FreshInode DEF Linked
  <2>3. dir \in Seq(Inodes) /\ \A j, m \in DOMAIN dir : dir[j] = dir[m] => j = m
    BY <1>0 DEF TypeOK
  <2>4. /\ Len(dir') = Len(dir) + 1 /\ dir'[Len(dir) + 1] = dir[Len(dir)]
        /\ Elements(dir') = Elements(dir) \cup {n} /\ dir' \in Seq(Inodes)
    BY <2>1, <2>2, <2>3, EnteredElements
  <2>5. dir' # <<>>
    BY <2>3, <2>4
  <2> QED BY <1>0, <2>1, <2>4, <2>5 DEF ListOK, Linked
<1>3. CASE List
  BY <1>0, <1>3, Listing DEF List, ListOK, Linked
<1>4. CASE RemoveFile
  <2>1. \A j, m \in DOMAIN listed' : listed'[j] = listed'[m] => j = m
    <3> SUFFICES ASSUME NEW j \in DOMAIN listed', NEW m \in DOMAIN listed', listed'[j] = listed'[m]
                 PROVE  j = m
      OBVIOUS
    <3>1. j + 1 \in DOMAIN listed /\ m + 1 \in DOMAIN listed /\ listed[j + 1] = listed[m + 1]
          /\ j \in Int /\ m \in Int
      BY <1>0, <1>4, Removal
    <3>2. j + 1 = m + 1
      BY <1>0, <3>1 DEF ListOK
    <3> QED BY <3>1, <3>2
  <2>2. Elements(listed') \subseteq Linked'
    BY <1>0, <1>4, Removal DEF ListOK
  <2>3. dir' # <<>> /\ dir'[Len(dir')] \notin Elements(listed')
    <3>1. PICK at \in DOMAIN dir : dir[at] = Head(listed) /\ dir' = Deleted(dir, at)
      BY <1>4 DEF RemoveFile
    <3>2. dir \in Seq(Inodes) /\ \A j, m \in DOMAIN dir : dir[j] = dir[m] => j = m
      BY <1>0 DEF TypeOK
    <3>3. Head(listed) \in Elements(listed) /\ Elements(listed') \subseteq Elements(listed)
      BY <1>0, <1>4, Removal
    <3>4. dir[Len(dir)] \notin Elements(listed)
      BY <1>0, <1>4 DEF ListOK, RemoveFile
    <3>5. at \in 1 .. Len(dir) /\ at # Len(dir) /\ Len(dir) \in Nat
      BY <3>1, <3>2, <3>3, <3>4
    <3>6. dir' \in Seq(Inodes) /\ Len(dir') = Len(dir) - 1
          /\ \A j \in 1 .. Len(dir) - 1 : dir'[j] = IF j < at THEN dir[j] ELSE dir[j + 1]
      BY <3>1, <3>2, DeletedElements
    <3>7. dir'[Len(dir) - 1] = dir[Len(dir)] /\ dir' # <<>>
      BY <3>5, <3>6
    <3> QED BY <3>3, <3>4, <3>6, <3>7
  <2> QED BY <2>1, <2>2, <2>3 DEF ListOK
<1>5. CASE Kill
  <2>1. listed' = <<>>
    BY <1>5 DEF Kill
  <2>2. Elements(listed') = {} /\ DOMAIN listed' = {}
    BY <2>1 DEF Elements
  <2> QED BY <2>1, <2>2 DEF ListOK
<1>6. CASE Capture \/ DumpcapStops \/ ReadFile \/ Parsed \/ ParseFails \/ AppendLog
           \/ AppendFails \/ Again \/ Restart \/ UNCHANGED vars
  <2>1. UNCHANGED <<listed, dir>>
    BY <1>6 DEF Capture, DumpcapStops, ReadFile, Parsed, ParseFails, AppendLog, AppendFails, Again, Restart, vars, analyzer
  <2> QED BY <1>0, <2>1 DEF ListOK, Linked
<1> QED BY <1>1, <1>2, <1>3, <1>4, <1>5, <1>6 DEF Next, Dump, Analyze

\* What the reading of a file puts in $TMP.
LEMMA Reading ==
    ASSUME TypeOK, ReadFile
    PROVE  /\ read + 1 \in DOMAIN listed /\ listed[read + 1] \in Inodes
           /\ read' = read + 1 /\ read \in Nat
           /\ tmp \in Seq(Packets) /\ data[listed[read + 1]] \in Seq(Packets)
           /\ tmp' = tmp \o data[listed[read + 1]]
           /\ Elements(tmp') = Elements(tmp) \cup Elements(data[listed[read + 1]])
<1>1. read + 1 \in DOMAIN listed /\ listed[read + 1] \in Inodes /\ read' = read + 1 /\ read \in Nat
  BY DEF ReadFile, TypeOK
<1>2. tmp \in Seq(Packets) /\ data[listed[read + 1]] \in Seq(Packets)
  BY <1>1 DEF TypeOK
<1>3. tmp' = tmp \o data[listed[read + 1]]
  BY DEF ReadFile, NextFile
<1>4. Elements(tmp') = Elements(tmp) \cup Elements(data[listed[read + 1]])
  BY <1>2, <1>3, ConcatElements
<1> QED BY <1>1, <1>2, <1>3, <1>4

\* What a kill leaves in the log.
LEMMA Killing ==
    ASSUME TypeOK, Kill
    PROVE  /\ UNCHANGED <<dir, data, open, captured, gone>> /\ mishaps' # 0
           /\ pc' = "dead" /\ listed' = <<>> /\ tmp' = <<>>
           /\ Elements(listed') = {} /\ Elements(tmp') = {}
           /\ twice \subseteq twice' /\ Elements(log) \subseteq Elements(log')
           /\ \/ log' = log /\ (pc = "remove" => InFiles(listed) \subseteq twice')
              \/ /\ pc = "append"
                 /\ \E n \in 1 .. Len(tmp) :
                       log' = log \o SubSeq(tmp, 1, n) /\ twice' = twice \cup Elements(SubSeq(tmp, 1, n))
           /\ Elements(log') \subseteq Elements(log) \cup Elements(tmp)
<1>1. /\ UNCHANGED <<dir, data, open, captured, gone>> /\ mishaps' # 0
      /\ pc' = "dead" /\ listed' = <<>> /\ tmp' = <<>>
  BY DEF Kill, dumper, TypeOK
<1>2. Elements(listed') = {} /\ Elements(tmp') = {}
  BY <1>1 DEF Elements
<1>3. CASE log' = log /\ twice' = IF pc = "remove" THEN twice \cup InFiles(listed) ELSE twice
  BY <1>1, <1>2, <1>3
<1>4. ASSUME pc = "append", NEW n \in DOMAIN tmp, log' = log \o SubSeq(tmp, 1, n),
             twice' = twice \cup {tmp[j] : j \in 1 .. n}
      PROVE  /\ n \in 1 .. Len(tmp) /\ twice' = twice \cup Elements(SubSeq(tmp, 1, n))
             /\ Elements(log') = Elements(log) \cup Elements(SubSeq(tmp, 1, n))
             /\ Elements(SubSeq(tmp, 1, n)) \subseteq Elements(tmp)
  <2>1. n \in 1 .. Len(tmp) /\ n \in 0 .. Len(tmp) /\ tmp \in Seq(Packets) /\ log \in Seq(Packets)
    BY <1>4 DEF TypeOK
  <2>2. /\ SubSeq(tmp, 1, n) \in Seq(Packets) /\ DOMAIN SubSeq(tmp, 1, n) = 1 .. n
        /\ \A j \in 1 .. n : SubSeq(tmp, 1, n)[j] = tmp[j]
        /\ Elements(SubSeq(tmp, 1, n)) \subseteq Elements(tmp)
    BY <2>1, PartElements
  <2>3. Elements(SubSeq(tmp, 1, n)) = {tmp[j] : j \in 1 .. n}
    BY <2>2 DEF Elements
  <2>4. Elements(log') = Elements(log) \cup Elements(SubSeq(tmp, 1, n))
    <3> DEFINE part == SubSeq(tmp, 1, n)
    <3>1. part \in Seq(Packets) /\ log' = log \o part
      BY <1>4, <2>2
    <3>2. log \in Seq(Packets)
      BY <2>1
    <3> HIDE DEF part
    <3>3. Elements(log') = Elements(log) \cup Elements(part)
      BY <3>1, <3>2, ConcatElements
    <3> QED BY <3>3 DEF part
  <2> QED BY <1>4, <2>1, <2>2, <2>3, <2>4
<1> QED BY <1>1, <1>2, <1>3, <1>4 DEF Kill

LEMMA StepDataOK == ASSUME Inv, [Next]_vars PROVE DataOK'
<1>0. TypeOK /\ DataOK /\ ListOK
  BY DEF Inv
<1>a. captured \in Nat
  BY <1>0 DEF TypeOK
<1>1. CASE Capture
  <2>1. UNCHANGED <<dir, tmp, log>>
    BY <1>1 DEF Capture, analyzer
  <2>2. ASSUME NEW n \in Inodes PROVE \A j \in DOMAIN data'[n] : data'[n][j] \in 1 .. captured'
    <3>1. Elements(data'[n]) \subseteq 1 .. captured + 1
      <4>1. \A p \in Elements(data'[n]) : p \in Elements(data[n]) \/ p = captured + 1
        BY <1>0, <1>1, Captured
      <4>2. Elements(data[n]) \subseteq 1 .. captured
        BY <1>0, <1>1, Captured
      <4> QED BY <4>1, <4>2, <1>a
    <3>2. captured' = captured + 1
      BY <1>1 DEF Capture
    <3> QED BY <3>1, <3>2 DEF Elements
  <2>3. ASSUME NEW n \in Inodes, NEW j \in DOMAIN data'[n], NEW m \in DOMAIN data'[n], j < m
        PROVE  data'[n][j] < data'[n][m]
    <3>1. CASE data'[n] = data[n]
      BY <1>0, <2>3, <3>1 DEF DataOK
    <3>2. CASE data'[n] # data[n]
      <4>1. n = open /\ data'[n] = Append(data[n], captured + 1)
        BY <1>0, <1>1, <3>2, Captured
      <4>2. data[n] \in Seq(Packets)
        BY <1>0 DEF TypeOK
      <4>3. \A i \in DOMAIN data[n] : data[n][i] \in 1 .. captured
        BY <1>0 DEF DataOK
      <4>4. \A i, k \in DOMAIN data[n] : i < k => data[n][i] < data[n][k]
        BY <1>0 DEF DataOK
      <4>5. /\ DOMAIN data[n] = 1 .. Len(data[n]) /\ DOMAIN data'[n] = 1 .. Len(data[n]) + 1
            /\ Len(data[n]) \in Nat /\ data'[n][Len(data[n]) + 1] = captured + 1
            /\ \A i \in 1 .. Len(data[n]) : data'[n][i] = data[n][i]
        BY <4>1, <4>2
      <4>6. j \in DOMAIN data[n]
        BY <4>5, <2>3
      <4>7. CASE m = Len(data[n]) + 1
        BY <4>3, <4>5, <4>6, <4>7, <1>a
      <4>8. CASE m \in DOMAIN data[n]
        BY <4>4, <4>5, <4>6, <4>8, <2>3
      <4> QED BY <4>5, <4>7, <4>8
    <3> QED BY <3>1, <3>2
  <2>4. ASSUME NEW n \in Inodes, NEW k \in Inodes, n # k
        PROVE  Elements(data'[n]) \cap Elements(data'[k]) = {}
    <3> SUFFICES ASSUME NEW p, p \in Elements(data'[n]), p \in Elements(data'[k]) PROVE FALSE
      OBVIOUS
    <3>1. /\ p \in Elements(data[n]) \/ (p = captured + 1 /\ n = open)
          /\ p \in Elements(data[k]) \/ (p = captured + 1 /\ k = open)
      BY <1>0, <1>1, Captured
    <3>2. captured + 1 \notin Elements(data[n]) /\ captured + 1 \notin Elements(data[k])
      <4>1. Elements(data[n]) \subseteq 1 .. captured /\ Elements(data[k]) \subseteq 1 .. captured
        BY <1>0, <1>1, Captured
      <4> QED BY <4>1, <1>a
    <3>3. ~(p \in Elements(data[n]) /\ p \in Elements(data[k]))
      BY <1>0, <2>4 DEF DataOK
    <3> QED BY <3>1, <3>2, <3>3, <2>4
  <2>5. \A n \in Inodes \ Linked' : data'[n] = <<>>
    <3>1. Linked' = Linked
      BY <2>1 DEF Linked
    <3>2. \A n \in Inodes \ Linked : data'[n] = data[n]
      BY <1>0, <1>1, Captured
    <3> QED BY <1>0, <3>1, <3>2 DEF DataOK
  <2>6. Elements(tmp') \cup Elements(log') \subseteq 1 .. captured'
    <3>1. captured' = captured + 1
      BY <1>1 DEF Capture
    <3>2. 1 .. captured \subseteq 1 .. captured'
      BY <3>1, <1>a
    <3> QED BY <1>0, <2>1, <3>2 DEF DataOK
  <2> QED BY <2>2, <2>3, <2>4, <2>5, <2>6 DEF DataOK
<1>2. CASE NewFile \/ NewFileInThePast
  <2>1. UNCHANGED <<data, captured, tmp, log>>
    BY <1>2 DEF NewFile, NewFileInThePast, analyzer
  <2>2. Linked \subseteq Linked'
    BY <1>0, <1>2, Opening
  <2> QED BY <1>0, <2>1, <2>2 DEF DataOK
<1>3. CASE RemoveFile
  <2>1. UNCHANGED <<captured, tmp, log>>
    BY <1>3 DEF RemoveFile, dumper
  <2>2. \A n \in Inodes : data'[n] = data[n] \/ data'[n] = <<>>
    BY <1>0, <1>3, Removal
  <2>3. \A n \in Inodes \ Linked' : data'[n] = <<>>
    BY <1>0, <1>3, Removal DEF DataOK
  <2>4. Elements(<<>>) = {}
    BY DEF Elements
  <2>5. \A n, k \in Inodes : n # k => Elements(data'[n]) \cap Elements(data'[k]) = {}
    BY <1>0, <2>2, <2>4 DEF DataOK
  <2>6. DOMAIN <<>> = {}
    OBVIOUS
  <2>7. \A n \in Inodes : \A j \in DOMAIN data'[n] : data'[n][j] \in 1 .. captured'
    BY <1>0, <2>1, <2>2, <2>6 DEF DataOK
  <2>8. \A n \in Inodes : \A j, m \in DOMAIN data'[n] : j < m => data'[n][j] < data'[n][m]
    BY <1>0, <2>1, <2>2, <2>6 DEF DataOK
  <2> QED BY <1>0, <2>1, <2>3, <2>5, <2>7, <2>8 DEF DataOK
<1>4. CASE ReadFile
  <2>1. UNCHANGED <<dir, data, captured, log>>
    BY <1>4 DEF ReadFile, dumper
  <2>2. Elements(data[listed[read + 1]]) \subseteq 1 .. captured
    <3>1. listed[read + 1] \in Inodes
      BY <1>0, <1>4, Reading
    <3> QED BY <1>0, <3>1 DEF DataOK, Elements
  <2>3. Elements(tmp') \subseteq 1 .. captured
    BY <1>0, <1>4, <2>2, Reading DEF DataOK
  <2> QED BY <1>0, <2>1, <2>3 DEF DataOK, Linked
<1>5. CASE ParseFails
  <2>1. UNCHANGED <<dir, data, captured, log>>
    BY <1>5 DEF ParseFails, dumper
  <2>2. Elements(tmp') \subseteq Elements(tmp)
    BY <1>0, <1>5, PartElements DEF ParseFails, TypeOK
  <2> QED BY <1>0, <2>1, <2>2 DEF DataOK, Linked
<1>6. CASE AppendLog
  <2>1. UNCHANGED <<dir, data, captured>> /\ log' = log \o tmp /\ tmp' = <<>>
    BY <1>6 DEF AppendLog, dumper
  <2>2. log \in Seq(Packets) /\ tmp \in Seq(Packets)
    BY <1>0 DEF TypeOK
  <2>3. Elements(log') = Elements(log) \cup Elements(tmp) /\ Elements(tmp') = {}
    <3>1. Elements(log') = Elements(log) \cup Elements(tmp)
      BY <2>1, <2>2, ConcatElements
    <3>2. Elements(tmp') = {}
      BY <2>1 DEF Elements
    <3> QED BY <3>1, <3>2
  <2> QED BY <1>0, <2>1, <2>3 DEF DataOK, Linked
<1>7. CASE Kill
  <2>1. UNCHANGED <<dir, data, captured>> /\ Elements(tmp') = {}
        /\ Elements(log') \subseteq Elements(log) \cup Elements(tmp)
    BY <1>0, <1>7, Killing
  <2> QED BY <1>0, <2>1 DEF DataOK, Linked
<1>8. CASE DumpcapStops \/ List \/ Parsed \/ Again \/ Restart \/ UNCHANGED vars
  <2>1. UNCHANGED <<dir, data, captured, tmp, log>>
    BY <1>8 DEF DumpcapStops, List, Parsed, Again, Restart, vars, dumper, analyzer
  <2> QED BY <1>0, <2>1 DEF DataOK, Linked
<1>9. CASE AppendFails
  <2>1. UNCHANGED <<dir, data, captured>> /\ Elements(tmp') = {}
        /\ Elements(log') \subseteq Elements(log) \cup Elements(tmp)
    BY <1>0, <1>9, Failing
  <2> QED BY <1>0, <2>1 DEF DataOK, Linked
<1> QED BY <1>1, <1>2, <1>3, <1>4, <1>5, <1>6, <1>7, <1>8, <1>9 DEF Next, Dump, Analyze

(***************************************************************************)
(* Nothing is lost                                                         *)
(***************************************************************************)
LEMMA StepKeptOK == ASSUME Inv, [Next]_vars PROVE KeptOK'
<1>0. TypeOK /\ DataOK /\ ListOK /\ KeptOK
  BY DEF Inv
<1>a. \A j \in DOMAIN listed : listed[j] \in Inodes /\ listed[j] \in Elements(listed)
  BY <1>0 DEF TypeOK, Elements
<1>1. CASE Capture
  <2>1. UNCHANGED <<pc, listed, read, tmp, log>>
    BY <1>1 DEF Capture, analyzer
  <2>2. ASSUME NEW j \in DOMAIN listed
        PROVE  Elements(data'[listed[j]]) \subseteq Elements(data[listed[j]]) \cup gone'
    <3> SUFFICES ASSUME NEW p \in Elements(data'[listed[j]]), p \notin Elements(data[listed[j]])
                 PROVE  p \in gone'
      OBVIOUS
    <3>1. p = captured + 1 /\ listed[j] = open
      BY <1>0, <1>1, <1>a, Captured
    <3>2. ~Newest(open)
      BY <1>0, <1>a, <3>1 DEF Newest, ListOK
    <3> QED BY <1>1, <3>1, <3>2 DEF Capture
  <2>3. gone \subseteq gone'
    BY <1>1 DEF Capture
  <2> QED BY <1>0, <2>1, <2>2, <2>3 DEF KeptOK, Through
<1>2. CASE List
  <2>1. pc' \in {"parse", "list"} /\ read' = 0
    BY <1>2 DEF List
  <2>2. listed' \in Seq(Inodes)
    BY <1>0, <1>2, Listing DEF List
  <2>3. \A j \in DOMAIN listed' : pc' = "parse" => ~(j <= read')
    BY <2>1, <2>2
  <2>4. \A j \in DOMAIN listed' : pc' # "parse" \/ ~Through(j)'
    BY <2>3 DEF Through
  <2> QED BY <2>1, <2>4 DEF KeptOK
<1>3. CASE ReadFile
  <2>1. UNCHANGED <<pc, listed, data, gone>> /\ pc = "parse"
    BY <1>3 DEF ReadFile, dumper, history
  <2>2. ASSUME NEW j \in DOMAIN listed, j <= read'
        PROVE  Elements(data[listed[j]]) \subseteq Elements(tmp') \cup gone
    <3>1. CASE j = read + 1
      BY <1>0, <1>3, <3>1, Reading
    <3>2. CASE j <= read
      <4>1. Elements(data[listed[j]]) \subseteq Elements(tmp) \cup gone
        BY <1>0, <2>1, <3>2 DEF KeptOK, Through
      <4> QED BY <1>0, <1>3, <4>1, Reading
    <3>3. j \in Nat /\ read \in Nat /\ read' = read + 1
      BY <1>0, <1>3, Reading DEF TypeOK
    <3> QED BY <2>2, <3>1, <3>2, <3>3
  <2> QED BY <2>1, <2>2 DEF KeptOK, Through
<1>4. CASE Parsed
  <2>1. UNCHANGED <<listed, data, gone, tmp>> /\ pc = "parse" /\ pc' = "append" /\ read = Len(listed)
    BY <1>4 DEF Parsed, AfterParse, history
  <2>2. \A j \in DOMAIN listed : j <= read
    BY <1>0, <2>1 DEF TypeOK
  <2> QED BY <1>0, <2>1, <2>2 DEF KeptOK, Through
<1>5. CASE ParseFails
  <2>1. UNCHANGED <<listed, data>> /\ pc' = "append" /\ gone' = gone \cup InFiles(listed)
    BY <1>5 DEF ParseFails, AfterParse
  <2>2. \A j \in DOMAIN listed : Elements(data[listed[j]]) \subseteq gone'
    BY <2>1 DEF InFiles
  <2> QED BY <2>1, <2>2 DEF KeptOK
<1>6. CASE AppendLog
  <2>1. UNCHANGED <<listed, data, gone>> /\ pc = "append" /\ pc' = "remove" /\ log' = log \o tmp
    BY <1>6 DEF AppendLog, history
  <2>2. log \in Seq(Packets) /\ tmp \in Seq(Packets)
    BY <1>0 DEF TypeOK
  <2>3. Elements(log') = Elements(log) \cup Elements(tmp)
    BY <2>1, <2>2, ConcatElements
  <2>4. \A j \in DOMAIN listed : Elements(data[listed[j]]) \subseteq Elements(tmp) \cup gone
    BY <1>0, <2>1 DEF KeptOK, Through
  <2> QED BY <2>1, <2>3, <2>4 DEF KeptOK
<1>7. CASE RemoveFile
  <2>1. UNCHANGED <<pc, log, gone>> /\ pc = "remove"
    BY <1>7 DEF RemoveFile, history
  <2>2. ASSUME NEW j \in DOMAIN listed'
        PROVE  Elements(data'[listed'[j]]) \subseteq Elements(log) \cup gone
    <3>1. listed'[j] = listed[j + 1] /\ j + 1 \in DOMAIN listed /\ listed'[j] # Head(listed)
      BY <1>0, <1>7, Removal DEF Elements
    <3>2. data'[listed'[j]] = data[listed[j + 1]]
      BY <1>0, <1>7, <1>a, <3>1, Removal
    <3> QED BY <1>0, <2>1, <3>1, <3>2 DEF KeptOK
  <2> QED BY <2>1, <2>2 DEF KeptOK
<1>8. CASE Again \/ Restart \/ Kill
  BY <1>8 DEF Again, Restart, Kill, KeptOK
<1>9. CASE NewFile \/ NewFileInThePast \/ DumpcapStops \/ UNCHANGED vars
  <2>1. UNCHANGED <<pc, listed, read, data, tmp, log, gone>>
    BY <1>9 DEF NewFile, NewFileInThePast, DumpcapStops, vars, analyzer, history
  <2> QED BY <1>0, <2>1 DEF KeptOK, Through
<1>10. CASE AppendFails
  <2>1. /\ UNCHANGED <<listed, data>> /\ pc = "append" /\ pc' = "remove" /\ gone \subseteq gone'
        /\ Elements(tmp) \subseteq Elements(log') \cup gone'
    BY <1>0, <1>10, Failing
  <2>2. \A j \in DOMAIN listed : Elements(data[listed[j]]) \subseteq Elements(tmp) \cup gone
    BY <1>0, <2>1 DEF KeptOK, Through
  <2> QED BY <2>1, <2>2 DEF KeptOK
<1> QED BY <1>1, <1>2, <1>3, <1>4, <1>5, <1>6, <1>7, <1>8, <1>9, <1>10 DEF Next, Dump, Analyze

LEMMA InFilesOf ==
    ASSUME NEW p PROVE p \in InFiles(dir) <=> \E n \in Linked : p \in Elements(data[n])
BY DEF InFiles, Linked, Elements

LEMMA StepLossOK == ASSUME Inv, [Next]_vars PROVE LossOK'
<1>0. TypeOK /\ DataOK /\ ListOK /\ KeptOK /\ LossOK
  BY DEF Inv
<1>a. \A p \in 1 .. captured :
        (\E n \in Linked : p \in Elements(data[n])) \/ p \in Elements(log) \/ p \in gone
  BY <1>0, InFilesOf DEF LossOK, Held
<1>b. Linked \subseteq Inodes
  BY <1>0 DEF TypeOK, Linked, Elements
<1> SUFFICES ASSUME NEW p \in 1 .. captured'
             PROVE  \/ \E n \in Linked' : p \in Elements(data'[n])
                    \/ p \in Elements(log') \/ p \in gone'
  BY DEF LossOK, Held, InFiles, Linked, Elements
<1>1. CASE Capture
  <2>1. UNCHANGED <<dir, log>> /\ gone \subseteq gone'
    BY <1>1 DEF Capture, analyzer
  <2>2. Linked' = Linked
    BY <2>1 DEF Linked
  <2>3. CASE p \in 1 .. captured
    <3>1. \A n \in Linked : Elements(data[n]) \subseteq Elements(data'[n])
      BY <1>0, <1>1, <1>b, Captured
    <3> QED BY <1>a, <2>1, <2>2, <2>3, <3>1
  <2>4. CASE p = captured + 1
    <3>1. CASE Newest(open)
      <4>1. dir # <<>> /\ open = dir[Len(dir)] /\ dir \in Seq(Inodes)
        BY <1>0, <3>1 DEF Newest, TypeOK
      <4>2. Len(dir) \in DOMAIN dir
        BY <4>1
      <4>3. open \in Linked
        BY <4>1, <4>2 DEF Linked, Elements
      <4> QED BY <1>0, <1>1, <2>2, <2>4, <4>3, Captured
    <3>2. CASE ~Newest(open)
      BY <1>1, <2>4, <3>2 DEF Capture
    <3> QED BY <3>1, <3>2
  <2>5. captured' = captured + 1 /\ captured \in Nat
    BY <1>0, <1>1, Captured
  <2> QED BY <2>3, <2>4, <2>5
<1>2. CASE RemoveFile
  <2>1. UNCHANGED <<captured, log, gone>> /\ pc = "remove"
    BY <1>2 DEF RemoveFile, dumper, history
  <2>2. ASSUME p \in Elements(data[Head(listed)]) PROVE p \in Elements(log) \cup gone
    BY <1>0, <1>2, <2>1, <2>2, Removal DEF KeptOK
  <2>3. \A n \in Linked : n # Head(listed) => n \in Linked' /\ data'[n] = data[n]
    BY <1>0, <1>2, <1>b, Removal
  <2> QED BY <1>a, <2>1, <2>2, <2>3
<1>3. CASE AppendLog \/ Kill
  <2>1. UNCHANGED <<dir, data, captured, gone>>
    BY <1>3 DEF AppendLog, Kill, dumper, history
  <2>2. Elements(log) \subseteq Elements(log')
    <3>1. CASE AppendLog
      <4>1. log \in Seq(Packets) /\ tmp \in Seq(Packets) /\ log' = log \o tmp
        BY <1>0, <3>1 DEF TypeOK, AppendLog
      <4> QED BY <4>1, ConcatElements
    <3>2. CASE Kill
      BY <1>0, <3>2, Killing
    <3> QED BY <1>3, <3>1, <3>2
  <2> QED BY <1>a, <2>1, <2>2 DEF Linked
<1>4. CASE NewFile \/ NewFileInThePast
  <2>1. UNCHANGED <<data, captured, log, gone>>
    BY <1>4 DEF NewFile, NewFileInThePast, analyzer, history
  <2>2. Linked \subseteq Linked'
    BY <1>0, <1>4, Opening
  <2> QED BY <1>a, <2>1, <2>2
<1>5. CASE DumpcapStops \/ List \/ ReadFile \/ Parsed \/ ParseFails \/ Again \/ Restart \/ UNCHANGED vars
  <2>1. UNCHANGED <<dir, data, captured, log>> /\ gone \subseteq gone'
    BY <1>5 DEF DumpcapStops, List, ReadFile, Parsed, ParseFails, Again, Restart, vars, dumper, analyzer, history
  <2> QED BY <1>a, <2>1 DEF Linked
<1>6. CASE AppendFails
  <2>1. UNCHANGED <<dir, data, captured>> /\ gone \subseteq gone' /\ Elements(log) \subseteq Elements(log')
    BY <1>0, <1>6, Failing
  <2> QED BY <1>a, <2>1 DEF Linked
<1> QED BY <1>1, <1>2, <1>3, <1>4, <1>5, <1>6 DEF Next, Dump, Analyze

(***************************************************************************)
(* Nothing is logged twice                                                 *)
(***************************************************************************)
LEMMA StepTmpOK == ASSUME Inv, [Next]_vars PROVE TmpOK'
<1>0. TypeOK /\ DataOK /\ ListOK /\ TmpOK
  BY DEF Inv
<1>a. \A j \in DOMAIN listed : listed[j] \in Inodes
  BY <1>0 DEF TypeOK
<1>1. CASE Capture
  <2>1. UNCHANGED <<pc, listed, read, tmp>>
    BY <1>1 DEF Capture, analyzer
  <2>2. \A j \in DOMAIN listed : Elements(data[listed[j]]) \subseteq Elements(data'[listed[j]])
    BY <1>0, <1>1, <1>a, Captured
  <2> QED BY <1>0, <2>1, <2>2 DEF TmpOK, Through
<1>2. CASE List
  <2>1. tmp' = tmp /\ tmp = <<>>
    BY <1>0, <1>2 DEF List, TmpOK
  <2>2. DOMAIN tmp' = {}
    BY <2>1
  <2> QED BY <2>1, <2>2 DEF TmpOK
<1>3. CASE ReadFile
  <2> DEFINE t == data[listed[read + 1]]
  <2>1. /\ UNCHANGED <<pc, listed, data>> /\ pc = "parse" /\ read' = read + 1 /\ read \in Nat
        /\ read + 1 \in DOMAIN listed /\ tmp \in Seq(Packets) /\ t \in Seq(Packets) /\ tmp' = tmp \o t
    BY <1>0, <1>3, Reading DEF ReadFile, dumper
  <2>2. \A i \in DOMAIN tmp : \E j \in DOMAIN listed : j <= read /\ tmp[i] \in Elements(data[listed[j]])
    BY <1>0, <2>1 DEF TmpOK, Through
  <2>3. Elements(tmp') = Elements(tmp) \cup Elements(t)
    BY <1>0, <1>3, Reading
  <2>4. ASSUME NEW i \in DOMAIN tmp'
        PROVE  \E j \in DOMAIN listed : j <= read + 1 /\ tmp'[i] \in Elements(data[listed[j]])
    <3>1. tmp'[i] \in Elements(tmp) \/ tmp'[i] \in Elements(t)
      BY <2>3 DEF Elements
    <3>2. CASE tmp'[i] \in Elements(tmp)
      <4>1. PICK k \in DOMAIN tmp : tmp'[i] = tmp[k]
        BY <3>2 DEF Elements
      <4>2. PICK j \in DOMAIN listed : j <= read /\ tmp[k] \in Elements(data[listed[j]])
        BY <2>2
      <4>3. j <= read + 1
        BY <1>0, <2>1, <4>2 DEF TypeOK
      <4> QED BY <4>1, <4>2, <4>3
    <3>3. CASE tmp'[i] \in Elements(t)
      BY <2>1, <3>3
    <3> QED BY <3>1, <3>2, <3>3
  <2>5. Elements(tmp) \cap Elements(t) = {}
    <3> SUFFICES ASSUME NEW k \in DOMAIN tmp, tmp[k] \in Elements(t) PROVE FALSE
      BY DEF Elements
    <3>1. PICK j \in DOMAIN listed : j <= read /\ tmp[k] \in Elements(data[listed[j]])
      BY <2>2
    <3>2. j # read + 1
      BY <1>0, <2>1, <3>1 DEF TypeOK
    <3>3. listed[j] # listed[read + 1]
      BY <1>0, <2>1, <3>2 DEF ListOK
    <3>4. Elements(data[listed[j]]) \cap Elements(t) = {}
      BY <1>0, <1>a, <2>1, <3>3 DEF DataOK
    <3> QED BY <3>1, <3>4
  <2>6. \A i, k \in DOMAIN t : t[i] = t[k] => i = k
    <3>1. listed[read + 1] \in Inodes
      BY <1>a, <2>1
    <3>2. \A i, k \in DOMAIN t : i < k => t[i] < t[k]
      BY <1>0, <3>1 DEF DataOK
    <3> HIDE DEF t
    <3>3. DOMAIN t = 1 .. Len(t) /\ \A i \in 1 .. Len(t) : t[i] \in Packets
      BY <2>1
    <3>4. \A i \in DOMAIN t : t[i] \in Int /\ i \in Int
      BY <3>3 DEF Packets
    <3> QED BY <3>2, <3>4
  <2>7. \A i, k \in DOMAIN tmp' : tmp'[i] = tmp'[k] => i = k
    <3> HIDE DEF t
    <3> SUFFICES ASSUME NEW i \in DOMAIN tmp', NEW k \in DOMAIN tmp', tmp'[i] = tmp'[k]
                 PROVE  i = k
      OBVIOUS
    <3>1. \A m \in 1 .. Len(tmp) + Len(t) :
            \/ m \in 1 .. Len(tmp) /\ tmp'[m] = tmp[m]
            \/ m - Len(tmp) \in 1 .. Len(t) /\ tmp'[m] = t[m - Len(tmp)]
      BY <2>1, ConcatElements
    <3>2. /\ DOMAIN tmp = 1 .. Len(tmp) /\ DOMAIN t = 1 .. Len(t)
          /\ DOMAIN tmp' = 1 .. Len(tmp) + Len(t) /\ Len(tmp) \in Nat /\ Len(t) \in Nat
      BY <2>1
    <3>3. CASE i \in 1 .. Len(tmp) /\ tmp'[i] = tmp[i] /\ k \in 1 .. Len(tmp) /\ tmp'[k] = tmp[k]
      BY <1>0, <3>2, <3>3 DEF TmpOK
    <3>4. CASE i - Len(tmp) \in 1 .. Len(t) /\ tmp'[i] = t[i - Len(tmp)]
               /\ k - Len(tmp) \in 1 .. Len(t) /\ tmp'[k] = t[k - Len(tmp)]
      <4>1. i - Len(tmp) = k - Len(tmp)
        BY <2>6, <3>2, <3>4
      <4> QED BY <4>1, <3>2
    <3>5. ASSUME NEW x \in 1 .. Len(tmp), NEW y \in 1 .. Len(t), tmp[x] = t[y] PROVE FALSE
      BY <2>5, <3>2, <3>5 DEF Elements
    <3> QED BY <3>1, <3>2, <3>3, <3>4, <3>5
  <2> QED BY <2>1, <2>4, <2>7 DEF TmpOK, Through
<1>4. CASE Parsed
  <2>1. UNCHANGED <<listed, data, tmp>> /\ pc' = "append"
    BY <1>4 DEF Parsed, AfterParse
  <2> QED BY <1>0, <2>1 DEF TmpOK, Through
<1>5. CASE ParseFails
  <2>1. UNCHANGED <<listed, data>> /\ pc' = "append"
    BY <1>5 DEF ParseFails, AfterParse
  <2>2. PICK n \in 0 .. Len(tmp) : tmp' = SubSeq(tmp, 1, n)
    BY <1>5 DEF ParseFails
  <2>3. /\ DOMAIN tmp' = 1 .. n /\ 1 .. n \subseteq DOMAIN tmp
        /\ \A j \in 1 .. n : tmp'[j] = tmp[j]
    BY <1>0, <2>2, PartElements DEF TypeOK
  <2> QED BY <1>0, <2>1, <2>3 DEF TmpOK, Through
<1>6. CASE AppendLog \/ AppendFails \/ Kill
  <2>1. tmp' = <<>>
    BY <1>6 DEF AppendLog, AppendFails, Kill
  <2>2. DOMAIN tmp' = {}
    BY <2>1
  <2> QED BY <2>1, <2>2 DEF TmpOK
<1>7. CASE RemoveFile \/ Again \/ Restart
  <2>1. tmp' = tmp /\ tmp = <<>>
    BY <1>0, <1>7 DEF RemoveFile, Again, Restart, TmpOK
  <2>2. DOMAIN tmp' = {}
    BY <2>1
  <2> QED BY <2>1, <2>2 DEF TmpOK
<1>8. CASE NewFile \/ NewFileInThePast \/ DumpcapStops \/ UNCHANGED vars
  <2>1. UNCHANGED <<pc, listed, read, data, tmp>>
    BY <1>8 DEF NewFile, NewFileInThePast, DumpcapStops, vars, analyzer
  <2> QED BY <1>0, <2>1 DEF TmpOK, Through
<1> QED BY <1>1, <1>2, <1>3, <1>4, <1>5, <1>6, <1>7, <1>8 DEF Next, Dump, Analyze

\* A part of $TMP, appended to the log, repeats only what the log shares with it.
LEMMA Appended ==
    ASSUME NEW S, NEW l \in Seq(S), NEW t \in Seq(S), NEW D,
           \A i, k \in DOMAIN l : i # k /\ l[i] = l[k] => l[i] \in D,
           \A i, k \in DOMAIN t : t[i] = t[k] => i = k,
           Elements(l) \cap Elements(t) \subseteq D
    PROVE  \A i, k \in DOMAIN (l \o t) : i # k /\ (l \o t)[i] = (l \o t)[k] => (l \o t)[i] \in D
<1>1. /\ DOMAIN l = 1 .. Len(l) /\ DOMAIN t = 1 .. Len(t) /\ Len(l) \in Nat /\ Len(t) \in Nat
      /\ DOMAIN (l \o t) = 1 .. Len(l) + Len(t)
  OBVIOUS
<1>2. \A m \in 1 .. Len(l) + Len(t) :
        \/ m \in 1 .. Len(l) /\ (l \o t)[m] = l[m]
        \/ m - Len(l) \in 1 .. Len(t) /\ (l \o t)[m] = t[m - Len(l)]
  BY ConcatElements
<1>3. \A x \in 1 .. Len(l), y \in 1 .. Len(t) : l[x] = t[y] => l[x] \in D
  BY <1>1 DEF Elements
<1> DEFINE c == l \o t
<1> HIDE DEF c
<1> SUFFICES ASSUME NEW i \in 1 .. Len(l) + Len(t), NEW k \in 1 .. Len(l) + Len(t),
                    i # k, c[i] = c[k]
             PROVE  c[i] \in D
  BY <1>1 DEF c
<1>4. \A m \in 1 .. Len(l) + Len(t) :
        \/ m \in 1 .. Len(l) /\ c[m] = l[m]
        \/ m - Len(l) \in 1 .. Len(t) /\ c[m] = t[m - Len(l)]
  BY <1>2 DEF c
<1>5. CASE i \in 1 .. Len(l) /\ c[i] = l[i] /\ k \in 1 .. Len(l) /\ c[k] = l[k]
  BY <1>1, <1>5
<1>6. CASE i - Len(l) \in 1 .. Len(t) /\ c[i] = t[i - Len(l)]
           /\ k - Len(l) \in 1 .. Len(t) /\ c[k] = t[k - Len(l)]
  <2>1. i - Len(l) = k - Len(l)
    BY <1>1, <1>6
  <2> QED BY <2>1, <1>1
<1> QED BY <1>3, <1>4, <1>5, <1>6

LEMMA StepLogOK == ASSUME Inv, [Next]_vars PROVE LogOK'
<1>0. TypeOK /\ DataOK /\ ListOK /\ TmpOK /\ LogOK
  BY DEF Inv
<1>a. \A j \in DOMAIN listed : listed[j] \in Inodes
  BY <1>0 DEF TypeOK
<1>b. captured \in Nat /\ log \in Seq(Packets) /\ tmp \in Seq(Packets)
  BY <1>0 DEF TypeOK
\* Before the append, what is in $TMP and in the log was marked.
<1>c. ASSUME pc = "append" PROVE Elements(log) \cap Elements(tmp) \subseteq twice
  <2> SUFFICES ASSUME NEW i \in DOMAIN tmp, tmp[i] \in Elements(log) PROVE tmp[i] \in twice
    BY DEF Elements
  <2>1. PICK j \in DOMAIN listed : tmp[i] \in Elements(data[listed[j]])
    BY <1>0 DEF TmpOK
  <2>2. Elements(data[listed[j]]) \cap Elements(log) \subseteq twice
    BY <1>0, <1>a, <1>c DEF LogOK
  <2> QED BY <2>1, <2>2
<1>1. CASE Capture
  <2>1. UNCHANGED <<pc, listed, log, twice>>
    BY <1>1 DEF Capture, analyzer
  <2>2. captured + 1 \notin Elements(log)
    <3>1. Elements(log) \subseteq 1 .. captured
      BY <1>0 DEF DataOK
    <3> QED BY <3>1, <1>b
  <2>3. \A n \in Inodes : Elements(data'[n]) \cap Elements(log) \subseteq Elements(data[n])
    BY <1>0, <1>1, <2>2, Captured
  <2>4. \A n \in Inodes :
          \/ pc = "remove" /\ n \in Elements(listed)
          \/ Elements(data'[n]) \cap Elements(log) \subseteq twice
    BY <1>0, <2>3 DEF LogOK
  <2> QED BY <1>0, <2>1, <2>4 DEF LogOK, LoggedOnce
\* The whole or a part t of $TMP is appended.
<1>2. ASSUME UNCHANGED <<data, listed, twice>>, pc = "append", pc' = "remove",
             NEW t \in Seq(Packets), log' = log \o t,
             Elements(t) \subseteq Elements(tmp), \A i, k \in DOMAIN t : t[i] = t[k] => i = k
      PROVE  LogOK'
  <2>2. Elements(log) \cap Elements(t) \subseteq twice
    BY <1>c, <1>2
  <2>3. \A i, k \in DOMAIN log' : i # k /\ log'[i] = log'[k] => log'[i] \in twice
    <3>1. \A i, k \in DOMAIN log : i # k /\ log[i] = log[k] => log[i] \in twice
      BY <1>0 DEF LogOK, LoggedOnce
    <3>2. \A i, k \in DOMAIN t : t[i] = t[k] => i = k
      BY <1>2
    <3>3. \A i, k \in DOMAIN (log \o t) :
            i # k /\ (log \o t)[i] = (log \o t)[k] => (log \o t)[i] \in twice
      BY <1>b, <2>2, <3>1, <3>2, Appended
    <3> QED BY <1>2, <3>3
  <2>4. Elements(log') = Elements(log) \cup Elements(t)
    BY <1>b, <1>2, ConcatElements
  <2>5. ASSUME NEW n \in Inodes, n \notin Elements(listed) PROVE Elements(data[n]) \cap Elements(tmp) = {}
    <3> SUFFICES ASSUME NEW i \in DOMAIN tmp, tmp[i] \in Elements(data[n]) PROVE FALSE
      BY DEF Elements
    <3>1. PICK j \in DOMAIN listed : tmp[i] \in Elements(data[listed[j]])
      BY <1>0 DEF TmpOK
    <3>2. listed[j] # n
      BY <2>5 DEF Elements
    <3>3. Elements(data[listed[j]]) \cap Elements(data[n]) = {}
      BY <1>0, <1>a, <3>2 DEF DataOK
    <3> QED BY <3>1, <3>3
  <2>6. \A n \in Inodes : Elements(data[n]) \cap Elements(log) \subseteq twice
    BY <1>0, <1>2 DEF LogOK
  <2>7. \A n \in Inodes :
          n \in Elements(listed) \/ Elements(data[n]) \cap Elements(log') \subseteq twice
    BY <1>2, <2>4, <2>5, <2>6
  <2> QED BY <1>2, <2>3, <2>7 DEF LogOK, LoggedOnce
<1>8. CASE AppendLog
  <2>1. /\ UNCHANGED <<data, listed, twice>> /\ pc = "append" /\ pc' = "remove" /\ log' = log \o tmp
    BY <1>8 DEF AppendLog, history
  <2>2. \A i, k \in DOMAIN tmp : tmp[i] = tmp[k] => i = k
    BY <1>0 DEF TmpOK
  <2> QED BY <1>2, <1>b, <2>1, <2>2
<1>9. CASE AppendFails
  <2>1. UNCHANGED <<data, listed, twice>> /\ pc = "append" /\ pc' = "remove"
    BY <1>0, <1>9, Failing
  <2>2. PICK t \in Seq(Packets) :
          /\ log' = log \o t /\ Elements(t) \subseteq Elements(tmp)
          /\ DOMAIN t \subseteq DOMAIN tmp /\ \A j \in DOMAIN t : t[j] = tmp[j]
    BY <1>0, <1>9, Failing
  <2>3. \A i, k \in DOMAIN t : t[i] = t[k] => i = k
    BY <1>0, <2>2 DEF TmpOK
  <2> QED BY <1>2, <2>1, <2>2, <2>3
<1>3. CASE RemoveFile
  <2>1. UNCHANGED <<pc, log, twice>> /\ pc = "remove"
    BY <1>3 DEF RemoveFile, history
  <2>2. Elements(<<>>) = {}
    BY DEF Elements
  <2>3. \A n \in Inodes : n \in Elements(listed') \/ Elements(data'[n]) \cap Elements(log) \subseteq twice
    <3> SUFFICES ASSUME NEW n \in Inodes, n \notin Elements(listed')
                 PROVE  Elements(data'[n]) \cap Elements(log) \subseteq twice
      OBVIOUS
    <3>1. CASE n = Head(listed)
      BY <1>0, <1>3, <2>2, <3>1, Removal
    <3>2. CASE n # Head(listed)
      <4>1. n \notin Elements(listed) /\ data'[n] = data[n]
        BY <1>0, <1>3, <3>2, Removal
      <4> QED BY <1>0, <4>1 DEF LogOK
    <3> QED BY <3>1, <3>2
  <2> QED BY <1>0, <2>1, <2>3 DEF LogOK, LoggedOnce
<1>4. CASE Again
  <2>1. UNCHANGED <<data, log, twice>> /\ listed = <<>>
    BY <1>4 DEF Again, history
  <2>2. Elements(listed) = {}
    BY <2>1 DEF Elements
  <2> QED BY <1>0, <2>1, <2>2 DEF LogOK, LoggedOnce
<1>5. CASE Kill
  <2>1. UNCHANGED data /\ twice \subseteq twice' /\ pc' = "dead"
    BY <1>0, <1>5, Killing
  <2>2. \A n \in Inodes : Elements(data[n]) \cap Elements(log) \subseteq twice'
    <3> SUFFICES ASSUME NEW n \in Inodes, pc = "remove", n \in Elements(listed)
                 PROVE  Elements(data[n]) \subseteq twice'
      BY <1>0, <2>1 DEF LogOK
    <3>1. InFiles(listed) \subseteq twice'
      BY <1>0, <1>5, Killing
    <3> QED BY <3>1 DEF InFiles, Elements
  <2>3. CASE log' = log
    BY <1>0, <2>1, <2>2, <2>3 DEF LogOK, LoggedOnce
  <2>4. ASSUME pc = "append", NEW n \in 1 .. Len(tmp), log' = log \o SubSeq(tmp, 1, n),
               twice' = twice \cup Elements(SubSeq(tmp, 1, n))
        PROVE  LogOK'
    <3> DEFINE t == SubSeq(tmp, 1, n)
    <3>0. n \in 0 .. Len(tmp)
      BY <1>b
    <3>1. /\ t \in Seq(Packets) /\ DOMAIN t = 1 .. n /\ 1 .. n \subseteq DOMAIN tmp
          /\ \A j \in 1 .. n : t[j] = tmp[j]
      BY <1>b, <3>0, PartElements
    <3> HIDE DEF t
    <3>2. \A i, k \in DOMAIN t : t[i] = t[k] => i = k
      BY <1>0, <3>1 DEF TmpOK
    <3>3. \A i, k \in DOMAIN log : i # k /\ log[i] = log[k] => log[i] \in twice'
      BY <1>0, <2>1 DEF LogOK, LoggedOnce
    <3>4. log' = log \o t /\ twice' = twice \cup Elements(t)
      BY <2>4 DEF t
    <3>5. \A i, k \in DOMAIN (log \o t) :
            i # k /\ (log \o t)[i] = (log \o t)[k] => (log \o t)[i] \in twice'
      <4> DEFINE D == twice \cup Elements(t)
      <4>1. Elements(log) \cap Elements(t) \subseteq D
        OBVIOUS
      <4>2. log \in Seq(Packets) /\ t \in Seq(Packets)
        BY <1>b, <3>1
      <4>3. \A i, k \in DOMAIN log : i # k /\ log[i] = log[k] => log[i] \in D
        BY <3>3, <3>4
      <4> HIDE DEF D
      <4>4. \A i, k \in DOMAIN (log \o t) :
              i # k /\ (log \o t)[i] = (log \o t)[k] => (log \o t)[i] \in D
        BY <3>2, <4>1, <4>2, <4>3, Appended
      <4> QED BY <3>4, <4>4 DEF D
    <3>6. LoggedOnce'
      BY <3>4, <3>5 DEF LoggedOnce
    <3>7. Elements(log') = Elements(log) \cup Elements(t)
      BY <1>b, <3>1, <3>4, ConcatElements
    <3>8. \A m \in Inodes : Elements(data'[m]) \cap Elements(log') \subseteq twice'
      BY <2>1, <2>2, <3>4, <3>7
    <3> QED BY <3>6, <3>8 DEF LogOK
  <2> QED BY <1>0, <1>5, <2>3, <2>4, Killing
<1>6. CASE NewFile \/ NewFileInThePast \/ DumpcapStops \/ List \/ ReadFile \/ Parsed
           \/ ParseFails \/ Restart
  <2>1. UNCHANGED <<data, log, twice>>
    BY <1>6 DEF NewFile, NewFileInThePast, DumpcapStops, List, ReadFile, Parsed, ParseFails,
       Restart, analyzer, history
  <2>2. pc # "remove" \/ UNCHANGED <<pc, listed>>
    BY <1>6 DEF NewFile, NewFileInThePast, DumpcapStops, List, ReadFile, Parsed, ParseFails,
       Restart, analyzer
  <2> QED BY <1>0, <2>1, <2>2 DEF LogOK, LoggedOnce
<1>7. CASE UNCHANGED vars
  BY <1>0, <1>7 DEF vars, analyzer, history, LogOK, LoggedOnce
<1> QED BY <1>1, <1>3, <1>4, <1>5, <1>6, <1>7, <1>8, <1>9 DEF Next, Dump, Analyze

(***************************************************************************)
(* The order of the log                                                    *)
(***************************************************************************)
LEMMA Joined ==
    ASSUME NEW S \in SUBSET Int, NEW l \in Seq(S), NEW t \in Seq(S), Rising(l), Rising(t),
           \A p \in Elements(l), q \in Elements(t) : p < q
    PROVE  Rising(l \o t)
<1>1. /\ DOMAIN l = 1 .. Len(l) /\ DOMAIN t = 1 .. Len(t) /\ Len(l) \in Nat /\ Len(t) \in Nat
      /\ DOMAIN (l \o t) = 1 .. Len(l) + Len(t)
  OBVIOUS
<1>2. \A m \in 1 .. Len(l) + Len(t) :
        \/ m \in 1 .. Len(l) /\ (l \o t)[m] = l[m]
        \/ m - Len(l) \in 1 .. Len(t) /\ (l \o t)[m] = t[m - Len(l)]
  BY ConcatElements
<1>3. \A x \in 1 .. Len(l), y \in 1 .. Len(t) : l[x] < t[y]
  BY <1>1 DEF Elements
<1>4. /\ \A x, y \in 1 .. Len(l) : x < y => l[x] < l[y]
      /\ \A x, y \in 1 .. Len(t) : x < y => t[x] < t[y]
  BY <1>1 DEF Rising
<1> DEFINE c == l \o t
<1> HIDE DEF c
<1>5. DOMAIN c = 1 .. Len(l) + Len(t) /\ \A m \in 1 .. Len(l) + Len(t) :
        \/ m \in 1 .. Len(l) /\ c[m] = l[m]
        \/ m - Len(l) \in 1 .. Len(t) /\ c[m] = t[m - Len(l)]
  BY <1>1, <1>2 DEF c
<1>6. ASSUME NEW i \in 1 .. Len(l) + Len(t), NEW k \in 1 .. Len(l) + Len(t), i < k
      PROVE  c[i] < c[k]
  <2>1. CASE i \in 1 .. Len(l) /\ c[i] = l[i] /\ k \in 1 .. Len(l) /\ c[k] = l[k]
    BY <1>4, <1>6, <2>1
  <2>2. CASE i \in 1 .. Len(l) /\ c[i] = l[i] /\ k - Len(l) \in 1 .. Len(t) /\ c[k] = t[k - Len(l)]
    BY <1>3, <2>2
  <2>3. CASE i - Len(l) \in 1 .. Len(t) /\ c[i] = t[i - Len(l)]
             /\ k - Len(l) \in 1 .. Len(t) /\ c[k] = t[k - Len(l)]
    <3>1. i - Len(l) < k - Len(l)
      BY <1>1, <1>6
    <3> QED BY <1>4, <2>3, <3>1
  <2>4. ~(i - Len(l) \in 1 .. Len(t) /\ k \in 1 .. Len(l))
    BY <1>1, <1>6
  <2> QED BY <1>5, <2>1, <2>2, <2>3, <2>4
<1> QED BY <1>5, <1>6 DEF Rising, c

LEMMA StepOrderOK == ASSUME Inv, [Next]_vars PROVE OrderOK'
<1> SUFFICES ASSUME mishaps' = 0
             PROVE  /\ (pc # "dead")' /\ OpenNewest' /\ ListedFirst' /\ FilesInOrder'
                    /\ Rising(tmp') /\ Rising(log') /\ LogBehind'
  BY DEF OrderOK, Rising
<1>0. TypeOK /\ DataOK /\ ListOK /\ TmpOK /\ OrderOK
  BY DEF Inv
<1>a. mishaps = 0 /\ ~NewFileInThePast /\ ~ParseFails /\ ~AppendFails /\ ~Kill
  BY <1>0 DEF TypeOK, Next, Dump, Analyze, NewFile, Capture, DumpcapStops, NewFileInThePast, List,
     ReadFile, Parsed, ParseFails, AppendLog, AppendFails, RemoveFile, Again, Kill, Restart, vars, history
<1>b. /\ pc # "dead" /\ OpenNewest /\ ListedFirst /\ FilesInOrder
      /\ Rising(tmp) /\ Rising(log) /\ LogBehind
  BY <1>0, <1>a DEF OrderOK
<1>c. /\ dir \in Seq(Inodes) /\ DOMAIN dir = 1 .. Len(dir) /\ Len(dir) \in Nat
      /\ \A j, m \in DOMAIN dir : dir[j] = dir[m] => j = m
      /\ \A j \in DOMAIN dir : dir[j] \in Inodes /\ dir[j] \in Linked
      /\ DOMAIN listed = 1 .. Len(listed) /\ Len(listed) \in Nat
      /\ captured \in Nat /\ log \in Seq(Packets) /\ tmp \in Seq(Packets)
  BY <1>0 DEF TypeOK, Linked, Elements
<1>d. Rising(<<>>) /\ Packets \in SUBSET Int
  BY DEF Rising, Packets
<1>1. CASE NewFile
  <2>1. PICK n \in Inodes : Unused(n) /\ dir' = Append(dir, n) /\ open' = n
    BY <1>1 DEF NewFile
  <2>2. UNCHANGED <<data, pc, listed, tmp, log>>
    BY <1>1 DEF NewFile, analyzer
  <2>3. Elements(data[n]) = {}
    BY <1>0, <2>1, FreshInode DEF Elements
  <2>4. /\ dir' # <<>> /\ Len(dir') = Len(dir) + 1 /\ DOMAIN dir' = 1 .. Len(dir) + 1
        /\ dir'[Len(dir) + 1] = n /\ \A j \in 1 .. Len(dir) : dir'[j] = dir[j]
    BY <1>c, <2>1
  <2>5. OpenNewest' /\ ListedFirst'
    BY <1>b, <1>c, <2>1, <2>2, <2>4 DEF OpenNewest, ListedFirst
  <2>a. ASSUME NEW i \in DOMAIN dir', NEW q \in Elements(data'[dir'[i]])
        PROVE  i \in DOMAIN dir /\ dir'[i] = dir[i] /\ q \in Elements(data[dir[i]])
    <3>1. i # Len(dir) + 1
      BY <2>2, <2>3, <2>4
    <3>2. i \in 1 .. Len(dir)
      BY <1>c, <2>4, <3>1
    <3> QED BY <1>c, <2>2, <2>4, <3>2
  <2>6. FilesInOrder'
    <3> SUFFICES ASSUME NEW i \in DOMAIN dir', NEW k \in DOMAIN dir', i < k,
                        NEW p \in Elements(data'[dir'[i]]), NEW q \in Elements(data'[dir'[k]])
                 PROVE  p < q
      BY DEF FilesInOrder
    <3> QED BY <1>b, <2>a DEF FilesInOrder
  <2>7. LogBehind'
    <3> SUFFICES ASSUME NEW p \in Elements(log), NEW i \in DOMAIN dir',
                        pc = "remove" => i > Len(listed), NEW q \in Elements(data'[dir'[i]])
                 PROVE  p < q
      BY <2>2 DEF LogBehind
    <3> QED BY <1>b, <2>a DEF LogBehind
  <2> QED BY <1>b, <2>2, <2>5, <2>6, <2>7
<1>2. CASE Capture
  <2>1. UNCHANGED <<dir, open, pc, listed, tmp, log>>
    BY <1>2 DEF Capture, analyzer
  <2>2. open = dir[Len(dir)] /\ Len(dir) \in DOMAIN dir
    BY <1>2, <1>b, <1>c DEF Capture, OpenNewest
  <2>3. \A n \in Inodes : \A p \in Elements(data'[n]) :
          p \in Elements(data[n]) \/ (p = captured + 1 /\ n = open)
    BY <1>0, <1>2, Captured
  <2>4. \A n \in Inodes : Elements(data[n]) \subseteq 1 .. captured
    BY <1>0, <1>2, Captured
  <2>5. FilesInOrder'
    <3> SUFFICES ASSUME NEW i \in DOMAIN dir, NEW k \in DOMAIN dir, i < k,
                        NEW p \in Elements(data'[dir[i]]), NEW q \in Elements(data'[dir[k]])
                 PROVE  p < q
      BY <2>1 DEF FilesInOrder
    <3>1. dir[i] # open
      BY <1>c, <2>2
    <3>2. p \in Elements(data[dir[i]]) /\ p \in 1 .. captured
      BY <1>c, <2>3, <2>4, <3>1
    <3>3. q \in Elements(data[dir[k]]) \/ q = captured + 1
      BY <1>c, <2>3
    <3>4. q \in Elements(data[dir[k]]) => p < q
      BY <1>b, <3>2 DEF FilesInOrder
    <3> QED BY <1>c, <3>2, <3>3, <3>4
  <2>6. LogBehind'
    <3> SUFFICES ASSUME NEW p \in Elements(log), NEW i \in DOMAIN dir,
                        pc = "remove" => i > Len(listed), NEW q \in Elements(data'[dir[i]])
                 PROVE  p < q
      BY <2>1 DEF LogBehind
    <3>1. p \in 1 .. captured
      BY <1>0 DEF DataOK
    <3>2. q \in Elements(data[dir[i]]) \/ q = captured + 1
      BY <1>c, <2>3
    <3>3. q \in Elements(data[dir[i]]) => p < q
      BY <1>b DEF LogBehind
    <3> QED BY <1>c, <3>1, <3>2, <3>3
  <2> QED BY <1>b, <2>1, <2>5, <2>6 DEF OpenNewest, ListedFirst
<1>3. CASE List
  <2>1. UNCHANGED <<dir, data, open, tmp, log>> /\ pc = "list" /\ pc' \in {"parse", "list"}
    BY <1>3 DEF List, dumper
  <2>2. ListedFirst'
    BY <1>0, <1>3, <2>1, Listing DEF List, ListedFirst
  <2>3. LogBehind'
    BY <1>b, <2>1 DEF LogBehind
  <2>4. OpenNewest' /\ FilesInOrder' /\ (pc # "dead")'
    BY <1>b, <2>1 DEF OpenNewest, FilesInOrder
  <2> QED BY <1>b, <2>1, <2>2, <2>3, <2>4
<1>4. CASE ReadFile
  <2> DEFINE t == data[listed[read + 1]]
  <2>1. UNCHANGED <<dir, data, open, pc, listed, log>> /\ pc = "parse"
    BY <1>4 DEF ReadFile, dumper
  <2>2. /\ read + 1 \in DOMAIN listed /\ listed[read + 1] \in Inodes /\ read \in Nat
        /\ t \in Seq(Packets) /\ tmp' = tmp \o t
    BY <1>0, <1>4, Reading
  <2>3. Rising(t)
    BY <1>0, <2>2 DEF DataOK, Rising
  <2>4. ASSUME NEW p \in Elements(tmp), NEW q \in Elements(t) PROVE p < q
    <3>1. PICK j \in DOMAIN listed : j <= read /\ p \in Elements(data[listed[j]])
      BY <1>0, <2>1 DEF TmpOK, Through, Elements
    <3>2. listed[j] = dir[j] /\ listed[read + 1] = dir[read + 1]
      BY <1>b, <2>2 DEF ListedFirst
    <3>3. j \in DOMAIN dir /\ read + 1 \in DOMAIN dir /\ j < read + 1
      BY <1>b, <1>c, <2>2, <3>1 DEF ListedFirst
    <3> QED BY <1>b, <3>1, <3>2, <3>3 DEF FilesInOrder
  <2>5. Rising(tmp')
    <3> HIDE DEF t
    <3>1. Rising(tmp \o t)
      BY <1>b, <1>c, <1>d, <2>2, <2>3, <2>4, Joined
    <3> QED BY <2>2, <3>1
  <2>6. OpenNewest' /\ ListedFirst' /\ FilesInOrder' /\ LogBehind' /\ (pc # "dead")'
    BY <1>b, <2>1 DEF OpenNewest, ListedFirst, FilesInOrder, LogBehind
  <2> QED BY <1>b, <2>1, <2>5, <2>6
<1>5. CASE AppendLog
  <2>1. /\ UNCHANGED <<dir, data, open, listed>> /\ pc = "append" /\ pc' = "remove"
        /\ log' = log \o tmp /\ tmp' = <<>>
    BY <1>5 DEF AppendLog, dumper
  <2>2. ASSUME NEW q \in Elements(tmp)
        PROVE  \E j \in DOMAIN dir : j <= Len(listed) /\ q \in Elements(data[dir[j]])
    <3>1. PICK j \in DOMAIN listed : q \in Elements(data[listed[j]])
      BY <1>0 DEF TmpOK, Elements
    <3> QED BY <1>b, <1>c, <3>1 DEF ListedFirst
  <2>3. \A p \in Elements(log), q \in Elements(tmp) : p < q
    BY <1>b, <2>1, <2>2 DEF LogBehind
  <2>4. Rising(log')
    <3>1. Rising(log \o tmp)
      BY <1>b, <1>c, <1>d, <2>3, Joined
    <3> QED BY <2>1, <3>1
  <2>5. Elements(log') = Elements(log) \cup Elements(tmp)
    BY <1>c, <2>1, ConcatElements
  <2>6. LogBehind'
    <3> SUFFICES ASSUME NEW p \in Elements(log'), NEW i \in DOMAIN dir, i > Len(listed),
                        NEW q \in Elements(data[dir[i]])
                 PROVE  p < q
      BY <2>1 DEF LogBehind
    <3>1. CASE p \in Elements(log)
      BY <1>b, <2>1, <3>1 DEF LogBehind
    <3>2. CASE p \in Elements(tmp)
      <4>1. PICK j \in DOMAIN dir : j <= Len(listed) /\ p \in Elements(data[dir[j]])
        BY <2>2, <3>2
      <4>2. j < i
        BY <1>c, <4>1
      <4> QED BY <1>b, <4>1, <4>2 DEF FilesInOrder
    <3> QED BY <2>5, <3>1, <3>2
  <2>7. OpenNewest' /\ ListedFirst' /\ FilesInOrder' /\ (pc # "dead")'
    BY <1>b, <2>1 DEF OpenNewest, ListedFirst, FilesInOrder
  <2> QED BY <1>d, <2>1, <2>4, <2>6, <2>7
<1>6. CASE RemoveFile
  <2>1. UNCHANGED <<open, pc, tmp, log>> /\ pc = "remove" /\ listed # <<>>
    BY <1>6 DEF RemoveFile, dumper
  <2>2. PICK at \in DOMAIN dir : dir[at] = Head(listed) /\ dir' = Deleted(dir, at)
    BY <1>6 DEF RemoveFile
  <2>3. /\ Head(listed) = listed[1] /\ 1 \in DOMAIN listed /\ Len(listed) \in Nat \ {0}
        /\ DOMAIN listed' = 1 .. Len(listed) - 1 /\ Len(listed') = Len(listed) - 1
        /\ \A j \in DOMAIN listed' : listed'[j] = listed[j + 1] /\ j + 1 \in DOMAIN listed
        /\ \A n \in Inodes : n # Head(listed) => data'[n] = data[n]
        /\ Head(listed) \in Elements(listed)
    BY <1>0, <1>6, Removal
  <2>4. Head(listed) = dir[1] /\ 1 \in DOMAIN dir
    BY <1>b, <1>c, <2>3 DEF ListedFirst
  <2>5. at = 1
    BY <1>c, <2>2, <2>4
  <2>6. Len(dir) > 1
    <3>1. dir[Len(dir)] # dir[1]
      BY <1>0, <2>1, <2>3, <2>4 DEF ListOK
    <3> QED BY <1>c, <2>4, <3>1
  <2>7. /\ dir' \in Seq(Inodes) /\ Len(dir') = Len(dir) - 1
        /\ \A j \in 1 .. Len(dir) - 1 : dir'[j] = IF j < at THEN dir[j] ELSE dir[j + 1]
    <3>1. dir \in Seq(Inodes) /\ \A j, m \in DOMAIN dir : dir[j] = dir[m] => j = m
      BY <1>c
    <3> QED BY <2>2, <3>1, DeletedElements
  <2>8. DOMAIN dir' = 1 .. Len(dir) - 1 /\ dir' # <<>>
    BY <1>c, <2>6, <2>7
  <2>9. ASSUME NEW j \in DOMAIN dir'
        PROVE  j + 1 \in DOMAIN dir /\ dir'[j] = dir[j + 1] /\ data'[dir'[j]] = data[dir[j + 1]]
    <3>1. j + 1 \in DOMAIN dir /\ dir'[j] = dir[j + 1] /\ j + 1 # 1
      BY <1>c, <2>5, <2>7, <2>8
    <3>2. dir[j + 1] # Head(listed) /\ dir[j + 1] \in Inodes
      BY <1>c, <2>4, <3>1
    <3> QED BY <2>3, <3>1, <3>2
  <2>10. OpenNewest'
    <3>1. Len(dir) - 1 \in DOMAIN dir'
      BY <1>c, <2>6, <2>8
    <3>2. dir'[Len(dir')] = dir[Len(dir)]
      BY <1>c, <2>7, <2>9, <3>1
    <3> QED BY <1>b, <2>1, <2>8, <3>2 DEF OpenNewest
  <2>11. ListedFirst'
    <3>1. Len(listed') <= Len(dir')
      BY <1>b, <1>c, <2>3, <2>7 DEF ListedFirst
    <3>2. ASSUME NEW j \in DOMAIN listed' PROVE listed'[j] = dir'[j]
      <4>1. listed'[j] = listed[j + 1] /\ listed[j + 1] = dir[j + 1]
        BY <1>b, <2>3 DEF ListedFirst
      <4>2. j \in DOMAIN dir'
        BY <1>c, <2>3, <2>7, <2>8, <3>1
      <4> QED BY <2>9, <4>1, <4>2
    <3> QED BY <3>1, <3>2 DEF ListedFirst
  <2>12. FilesInOrder'
    <3> SUFFICES ASSUME NEW i \in DOMAIN dir', NEW k \in DOMAIN dir', i < k,
                        NEW p \in Elements(data'[dir'[i]]), NEW q \in Elements(data'[dir'[k]])
                 PROVE  p < q
      BY DEF FilesInOrder
    <3>1. i + 1 < k + 1
      BY <1>c, <2>8
    <3> QED BY <1>b, <2>9, <3>1 DEF FilesInOrder
  <2>13. LogBehind'
    <3> SUFFICES ASSUME NEW p \in Elements(log), NEW i \in DOMAIN dir', i > Len(listed'),
                        NEW q \in Elements(data'[dir'[i]])
                 PROVE  p < q
      BY <2>1 DEF LogBehind
    <3>1. i + 1 > Len(listed)
      BY <1>c, <2>3, <2>8
    <3> QED BY <1>b, <2>1, <2>9, <3>1 DEF LogBehind
  <2> QED BY <1>b, <2>1, <2>10, <2>11, <2>12, <2>13
<1>7. CASE Again
  <2>1. UNCHANGED <<dir, data, open, listed, tmp, log>> /\ listed = <<>> /\ pc' = "list"
    BY <1>7 DEF Again, dumper
  <2>2. \A i \in DOMAIN dir : i > Len(listed)
    BY <1>c, <2>1
  <2>3. LogBehind'
    BY <1>b, <2>1, <2>2 DEF LogBehind
  <2> QED BY <1>b, <2>1, <2>3 DEF OpenNewest, ListedFirst, FilesInOrder
<1>8. CASE Parsed
  <2>1. UNCHANGED <<dir, data, open, listed, tmp, log>> /\ pc = "parse" /\ pc' = "append"
    BY <1>8 DEF Parsed, AfterParse, dumper
  <2> QED BY <1>b, <2>1 DEF OpenNewest, ListedFirst, FilesInOrder, LogBehind
<1>9. CASE DumpcapStops
  <2>1. UNCHANGED <<dir, data, pc, listed, tmp, log>> /\ open' = None
    BY <1>9 DEF DumpcapStops, analyzer
  <2> QED BY <1>b, <2>1 DEF OpenNewest, ListedFirst, FilesInOrder, LogBehind
<1>10. CASE Restart
  BY <1>b, <1>10 DEF Restart
<1>11. CASE UNCHANGED vars
  BY <1>b, <1>11 DEF vars, dumper, analyzer, OpenNewest, ListedFirst, FilesInOrder, LogBehind
<1> QED BY <1>a, <1>1, <1>2, <1>3, <1>4, <1>5, <1>6, <1>7, <1>8, <1>9, <1>10, <1>11
        DEF Next, Dump, Analyze

(***************************************************************************)
(* The theorems                                                            *)
(***************************************************************************)
LEMMA InitInv == Init => Inv
<1> SUFFICES ASSUME Init PROVE Inv
  OBVIOUS
<1> USE BoundsAssumption, NoneAssumption
<1>1. Elements(<<>>) = {} /\ DOMAIN <<>> = {} /\ Len(<<>>) = 0
  BY DEF Elements
<1>2. TypeOK
  BY DEF Init, TypeOK
<1>3. dir = <<>> /\ listed = <<>> /\ tmp = <<>> /\ log = <<>> /\ captured = 0 /\ open = None
      /\ pc = "list" /\ \A n \in Inodes : data[n] = <<>>
  BY DEF Init
<1>4. ListOK
  BY <1>1, <1>3 DEF ListOK
<1>5. DataOK
  BY <1>1, <1>3 DEF DataOK
<1>6. KeptOK /\ TmpOK
  BY <1>1, <1>3 DEF KeptOK, TmpOK
<1>7. LogOK
  BY <1>1, <1>3 DEF LogOK, LoggedOnce
<1>8. OrderOK
  BY <1>1, <1>3 DEF OrderOK, OpenNewest, ListedFirst, FilesInOrder, Rising, LogBehind
<1>9. LossOK
  BY <1>3 DEF LossOK
<1> QED BY <1>2, <1>4, <1>5, <1>6, <1>7, <1>8, <1>9 DEF Inv

LEMMA Invariance == Spec => []Inv
<1>1. Inv /\ [Next]_vars => Inv'
  BY StepTypeOK, StepListOK, StepDataOK, StepKeptOK, StepTmpOK, StepLogOK, StepOrderOK,
     StepLossOK DEF Inv
<1> QED BY InitInv, <1>1, PTL DEF Spec

\* The variables keep their types, a file has one name, and cat has a file to read.
THEOREM TypeCorrect == Spec => []TypeOK
<1>1. Inv => TypeOK
  BY DEF Inv
<1> QED BY Invariance, <1>1, PTL

\* dumpcap and proxy_log_analyze.sh together lose no packet, whenever the
\* analyzer is killed, but to a parse or an append that failed, or to a clock
\* that was set back.
THEOREM NothingLost == Spec => []NoLoss
<1>1. Inv => NoLoss
  BY DEF Inv, LossOK, NoLoss
<1> QED BY Invariance, <1>1, PTL

\* A packet is in the log twice only if a kill of the analyzer put it there.
THEOREM NothingTwice == Spec => []LoggedOnce
<1>1. Inv => LoggedOnce
  BY DEF Inv, LogOK
<1> QED BY Invariance, <1>1, PTL

\* Without a mishap the log is in the order of capture.
THEOREM LogOrdered == Spec => []InOrder
<1>1. Inv => InOrder
  BY DEF Inv, OrderOK, Rising, InOrder
<1> QED BY Invariance, <1>1, PTL
=============================================================================
