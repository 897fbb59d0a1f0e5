-------------------------- MODULE RunCachedProofs --------------------------
(***************************************************************************)
(* Theorems about run_cached, for any number of callers, outputs of any    *)
(* length, and kills and expiries at any moment.                           *)
(***************************************************************************)
EXTENDS RunCached, FiniteSetTheorems, TLAPS

(***************************************************************************)
(* The file operations                                                     *)
(***************************************************************************)
LEMMA WrittenType ==
  ASSUME NEW f \in Seq(Callers \cup {Hole}), NEW p \in Callers, NEW n \in Nat \ {0}
  PROVE  /\ Written(f, p, n) \in Seq(Callers \cup {Hole})
         /\ Chunks(Written(f, p, n)) \subseteq Chunks(f) \cup {p, Hole}
<1> DEFINE m == IF n > Len(f) THEN n ELSE Len(f)
           g == [j \in 1..m |-> IF j = n THEN p ELSE IF j <= Len(f) THEN f[j] ELSE Hole]
<1>1. m \in Nat /\ Written(f, p, n) = g
  BY DEF Written
<1>2. \A j \in 1..m : g[j] \in Callers \cup {Hole}
  OBVIOUS
<1>3. g \in Seq(Callers \cup {Hole})
  BY <1>1, <1>2
<1>4. \A j \in 1..m : g[j] \in Chunks(f) \cup {p, Hole}
  BY DEF Chunks
<1>5. DOMAIN g = 1..m
  OBVIOUS
<1>6. Chunks(g) \subseteq Chunks(f) \cup {p, Hole}
  BY <1>4, <1>5 DEF Chunks
<1> QED
  BY <1>1, <1>3, <1>6

LEMMA AppendOwn ==
  ASSUME NEW p, NEW n \in Nat
  PROVE  Append([j \in 1..n |-> p], p) = [j \in 1..(n + 1) |-> p]
OBVIOUS

\* One caller's part of one stream is replaced.
LEMMA PartType ==
  ASSUME NEW S, NEW g \in [Callers -> [Streams -> S]],
         NEW p \in Callers, NEW s \in Streams, NEW v \in S
  PROVE  [g EXCEPT ![p][s] = v] \in [Callers -> [Streams -> S]]
OBVIOUS

LEMMA AppendType ==
  ASSUME NEW S, NEW f \in Seq(S), NEW e \in S
  PROVE  Append(f, e) \in Seq(S)
OBVIOUS

LEMMA StreamsAre == "out" \in Streams /\ "err" \in Streams /\ \A s \in Streams : s \in {"out", "err"}
BY DEF Streams

(***************************************************************************)
(* The invariant                                                           *)
(***************************************************************************)
Begun(p)   == pc[p] \in {"run", "ran", "read", "orphan", "done", "dead"}
Waiting(p) == pc[p] \in {"start", "size", "hit", "miss"}

\* A run that goes on is not over, and what was over before a run began is over.
OrderOK ==
    \A p \in Callers :
        /\ older[p] \subseteq ended
        /\ p \in ended => pc[p] \in {"done", "dead"}

\* No byte in a file is from a run that was over before another run began: that
\* other one truncated the file.
FileFresh ==
    \A p \in Callers : Begun(p) =>
        \A s \in Streams : Chunks(file[s]) \cap older[p] = {}

\* The writer of .exitcode, now and when a caller looked, had begun its run.
BasisOK ==
    /\ writer \in Callers => Begun(writer)
    /\ \A p \in Callers : basis[p] \in Callers => Begun(basis[p])

\* What a caller has passed on so far is what its run has printed; of stderr it
\* has printed nothing before it reads it back.
OwnSoFar ==
    \A p \in Callers :
        /\ Waiting(p) => \A s \in Streams : printed[p][s] = 0 /\ got[p][s] = <<>>
        /\ Begun(p) => got[p]["out"] = OwnAll(p, "out")

\* The parts a caller prints from the files, each at the step that reads it.
ReadFresh ==
    \A p \in Callers :
        /\ pc[p] \in {"hiterr", "served"} =>
              basis[p] \in Callers /\ Chunks(got[p]["out"]) \cap older[basis[p]] = {}
        /\ At(p, "served") => Chunks(got[p]["err"]) \cap older[basis[p]] = {}
        /\ pc[p] \in {"read", "done"} => Chunks(got[p]["err"]) \cap older[p] = {}

Inv == TypeOK /\ OrderOK /\ FileFresh /\ BasisOK /\ OwnSoFar /\ ReadFresh

LEMMA InitInv == Init => Inv
<1> SUFFICES ASSUME Init PROVE Inv
  OBVIOUS
<1>1. TypeOK
  <2>1. crowded \in BOOLEAN
    BY DEF Init
  <2>2. <<>> \in Seq(Callers \cup {Hole})
    OBVIOUS
  <2>3. ended \in SUBSET Callers /\ older \in [Callers -> SUBSET Callers]
    BY DEF Init
  <2>4. file \in [Streams -> Seq(Callers \cup {Hole})]
    BY <2>2 DEF Init
  <2>5. got \in [Callers -> [Streams -> Seq(Callers \cup {Hole})]]
    BY <2>2 DEF Init
  <2>6. printed \in [Callers -> [Streams -> Nat]]
    BY DEF Init
  <2>7. basis \in [Callers -> Callers \cup {None}] /\ \A p \in Callers : pc[p] = "start"
    BY DEF Init
  <2> QED
    BY <2>1, <2>3, <2>4, <2>5, <2>6, <2>7, NamesAssumption DEF Init, TypeOK
<1>2. OrderOK /\ FileFresh /\ ReadFresh
  BY DEF Init, OrderOK, FileFresh, ReadFresh, Begun, At
<1>3. BasisOK
  BY NamesAssumption DEF Init, BasisOK
<1>4. OwnSoFar
  BY DEF Init, OwnSoFar, Waiting, Begun
<1> QED
  BY <1>1, <1>2, <1>3, <1>4 DEF Inv

LEMMA PartsAre ==
  ASSUME TypeOK
  PROVE  /\ file \in [Streams -> Seq(Callers \cup {Hole})]
         /\ got \in [Callers -> [Streams -> Seq(Callers \cup {Hole})]]
         /\ printed \in [Callers -> [Streams -> Nat]]
         /\ \A p \in Callers, s \in Streams :
               printed[p][s] \in Nat /\ got[p][s] \in Seq(Callers \cup {Hole})
<1>1. /\ file \in [Streams -> Seq(Callers \cup {Hole})]
      /\ got \in [Callers -> [Streams -> Seq(Callers \cup {Hole})]]
      /\ printed \in [Callers -> [Streams -> Nat]]
  BY Zenon DEF TypeOK
<1> QED
  BY <1>1

\* What a caller reads from a file is of its type.
LEMMA ReadType ==
  ASSUME TypeOK, NEW p \in Callers, NEW s \in Streams, got' = [got EXCEPT ![p][s] = file[s]]
  PROVE  got' \in [Callers -> [Streams -> Seq(Callers \cup {Hole})]]
<1>1. file[s] \in Seq(Callers \cup {Hole})
  BY PartsAre
<1> QED
  BY <1>1, PartsAre, PartType

LEMMA TypeRead ==
  ASSUME TypeOK, crowded' \in BOOLEAN, NEW p \in Callers, Serve(p) \/ ServeErr(p)
  PROVE  TypeOK'
<1>1. /\ \E s \in Streams : got' = [got EXCEPT ![p][s] = file[s]]
      /\ pc[p] \in {"hit", "hiterr"} /\ \E l \in {"hiterr", "served"} : pc' = [pc EXCEPT ![p] = l]
      /\ UNCHANGED <<file, age, writer, printed, basis, ended, older>>
  BY StreamsAre DEF Serve, ServeErr, At, Go, files, history
<1>2. got' \in [Callers -> [Streams -> Seq(Callers \cup {Hole})]]
  BY <1>1, ReadType
<1>3. /\ pc \in [Callers -> {"start", "size", "hit", "hiterr", "miss", "run", "ran", "read",
                            "orphan", "served", "done", "dead"}]
      /\ \A q \in Callers : pc[q] \in {"size", "hit", "hiterr", "served"} => basis[q] \in Callers
  BY DEF TypeOK
<1>4. /\ pc' \in [Callers -> {"start", "size", "hit", "hiterr", "miss", "run", "ran", "read",
                             "orphan", "served", "done", "dead"}]
      /\ \A q \in Callers : pc'[q] \in {"size", "hit", "hiterr", "served"} => basis'[q] \in Callers
  BY <1>1, <1>3
<1> QED
  BY <1>1, <1>2, <1>4, Zenon DEF TypeOK

LEMMA TypeBegin ==
  ASSUME TypeOK, NEW p \in Callers, Begin(p), crowded' \in BOOLEAN
  PROVE  TypeOK'
<1>1. /\ file' = [s \in Streams |-> <<>>] /\ older' = [older EXCEPT ![p] = ended]
      /\ pc' = [pc EXCEPT ![p] = "run"]
      /\ UNCHANGED <<age, writer, printed, got, basis, ended>>
  BY DEF Begin, Opened, Go
<1>2. <<>> \in Seq(Callers \cup {Hole})
  OBVIOUS
<1>3. file' \in [Streams -> Seq(Callers \cup {Hole})]
  BY <1>1, <1>2, Zenon
<1>4. older' \in [Callers -> SUBSET Callers]
  BY <1>1 DEF TypeOK
<1>5. /\ pc \in [Callers -> {"start", "size", "hit", "hiterr", "miss", "run", "ran", "read",
                            "orphan", "served", "done", "dead"}]
      /\ \A q \in Callers : pc[q] \in {"size", "hit", "hiterr", "served"} => basis[q] \in Callers
  BY DEF TypeOK
<1>6. /\ pc' \in [Callers -> {"start", "size", "hit", "hiterr", "miss", "run", "ran", "read",
                             "orphan", "served", "done", "dead"}]
      /\ \A q \in Callers : pc'[q] \in {"size", "hit", "hiterr", "served"} => basis'[q] \in Callers
  BY <1>1, <1>5
<1> QED
  BY <1>1, <1>3, <1>4, <1>6, Zenon DEF TypeOK

LEMMA StepTypeOK ==
  ASSUME TypeOK, [Next]_vars
  PROVE  TypeOK'
<1>0. CASE UNCHANGED vars
  BY <1>0 DEF TypeOK, vars, files, history
<1> SUFFICES ASSUME Next PROVE TypeOK'
  BY <1>0
<1>1. crowded' \in BOOLEAN
  BY DEF Next, Crowded, TypeOK
<1>a. \A p \in Callers, s \in Streams :
        /\ printed[p][s] + 1 \in Nat \ {0} /\ Append(got[p][s], p) \in Seq(Callers \cup {Hole})
  <2> SUFFICES ASSUME NEW p \in Callers, NEW s \in Streams
               PROVE  printed[p][s] + 1 \in Nat \ {0} /\ Append(got[p][s], p) \in Seq(Callers \cup {Hole})
    OBVIOUS
  <2>1. printed[p][s] \in Nat /\ got[p][s] \in Seq(Callers \cup {Hole})
    BY PartsAre
  <2>2. Append(got[p][s], p) \in Seq(Callers \cup {Hole})
    BY <2>1, AppendType
  <2> QED
    BY <2>1, <2>2
<1>4. ASSUME NEW p \in Callers, Serve(p) PROVE TypeOK'
  BY <1>1, <1>4, TypeRead
<1>5. ASSUME NEW p \in Callers, ServeErr(p) PROVE TypeOK'
  BY <1>1, <1>5, TypeRead
<1>6. ASSUME NEW p \in Callers, Begin(p) PROVE TypeOK'
  BY <1>1, <1>6, TypeBegin
<1> USE <1>1, StreamsAre DEF TypeOK, files, history, At, Go
<1>2. ASSUME NEW p \in Callers, CheckAge(p) PROVE TypeOK'
  BY <1>2 DEF CheckAge, Fresh
<1>3. ASSUME NEW p \in Callers, CheckSize(p) PROVE TypeOK'
  BY <1>3 DEF CheckSize
<1>7. ASSUME NEW p \in Callers, NEW s \in Streams, Output(p, s) PROVE TypeOK'
  <2>1. printed[p][s] + 1 \in Nat \ {0} /\ Append(got[p][s], p) \in Seq(Callers \cup {Hole})
    BY <1>a
  <2>2. Written(file[s], p, printed[p][s] + 1) \in Seq(Callers \cup {Hole})
    BY <2>1, WrittenType
  <2>3. file' \in [Streams -> Seq(Callers \cup {Hole})]
    BY <1>7, <2>2 DEF Output
  <2>4. printed' \in [Callers -> [Streams -> Nat]]
    BY <1>7, <2>1 DEF Output
  <2>5. got' \in [Callers -> [Streams -> Seq(Callers \cup {Hole})]]
    BY <1>7, <2>1 DEF Output
  <2> QED
    BY <1>7, <2>3, <2>4, <2>5 DEF Output
<1>8. ASSUME NEW p \in Callers, Finish(p) PROVE TypeOK'
  BY <1>8 DEF Finish
<1>9. ASSUME NEW p \in Callers, ReadErr(p) PROVE TypeOK'
  BY <1>9 DEF ReadErr, Delivered
<1>10. ASSUME NEW p \in Callers, Record(p) PROVE TypeOK'
  BY <1>10, NamesAssumption DEF Record
<1>11. ASSUME NEW p \in Callers, Kill(p) PROVE TypeOK'
  BY <1>11 DEF Kill
<1>12. ASSUME NEW p \in Callers, OrphanEnds(p) PROVE TypeOK'
  BY <1>12 DEF OrphanEnds
<1>13. CASE Expire
  BY <1>13 DEF Expire
<1> QED
  BY <1>2, <1>3, <1>4, <1>5, <1>6, <1>7, <1>8, <1>9, <1>10, <1>11, <1>12, <1>13
     DEF Next, Step, Script

LEMMA StepOrderOK ==
  ASSUME TypeOK, OrderOK, [Next]_vars
  PROVE  OrderOK' /\ ended \subseteq ended' /\ \A p \in Callers : Begun(p) => Begun(p)'
<1> DEFINE Goal == OrderOK' /\ ended \subseteq ended' /\ \A p \in Callers : Begun(p) => Begun(p)'
<1> USE DEF TypeOK, OrderOK, Begun, files, history, At, Go
<1>0. CASE UNCHANGED vars
  BY <1>0 DEF vars
<1>1. ASSUME NEW p \in Callers, CheckAge(p) \/ CheckSize(p) PROVE Goal
  BY <1>1 DEF CheckAge, CheckSize
<1>2. ASSUME NEW p \in Callers, Serve(p) \/ ServeErr(p) PROVE Goal
  BY <1>2 DEF Serve, ServeErr
<1>3. ASSUME NEW p \in Callers, Begin(p) PROVE Goal
  BY <1>3 DEF Begin
<1>4. ASSUME NEW p \in Callers, NEW s \in Streams, Output(p, s) PROVE Goal
  BY <1>4 DEF Output
<1>5. ASSUME NEW p \in Callers, Finish(p) \/ ReadErr(p) PROVE Goal
  BY <1>5 DEF Finish, ReadErr
<1>6. ASSUME NEW p \in Callers, Record(p) PROVE Goal
  BY <1>6 DEF Record
<1>7. ASSUME NEW p \in Callers, Kill(p) PROVE Goal
  BY <1>7 DEF Kill
<1>8. ASSUME NEW p \in Callers, OrphanEnds(p) PROVE Goal
  BY <1>8 DEF OrphanEnds
<1>9. CASE Expire
  BY <1>9 DEF Expire
<1> QED
  BY <1>0, <1>1, <1>2, <1>3, <1>4, <1>5, <1>6, <1>7, <1>8, <1>9 DEF Next, Step, Script

LEMMA StepFileFresh ==
  ASSUME TypeOK, OrderOK, FileFresh, [Next]_vars
  PROVE  FileFresh'
<1> USE DEF TypeOK, files, history, At, Go
\* A step that leaves the files alone, and lets no run begin.
<1>0. ASSUME UNCHANGED <<file, older>>, \A q \in Callers : Begun(q)' => Begun(q)
      PROVE  FileFresh'
  BY <1>0 DEF FileFresh, Chunks
<1> USE DEF Begun
<1>1. ASSUME NEW p \in Callers, CheckAge(p) \/ CheckSize(p) PROVE FileFresh'
  BY <1>0, <1>1 DEF CheckAge, CheckSize
<1>2. ASSUME NEW p \in Callers, Serve(p) \/ ServeErr(p) PROVE FileFresh'
  BY <1>0, <1>2 DEF Serve, ServeErr
<1>3. ASSUME NEW p \in Callers, Begin(p) PROVE FileFresh'
  <2>1. \A s \in Streams : Chunks(file'[s]) = {}
    BY <1>3 DEF Begin, Opened, Chunks
  <2> QED
    BY <2>1 DEF FileFresh, Chunks
<1>4. ASSUME NEW p \in Callers, NEW s \in Streams, Output(p, s) PROVE FileFresh'
  <2>1. Chunks(file'[s]) \subseteq Chunks(file[s]) \cup {p, Hole}
    <3>1. printed[p][s] + 1 \in Nat \ {0} /\ file'[s] = Written(file[s], p, printed[p][s] + 1)
      BY <1>4 DEF Output
    <3>2. Chunks(Written(file[s], p, printed[p][s] + 1)) \subseteq Chunks(file[s]) \cup {p, Hole}
      BY <3>1, WrittenType
    <3> QED
      BY <3>1, <3>2 DEF Chunks
  <2>2. p \notin ended
    BY <1>4 DEF Output, OrderOK
  <2>3. \A q \in Callers : p \notin older[q] /\ Hole \notin older[q]
    BY <2>2, NamesAssumption DEF OrderOK
  <2>4. older' = older /\ (\A q \in Callers : Begun(q)' => Begun(q))
        /\ \A t \in Streams : t # s => file'[t] = file[t]
    BY <1>4 DEF Output
  <2>5. ASSUME NEW q \in Callers, Begun(q)', NEW t \in Streams
        PROVE  Chunks(file'[t]) \cap older'[q] = {}
    <3>1. Chunks(file[t]) \cap older[q] = {}
      BY <2>4, <2>5 DEF FileFresh
    <3>2. CASE t = s
      BY <2>1, <2>3, <2>4, <3>1, <3>2
    <3>3. CASE t # s
      BY <2>4, <3>1, <3>3
    <3> QED
      BY <3>2, <3>3
  <2> QED
    BY <2>5 DEF FileFresh, Chunks
<1>5. ASSUME NEW p \in Callers, Finish(p) \/ ReadErr(p) PROVE FileFresh'
  BY <1>0, <1>5 DEF Finish, ReadErr
<1>6. ASSUME NEW p \in Callers, Record(p) PROVE FileFresh'
  BY <1>0, <1>6 DEF Record
<1>7. ASSUME NEW p \in Callers, Kill(p) \/ OrphanEnds(p) PROVE FileFresh'
  BY <1>0, <1>7 DEF Kill, OrphanEnds
<1>8. CASE Expire
  BY <1>0, <1>8 DEF Expire
<1>9. CASE UNCHANGED vars
  BY <1>0, <1>9 DEF vars
<1> QED
  BY <1>1, <1>2, <1>3, <1>4, <1>5, <1>6, <1>7, <1>8, <1>9 DEF Next, Step, Script

LEMMA StepBasisOK ==
  ASSUME TypeOK, OrderOK, BasisOK, [Next]_vars
  PROVE  BasisOK'
<1>1. \A p \in Callers : Begun(p) => Begun(p)'
  BY StepOrderOK
<1> USE DEF TypeOK, BasisOK, files, history, At, Go
<1>2. ASSUME UNCHANGED <<writer, basis>> PROVE BasisOK'
  BY <1>1, <1>2 DEF Begun
<1>3. ASSUME NEW p \in Callers, CheckAge(p) PROVE BasisOK'
  <2>1. age = "fresh" => writer \in Callers
    OBVIOUS
  <2>2. writer' = writer
    BY <1>3 DEF CheckAge
  <2> QED
    BY <1>1, <1>3, <2>1, <2>2, NamesAssumption DEF CheckAge, Fresh
<1>4. ASSUME NEW p \in Callers, CheckSize(p) PROVE BasisOK'
  BY <1>2, <1>4 DEF CheckSize
<1>5. ASSUME NEW p \in Callers, Serve(p) \/ ServeErr(p) PROVE BasisOK'
  BY <1>2, <1>5 DEF Serve, ServeErr
<1>6. ASSUME NEW p \in Callers, Begin(p) PROVE BasisOK'
  BY <1>2, <1>6 DEF Begin
<1>7. ASSUME NEW p \in Callers, NEW s \in Streams, Output(p, s) PROVE BasisOK'
  BY <1>2, <1>7 DEF Output
<1>8. ASSUME NEW p \in Callers, Finish(p) \/ ReadErr(p) PROVE BasisOK'
  BY <1>2, <1>8 DEF Finish, ReadErr
<1>9. ASSUME NEW p \in Callers, Record(p) PROVE BasisOK'
  BY <1>1, <1>9 DEF Record, Begun
<1>10. ASSUME NEW p \in Callers, Kill(p) \/ OrphanEnds(p) PROVE BasisOK'
  BY <1>2, <1>10 DEF Kill, OrphanEnds
<1>11. CASE Expire
  BY <1>2, <1>11 DEF Expire
<1>12. CASE UNCHANGED vars
  BY <1>2, <1>12 DEF vars
<1> QED
  BY <1>3, <1>4, <1>5, <1>6, <1>7, <1>8, <1>9, <1>10, <1>11, <1>12 DEF Next, Step, Script

LEMMA StepReadFresh ==
  ASSUME TypeOK, OrderOK, FileFresh, BasisOK, ReadFresh, [Next]_vars
  PROVE  ReadFresh'
<1> USE StreamsAre DEF TypeOK, files, history, At, Go
<1> DEFINE Hit(q)  == /\ pc'[q] \in {"hiterr", "served"} =>
                            /\ basis'[q] \in Callers
                            /\ Chunks(got'[q]["out"]) \cap older'[basis'[q]] = {}
                      /\ pc'[q] = "served" => Chunks(got'[q]["err"]) \cap older'[basis'[q]] = {}
           Miss(q) == pc'[q] \in {"read", "done"} => Chunks(got'[q]["err"]) \cap older'[q] = {}
           Same(q) == /\ got'[q] = got[q]
                      /\ pc'[q] \in {"hiterr", "served", "read", "done"} =>
                            /\ pc'[q] = pc[q] \/ (pc[q] = "read" /\ pc'[q] = "done")
                            /\ basis'[q] = basis[q]
\* What was over before a run began stays as it is.
<1>1. \A q \in Callers : Begun(q) => older'[q] = older[q]
  <2>1. \A p \in Callers : Begin(p) => \A q \in Callers : q # p => older'[q] = older[q]
    BY DEF Begin
  <2>2. \A p \in Callers : Begin(p) => ~Begun(p)
    BY DEF Begin, Begun
  <2>3. (\E p \in Callers : Begin(p)) \/ older' = older
    BY DEF Next, Step, Script, CheckAge, CheckSize, Serve, ServeErr, Output, Finish, ReadErr,
           Record, Kill, OrphanEnds, Expire, vars
  <2> QED
    BY <2>1, <2>2, <2>3
<1>2. \A q \in Callers : basis[q] \in Callers => older'[basis[q]] = older[basis[q]]
  BY <1>1 DEF BasisOK
\* A caller that a step leaves alone keeps what it has read.
<1>3. ASSUME NEW q \in Callers, Same(q) PROVE Hit(q) /\ Miss(q)
  <2>1. Hit(q)
    BY <1>2, <1>3 DEF ReadFresh
  <2>2. Miss(q)
    BY <1>1, <1>3 DEF ReadFresh, Begun
  <2> QED
    BY <2>1, <2>2
<1>4. SUFFICES \A q \in Callers : Hit(q) /\ Miss(q)
  BY DEF ReadFresh, Chunks
<1> HIDE DEF Hit, Miss, Same
<1>5. ASSUME NEW p \in Callers, CheckAge(p) \/ CheckSize(p) PROVE \A q \in Callers : Hit(q) /\ Miss(q)
  <2>1. \A q \in Callers : Same(q)
    BY <1>5 DEF Same, CheckAge, CheckSize
  <2> QED
    BY <1>3, <2>1
<1>6. ASSUME NEW p \in Callers, Serve(p) PROVE \A q \in Callers : Hit(q) /\ Miss(q)
  <2>1. \A q \in Callers : q # p => Hit(q) /\ Miss(q)
    <3>1. \A q \in Callers : q # p => Same(q)
      BY <1>6 DEF Same, Serve
    <3> QED
      BY <1>3, <3>1
  <2>2. basis[p] \in Callers /\ Begun(basis[p])
    BY <1>6 DEF Serve, BasisOK
  <2>3. Chunks(file["out"]) \cap older[basis[p]] = {}
    BY <2>2 DEF FileFresh
  <2>4. /\ got'[p]["out"] = file["out"] /\ basis' = basis /\ older' = older /\ pc'[p] = "hiterr"
    BY <1>6 DEF Serve
  <2>5. Hit(p) /\ Miss(p)
    BY <2>2, <2>3, <2>4 DEF Hit, Miss
  <2> QED
    BY <2>1, <2>5
<1>7. ASSUME NEW p \in Callers, ServeErr(p) PROVE \A q \in Callers : Hit(q) /\ Miss(q)
  <2>1. \A q \in Callers : q # p => Hit(q) /\ Miss(q)
    <3>1. \A q \in Callers : q # p => Same(q)
      BY <1>7 DEF Same, ServeErr
    <3> QED
      BY <1>3, <3>1
  <2>2. basis[p] \in Callers /\ Begun(basis[p]) /\ Chunks(got[p]["out"]) \cap older[basis[p]] = {}
    BY <1>7 DEF ServeErr, BasisOK, ReadFresh
  <2>3. Chunks(file["err"]) \cap older[basis[p]] = {}
    BY <2>2 DEF FileFresh
  <2>4. /\ got'[p]["err"] = file["err"] /\ got'[p]["out"] = got[p]["out"]
        /\ basis' = basis /\ older' = older /\ pc'[p] = "served"
    BY <1>7 DEF ServeErr
  <2>5. Hit(p) /\ Miss(p)
    BY <2>2, <2>3, <2>4 DEF Hit, Miss
  <2> QED
    BY <2>1, <2>5
<1>8. ASSUME NEW p \in Callers, Begin(p) PROVE \A q \in Callers : Hit(q) /\ Miss(q)
  <2>1. \A q \in Callers : Same(q)
    BY <1>8 DEF Same, Begin
  <2> QED
    BY <1>3, <2>1
<1>9. ASSUME NEW p \in Callers, NEW s \in Streams, Output(p, s) PROVE \A q \in Callers : Hit(q) /\ Miss(q)
  <2>1. \A q \in Callers : q # p => Hit(q) /\ Miss(q)
    <3>1. \A q \in Callers : q # p => Same(q)
      BY <1>9 DEF Same, Output
    <3> QED
      BY <1>3, <3>1
  <2>2. pc'[p] \in {"run", "orphan"}
    BY <1>9 DEF Output
  <2>3. Hit(p) /\ Miss(p)
    BY <2>2 DEF Hit, Miss
  <2> QED
    BY <2>1, <2>3
<1>10. ASSUME NEW p \in Callers, ReadErr(p) PROVE \A q \in Callers : Hit(q) /\ Miss(q)
  <2>1. \A q \in Callers : q # p => Hit(q) /\ Miss(q)
    <3>1. \A q \in Callers : q # p => Same(q)
      BY <1>10 DEF Same, ReadErr
    <3> QED
      BY <1>3, <3>1
  <2>2. Chunks(file["err"]) \cap older[p] = {}
    BY <1>10 DEF ReadErr, FileFresh, Begun
  <2>3. got'[p]["err"] = file["err"] /\ older' = older /\ pc'[p] = "read"
    BY <1>10 DEF ReadErr, Delivered
  <2>4. Hit(p) /\ Miss(p)
    BY <2>2, <2>3 DEF Hit, Miss
  <2> QED
    BY <2>1, <2>4
<1>11. ASSUME NEW p \in Callers, Finish(p) \/ Record(p) PROVE \A q \in Callers : Hit(q) /\ Miss(q)
  <2>1. \A q \in Callers : Same(q)
    BY <1>11 DEF Same, Finish, Record
  <2> QED
    BY <1>3, <2>1
<1>12. ASSUME NEW p \in Callers, Kill(p) \/ OrphanEnds(p) PROVE \A q \in Callers : Hit(q) /\ Miss(q)
  <2>1. \A q \in Callers : Same(q)
    BY <1>12 DEF Same, Kill, OrphanEnds
  <2> QED
    BY <1>3, <2>1
<1>13. CASE Expire
  <2>1. \A q \in Callers : Same(q)
    BY <1>13 DEF Same, Expire
  <2> QED
    BY <1>3, <2>1
<1>14. CASE UNCHANGED vars
  <2>1. \A q \in Callers : Same(q)
    BY <1>14 DEF Same, vars
  <2> QED
    BY <1>3, <2>1
<1> QED
  BY <1>5, <1>6, <1>7, <1>8, <1>9, <1>10, <1>11, <1>12, <1>13, <1>14 DEF Next, Step, Script

LEMMA StepOwnSoFar ==
  ASSUME TypeOK, OwnSoFar, [Next]_vars
  PROVE  OwnSoFar'
<1> USE StreamsAre DEF TypeOK, files, history, At, Go
<1> DEFINE Own(q) == /\ Waiting(q)' => \A s \in Streams : printed'[q][s] = 0 /\ got'[q][s] = <<>>
                     /\ Begun(q)' => got'[q]["out"] = [j \in 1 .. printed'[q]["out"] |-> q]
           Same(q) == /\ got'[q]["out"] = got[q]["out"] /\ printed'[q] = printed[q]
                      /\ Waiting(q)' => Waiting(q) /\ got'[q] = got[q]
                      /\ Begun(q)' => Begun(q)
<1>1. ASSUME NEW q \in Callers, Same(q) PROVE Own(q)
  BY <1>1 DEF OwnSoFar, OwnAll
<1>2. SUFFICES \A q \in Callers : Own(q)
  BY DEF OwnSoFar, OwnAll
<1> HIDE DEF Own, Same
<1> USE DEF Waiting, Begun
<1>3. ASSUME NEW p \in Callers, CheckAge(p) \/ CheckSize(p) PROVE \A q \in Callers : Own(q)
  <2>1. \A q \in Callers : Same(q)
    BY <1>3 DEF Same, CheckAge, CheckSize
  <2> QED
    BY <1>1, <2>1
<1>4. ASSUME NEW p \in Callers, Serve(p) \/ ServeErr(p) PROVE \A q \in Callers : Own(q)
  <2>1. \A q \in Callers : q # p => Own(q)
    <3>1. \A q \in Callers : q # p => Same(q)
      BY <1>4 DEF Same, Serve, ServeErr
    <3> QED
      BY <1>1, <3>1
  <2>2. pc'[p] \in {"hiterr", "served"}
    BY <1>4 DEF Serve, ServeErr
  <2>3. Own(p)
    BY <2>2 DEF Own
  <2> QED
    BY <2>1, <2>3
<1>5. ASSUME NEW p \in Callers, Begin(p) PROVE \A q \in Callers : Own(q)
  <2>1. \A q \in Callers : q # p => Own(q)
    <3>1. \A q \in Callers : q # p => Same(q)
      BY <1>5 DEF Same, Begin
    <3> QED
      BY <1>1, <3>1
  <2>2. pc[p] = "miss" /\ pc'[p] = "run" /\ got' = got /\ printed' = printed
    BY <1>5 DEF Begin
  <2>3. got[p]["out"] = <<>> /\ printed[p]["out"] = 0
    BY <2>2 DEF OwnSoFar
  <2>4. <<>> = [j \in 1..0 |-> p]
    OBVIOUS
  <2>5. Own(p)
    BY <2>2, <2>3, <2>4 DEF Own
  <2> QED
    BY <2>1, <2>5
<1>6. ASSUME NEW p \in Callers, NEW s \in Streams, Output(p, s) PROVE \A q \in Callers : Own(q)
  <2>1. \A q \in Callers : q # p => Own(q)
    <3>1. \A q \in Callers : q # p => Same(q)
      BY <1>6 DEF Same, Output
    <3> QED
      BY <1>1, <3>1
  <2>2. got[p]["out"] = [j \in 1..printed[p]["out"] |-> p] /\ pc'[p] \in {"run", "orphan"}
    BY <1>6 DEF Output, OwnSoFar, OwnAll
  <2>3. ~Waiting(p)'
    BY <2>2
  <2>4. got'[p]["out"] = [j \in 1 .. printed'[p]["out"] |-> p]
    <3>1. CASE s = "out"
      <4>1. got'[p]["out"] = Append(got[p]["out"], p) /\ printed'[p]["out"] = printed[p]["out"] + 1
        BY <1>6, <3>1 DEF Output
      <4>2. printed[p]["out"] \in Nat
        OBVIOUS
      <4>3. got[p]["out"] = [j \in 1 .. printed[p]["out"] |-> p]
        BY <2>2
      <4>4. Append([j \in 1 .. printed[p]["out"] |-> p], p) = [j \in 1 .. (printed[p]["out"] + 1) |-> p]
        BY <4>2, AppendOwn
      <4> QED
        BY <4>1, <4>3, <4>4, Zenon
    <3>2. CASE s = "err"
      BY <1>6, <2>2, <3>2 DEF Output
    <3> QED
      BY <3>1, <3>2
  <2>5. Own(p)
    <3> HIDE DEF TypeOK, Waiting, Begun
    <3> QED
      BY <2>3, <2>4, Zenon DEF Own
  <2> QED
    BY <2>1, <2>5
<1>7. ASSUME NEW p \in Callers, ReadErr(p) PROVE \A q \in Callers : Own(q)
  <2>1. \A q \in Callers : q # p => Own(q)
    <3>1. \A q \in Callers : q # p => Same(q)
      BY <1>7 DEF Same, ReadErr
    <3> QED
      BY <1>1, <3>1
  <2>2. got'[p]["out"] = got[p]["out"] /\ printed' = printed /\ pc[p] = "ran" /\ pc'[p] = "read"
    BY <1>7 DEF ReadErr, Delivered
  <2>3. Own(p)
    BY <1>1, <2>2 DEF Same
  <2> QED
    BY <2>1, <2>3
<1>8. ASSUME NEW p \in Callers, Finish(p) \/ Record(p) PROVE \A q \in Callers : Own(q)
  <2>1. \A q \in Callers : Same(q)
    BY <1>8 DEF Same, Finish, Record
  <2> QED
    BY <1>1, <2>1
<1>9. ASSUME NEW p \in Callers, Kill(p) \/ OrphanEnds(p) PROVE \A q \in Callers : Own(q)
  <2>1. \A q \in Callers : Same(q)
    BY <1>9 DEF Same, Kill, OrphanEnds
  <2> QED
    BY <1>1, <2>1
<1>10. CASE Expire
  <2>1. \A q \in Callers : Same(q)
    BY <1>10 DEF Same, Expire
  <2> QED
    BY <1>1, <2>1
<1>11. CASE UNCHANGED vars
  <2>1. \A q \in Callers : Same(q)
    BY <1>11 DEF Same, vars
  <2> QED
    BY <1>1, <2>1
<1> QED
  BY <1>3, <1>4, <1>5, <1>6, <1>7, <1>8, <1>9, <1>10, <1>11 DEF Next, Step, Script

(***************************************************************************)
(* Whole output                                                            *)
(*                                                                         *)
(* While runs neither overlap each other nor a reader and none is killed,  *)
(* each file is the output of one run: of the one that goes on, or of the  *)
(* one recorded last, which is over and prints nothing any more.           *)
(***************************************************************************)
Holds(f, w, s) == Len(f) = printed[w][s] /\ \A j \in 1 .. Len(f) : f[j] = w

Single ==
    /\ \A p, q \in Running : p = q
    /\ \A p \in Running, q \in Callers : q \notin Reading
    /\ \A p \in Callers : pc[p] \notin {"orphan", "dead"}
FileOfOne ==
    /\ \A p \in Running : \A s \in Streams : Holds(file[s], p, s)
    /\ writer \in Callers => pc[writer] = "done"
    /\ Running = {} /\ writer \in Callers => \A s \in Streams : Holds(file[s], writer, s)
HitOfOne(p) ==
    /\ p \in Reading => basis[p] = writer
    /\ At(p, "hit") => Len(file["out"]) > 1
    /\ pc[p] \in {"hiterr", "served"} =>
          /\ basis[p] \in Callers /\ pc[basis[p]] = "done"
          /\ Holds(got[p]["out"], basis[p], "out") /\ printed[basis[p]]["out"] > 1
    /\ At(p, "served") => Holds(got[p]["err"], basis[p], "err")
    /\ pc[p] \in {"read", "done"} => Holds(got[p]["err"], p, "err")
HitsOfOne == \A p \in Callers : HitOfOne(p)
Whole == ~crowded => Single /\ FileOfOne /\ HitsOfOne

LEMMA InitWhole == Init => Whole
<1> SUFFICES ASSUME Init PROVE Single /\ FileOfOne /\ HitsOfOne
  BY DEF Whole
<1>1. Running = {} /\ Reading = {}
  BY DEF Init, Running, Reading
<1>2. writer \notin Callers
  BY NamesAssumption DEF Init
<1>3. \A p \in Callers : pc[p] = "start"
  BY DEF Init
<1> QED
  BY <1>1, <1>2, <1>3 DEF Single, FileOfOne, HitsOfOne, HitOfOne, At

\* What the bookkeeping of crowded forbids.
LEMMA NotCrowded ==
  ASSUME Next, ~crowded'
  PROVE  ~crowded /\ Single'
<1>1. /\ ~crowded /\ ~(Cardinality(Running') > 1) /\ ~(Running' # {} /\ Reading' # {})
      /\ ~(\E p \in Callers : pc'[p] \in {"orphan", "dead"})
  BY DEF Next, Crowded
<1>2. ASSUME NEW p \in Running', NEW q \in Running' PROVE p = q
  <2>1. IsFiniteSet(Running')
    BY CallersAssumption, FS_Subset DEF Running
  <2>2. SUFFICES ASSUME p # q PROVE FALSE
    OBVIOUS
  <2>3. {p, q} \subseteq Running' /\ Cardinality({p, q}) = 2
    <3>1. IsFiniteSet({p}) /\ Cardinality({p}) = 1
      BY FS_Singleton
    <3>2. Cardinality({p} \cup {q}) = 2
      BY <2>2, <3>1, FS_AddElement
    <3>3. {p} \cup {q} = {p, q}
      OBVIOUS
    <3> QED
      BY <3>2, <3>3
  <2>4. Cardinality({p, q}) <= Cardinality(Running')
    BY <2>1, <2>3, FS_Subset
  <2>5. Cardinality(Running') \in Nat
    BY <2>1, FS_CardinalityType
  <2> QED
    BY <1>1, <2>3, <2>4, <2>5
<1>3. \A p \in Running', q \in Callers : q \notin Reading'
  BY <1>1
<1> QED
  BY <1>1, <1>2, <1>3 DEF Single

LEMMA StepWhole ==
  ASSUME TypeOK, OwnSoFar, Whole, [Next]_vars
  PROVE  Whole'
<1>0. CASE UNCHANGED vars
  BY <1>0 DEF vars, files, Whole, Single, FileOfOne, HitsOfOne, HitOfOne, Running, Reading, Holds, At
<1> SUFFICES ASSUME Next, ~crowded' PROVE FileOfOne' /\ HitsOfOne'
  BY <1>0, NotCrowded DEF Whole
<1>1. Single /\ FileOfOne /\ HitsOfOne /\ Single'
  BY NotCrowded DEF Whole
<1>2. /\ pc \in [Callers -> {"start", "size", "hit", "hiterr", "miss", "run", "ran", "read",
                            "orphan", "served", "done", "dead"}]
      /\ printed \in [Callers -> [Streams -> Nat]]
      /\ got \in [Callers -> [Streams -> Seq(Callers \cup {Hole})]]
      /\ basis \in [Callers -> Callers \cup {None}]
      /\ file \in [Streams -> Seq(Callers \cup {Hole})]
      /\ age = "fresh" => writer \in Callers
  BY DEF TypeOK
<1> USE StreamsAre DEF Running, Reading, At, Go, files
<1>3. ASSUME NEW p \in Callers, CheckAge(p) PROVE FileOfOne' /\ HitsOfOne'
  <2>1. UNCHANGED <<file, writer, printed, got>> /\ pc[p] = "start"
        /\ \A q \in Callers : q # p => pc'[q] = pc[q] /\ basis'[q] = basis[q]
    BY <1>2, <1>3 DEF CheckAge
  <2>2. pc'[p] \in {"size", "miss"} /\ (pc'[p] = "size" => basis'[p] = writer)
    BY <1>2, <1>3 DEF CheckAge, Fresh
  <2>3. Running' = Running
    BY <2>1, <2>2
  <2>4. FileOfOne'
    BY <1>1, <2>1, <2>2, <2>3 DEF FileOfOne, Holds
  <2>5. HitsOfOne'
    BY <1>1, <2>1, <2>2 DEF HitsOfOne, HitOfOne, Holds
  <2> QED
    BY <2>4, <2>5
<1>4. ASSUME NEW p \in Callers, CheckSize(p) PROVE FileOfOne' /\ HitsOfOne'
  <2>1. UNCHANGED <<file, writer, printed, got, basis>> /\ pc[p] = "size"
        /\ \A q \in Callers : q # p => pc'[q] = pc[q]
    BY <1>2, <1>4 DEF CheckSize
  <2>2. pc'[p] \in {"hit", "miss"} /\ (pc'[p] = "hit" => Len(file["out"]) > 1)
    BY <1>2, <1>4 DEF CheckSize, Enough
  <2>3. Running' = Running
    BY <2>1, <2>2
  <2>4. FileOfOne'
    BY <1>1, <2>1, <2>2, <2>3 DEF FileOfOne, Holds
  <2>5. HitsOfOne'
    BY <1>1, <2>1, <2>2 DEF HitsOfOne, HitOfOne, Holds
  <2> QED
    BY <2>4, <2>5
\* A reader: no run goes on, so the files are those of the run recorded last.
<1>5. ASSUME NEW p \in Callers, p \in Reading
      PROVE  /\ Running = {} /\ basis[p] = writer /\ writer \in Callers /\ pc[writer] = "done"
             /\ \A s \in Streams : Holds(file[s], writer, s)
  <2>1. Running = {} /\ basis[p] = writer
    BY <1>1, <1>5 DEF Single, HitsOfOne, HitOfOne
  <2>2. writer \in Callers
    BY <1>5, <2>1 DEF TypeOK
  <2> QED
    BY <1>1, <2>1, <2>2 DEF FileOfOne
<1>6. ASSUME NEW p \in Callers, Serve(p) PROVE FileOfOne' /\ HitsOfOne'
  <2>1. UNCHANGED <<file, writer, printed, basis>> /\ pc[p] = "hit" /\ pc'[p] = "hiterr"
        /\ got'[p]["out"] = file["out"]
        /\ \A q \in Callers : q # p => pc'[q] = pc[q] /\ got'[q] = got[q]
    BY <1>2, <1>6 DEF Serve
  <2>2. /\ Running = {} /\ basis[p] = writer /\ writer \in Callers /\ pc[writer] = "done"
        /\ \A s \in Streams : Holds(file[s], writer, s)
    BY <1>5, <2>1
  <2>3. Running' = Running /\ pc'[writer] = "done" /\ Len(file["out"]) > 1
    BY <1>1, <2>1, <2>2 DEF HitsOfOne, HitOfOne
  <2>4. FileOfOne'
    BY <2>1, <2>2, <2>3 DEF FileOfOne, Holds
  <2>5. printed[writer]["out"] > 1 /\ Holds(file["out"], writer, "out")
    BY <2>2, <2>3 DEF Holds
  <2>6. HitOfOne(p)'
    BY <2>1, <2>2, <2>3, <2>5 DEF HitOfOne, Holds
  <2>7. ASSUME NEW q \in Callers, q # p PROVE HitOfOne(q)'
    <3>1. pc'[q] = pc[q] /\ got'[q] = got[q] /\ HitOfOne(q)
      BY <1>1, <2>1, <2>7 DEF HitsOfOne
    <3>2. pc[q] \in {"hiterr", "served"} => basis[q] # p
      BY <2>1, <3>1 DEF HitOfOne
    <3>3. pc[q] \in {"hiterr", "served"} => basis'[q] \in Callers /\ pc'[basis'[q]] = "done"
      BY <2>1, <3>1, <3>2 DEF HitOfOne
    <3> QED
      BY <2>1, <3>1, <3>3 DEF HitOfOne, Holds
  <2> QED
    BY <2>4, <2>6, <2>7 DEF HitsOfOne
<1>7. ASSUME NEW p \in Callers, ServeErr(p) PROVE FileOfOne' /\ HitsOfOne'
  <2>1. UNCHANGED <<file, writer, printed, basis>> /\ pc[p] = "hiterr" /\ pc'[p] = "served"
        /\ got'[p]["err"] = file["err"] /\ got'[p]["out"] = got[p]["out"]
        /\ \A q \in Callers : q # p => pc'[q] = pc[q] /\ got'[q] = got[q]
    BY <1>2, <1>7 DEF ServeErr
  <2>2. /\ Running = {} /\ basis[p] = writer /\ writer \in Callers /\ pc[writer] = "done"
        /\ \A s \in Streams : Holds(file[s], writer, s)
    BY <1>5, <2>1
  <2>3. Running' = Running /\ pc'[writer] = "done"
    BY <2>1, <2>2
  <2>4. FileOfOne'
    BY <2>1, <2>2, <2>3 DEF FileOfOne, Holds
  <2>5. Holds(got[p]["out"], writer, "out") /\ printed[writer]["out"] > 1 /\ Holds(file["err"], writer, "err")
    BY <1>1, <2>1, <2>2 DEF HitsOfOne, HitOfOne
  <2>6. HitOfOne(p)'
    BY <2>1, <2>2, <2>3, <2>5 DEF HitOfOne, Holds
  <2>7. ASSUME NEW q \in Callers, q # p PROVE HitOfOne(q)'
    <3>1. pc'[q] = pc[q] /\ got'[q] = got[q] /\ HitOfOne(q)
      BY <1>1, <2>1, <2>7 DEF HitsOfOne
    <3>2. pc[q] \in {"hiterr", "served"} => basis[q] # p
      BY <2>1, <3>1 DEF HitOfOne
    <3>3. pc[q] \in {"hiterr", "served"} => basis'[q] \in Callers /\ pc'[basis'[q]] = "done"
      BY <2>1, <3>1, <3>2 DEF HitOfOne
    <3> QED
      BY <2>1, <3>1, <3>3 DEF HitOfOne, Holds
  <2> QED
    BY <2>4, <2>6, <2>7 DEF HitsOfOne
<1>8. ASSUME NEW p \in Callers, Begin(p) PROVE FileOfOne' /\ HitsOfOne'
  <2>1. /\ UNCHANGED <<writer, printed, got, basis>> /\ pc[p] = "miss" /\ pc'[p] = "run"
        /\ (\A s \in Streams : file'[s] = <<>>) /\ \A q \in Callers : q # p => pc'[q] = pc[q]
    BY <1>2, <1>8 DEF Begin, Opened
  <2>2. \A s \in Streams : printed[p][s] = 0
    BY <2>1 DEF OwnSoFar, Waiting
  <2>3. p \in Running' /\ \A q \in Callers : q \notin Reading'
    BY <1>1, <2>1 DEF Single
  <2>4. \A q \in Running' : q = p
    BY <1>1, <2>3 DEF Single
  <2>5. FileOfOne'
    BY <1>1, <2>1, <2>2, <2>3, <2>4 DEF FileOfOne, Holds
  <2>6. HitsOfOne'
    BY <1>1, <2>1, <2>3 DEF HitsOfOne, HitOfOne, Holds
  <2> QED
    BY <2>5, <2>6
<1>9. ASSUME NEW p \in Callers, NEW s \in Streams, Output(p, s) PROVE FileOfOne' /\ HitsOfOne'
  <2>1. /\ UNCHANGED <<writer, pc, basis>> /\ p \in Running /\ pc[p] \in {"run", "orphan"}
        /\ printed'[p][s] = printed[p][s] + 1 /\ file'[s] = Written(file[s], p, printed[p][s] + 1)
        /\ \A t \in Streams : t # s => printed'[p][t] = printed[p][t] /\ file'[t] = file[t]
        /\ \A q \in Callers : q # p => printed'[q] = printed[q] /\ got'[q] = got[q]
    BY <1>2, <1>9 DEF Output
  <2>2. (\A t \in Streams : Holds(file[t], p, t)) /\ \A q \in Running : q = p
    BY <1>1, <2>1 DEF FileOfOne, Single
  <2>3. Len(file'[s]) = printed[p][s] + 1 /\ \A j \in 1 .. Len(file'[s]) : file'[s][j] = p
    <3>1. file[s] \in Seq(Callers \cup {Hole}) /\ printed[p][s] \in Nat
      BY <1>2
    <3> QED
      BY <2>1, <2>2, <3>1 DEF Holds, Written
  <2>4. FileOfOne'
    BY <1>1, <2>1, <2>2, <2>3 DEF FileOfOne, Holds
  <2>5. \A q \in Callers : q \notin Reading
    BY <1>1, <2>1 DEF Single
  <2>6. \A q \in Callers : pc[q] \in {"served", "read", "done"} => q # p
    BY <2>1
  <2>7. ASSUME NEW q \in Callers PROVE HitOfOne(q)'
    <3>1. HitOfOne(q) /\ q \notin Reading'
      BY <1>1, <2>1, <2>5 DEF HitsOfOne
    <3>2. pc[q] \in {"served", "read", "done"} => q # p /\ printed'[q] = printed[q] /\ got'[q] = got[q]
      BY <2>1, <2>6
    <3>3. At(q, "served") => /\ basis[q] # p /\ printed'[basis[q]] = printed[basis[q]]
                             /\ UNCHANGED <<pc, basis>>
      BY <2>1, <3>1 DEF HitOfOne
    <3> QED
      BY <2>1, <3>1, <3>2, <3>3 DEF HitOfOne, Holds
  <2> QED
    BY <2>4, <2>7 DEF HitsOfOne
<1>10. ASSUME NEW p \in Callers, Finish(p) PROVE FileOfOne' /\ HitsOfOne'
  <2>1. UNCHANGED <<file, writer, printed, got, basis>> /\ pc[p] = "run" /\ pc'[p] = "ran"
        /\ \A q \in Callers : q # p => pc'[q] = pc[q]
    BY <1>2, <1>10 DEF Finish
  <2>2. Running' = Running
    BY <2>1
  <2>3. FileOfOne'
    BY <1>1, <2>1, <2>2 DEF FileOfOne, Holds
  <2>4. HitsOfOne'
    BY <1>1, <2>1 DEF HitsOfOne, HitOfOne, Holds
  <2> QED
    BY <2>3, <2>4
<1>11. ASSUME NEW p \in Callers, ReadErr(p) PROVE FileOfOne' /\ HitsOfOne'
  <2>1. /\ UNCHANGED <<file, writer, printed, basis>> /\ pc[p] = "ran" /\ pc'[p] = "read"
        /\ got'[p]["err"] = file["err"]
        /\ \A q \in Callers : q # p => pc'[q] = pc[q] /\ got'[q] = got[q]
    BY <1>2, <1>11 DEF ReadErr, Delivered
  <2>2. Running' = Running /\ Holds(file["err"], p, "err")
    BY <1>1, <2>1 DEF FileOfOne
  <2>3. FileOfOne'
    BY <1>1, <2>1, <2>2 DEF FileOfOne, Holds
  <2>4. HitsOfOne'
    BY <1>1, <2>1, <2>2 DEF HitsOfOne, HitOfOne, Holds
  <2> QED
    BY <2>3, <2>4
<1>12. ASSUME NEW p \in Callers, Record(p) PROVE FileOfOne' /\ HitsOfOne'
  <2>1. /\ UNCHANGED <<file, printed, got, basis>> /\ pc[p] = "read" /\ pc'[p] = "done"
        /\ writer' = p /\ \A q \in Callers : q # p => pc'[q] = pc[q]
    BY <1>2, <1>12 DEF Record
  <2>2. p \in Running /\ (\A q \in Running : q = p) /\ \A q \in Callers : q \notin Reading
    BY <1>1, <2>1 DEF Single
  <2>3. Running' = {} /\ \A s \in Streams : Holds(file[s], p, s)
    BY <1>1, <2>1, <2>2 DEF FileOfOne
  <2>4. FileOfOne'
    BY <2>1, <2>3 DEF FileOfOne, Holds
  <2>5. HitsOfOne'
    BY <1>1, <2>1, <2>2 DEF HitsOfOne, HitOfOne, Holds
  <2> QED
    BY <2>4, <2>5
<1>13. ASSUME NEW p \in Callers, Kill(p) PROVE FALSE
  <2>1. pc'[p] \in {"orphan", "dead"}
    BY <1>2, <1>13 DEF Kill
  <2> QED
    BY <1>1, <2>1 DEF Single
<1>14. ASSUME NEW p \in Callers, OrphanEnds(p) PROVE FALSE
  BY <1>1, <1>14 DEF OrphanEnds, Single
<1>15. CASE Expire
  BY <1>1, <1>15 DEF Expire, FileOfOne, HitsOfOne, HitOfOne, Holds
<1> QED
  BY <1>3, <1>4, <1>6, <1>7, <1>8, <1>9, <1>10, <1>11, <1>12, <1>13, <1>14, <1>15
     DEF Next, Step, Script

(***************************************************************************)
(* The theorems                                                            *)
(***************************************************************************)
LEMMA Invariance == Spec => []Inv
<1>1. Inv /\ [Next]_vars => Inv'
  BY StepTypeOK, StepOrderOK, StepFileFresh, StepBasisOK, StepReadFresh, StepOwnSoFar DEF Inv
<1> QED
  BY InitInv, <1>1, PTL DEF Spec

LEMMA WholeInvariance == Spec => []Whole
<1>1. Inv /\ Whole /\ [Next]_vars => Whole'
  BY StepWhole DEF Inv
<1> QED
  BY InitWhole, <1>1, Invariance, PTL DEF Spec

\* A file that holds a run's output is that output.
LEMMA HoldsAll ==
  ASSUME NEW f \in Seq(Callers \cup {Hole}), NEW w, NEW s, Holds(f, w, s)
  PROVE  f = OwnAll(w, s)
BY DEF Holds, OwnAll

\* The variables keep their types, for every constant.
THEOREM TypeCorrect == Spec => []TypeOK
<1>1. Inv => TypeOK
  BY DEF Inv
<1> QED
  BY Invariance, <1>1, PTL

\* Whatever the interleaving, nothing older than the run that made the cache
\* fresh is served from it, on either stream.
THEOREM Freshness == Spec => []HitFresh
<1>1. Inv => HitFresh
  BY DEF Inv, ReadFresh, HitFresh, At, Streams
<1> QED
  BY Invariance, <1>1, PTL

\* A caller that ran the command got the whole stdout of its own run, whatever
\* others did; of stderr nothing older than its run, and while calls do not
\* overlap the whole of its own.
THEOREM OwnRun == Spec => []OwnOutput
<1>1. Inv /\ Whole => OwnOutput
  <2> SUFFICES ASSUME Inv, Whole, NEW p \in Callers, At(p, "done")
               PROVE  /\ got[p]["out"] = OwnAll(p, "out")
                      /\ Chunks(got[p]["err"]) \cap older[p] = {}
                      /\ ~crowded => got[p]["err"] = OwnAll(p, "err")
    BY DEF OwnOutput
  <2>1. got[p]["out"] = OwnAll(p, "out")
    BY DEF Inv, OwnSoFar, Begun, At
  <2>2. Chunks(got[p]["err"]) \cap older[p] = {}
    BY DEF Inv, ReadFresh, At
  <2>3. ASSUME ~crowded PROVE got[p]["err"] = OwnAll(p, "err")
    <3>1. Holds(got[p]["err"], p, "err")
      BY <2>3 DEF Whole, HitsOfOne, HitOfOne, At
    <3>2. got[p]["err"] \in Seq(Callers \cup {Hole})
      BY StreamsAre DEF Inv, TypeOK
    <3> QED
      BY <3>1, <3>2, HoldsAll
  <2> QED
    BY <2>1, <2>2, <2>3
<1> QED
  BY Invariance, WholeInvariance, <1>1, PTL

\* While calls do not overlap, whoever is served from the cache gets the whole
\* output, on both streams, of the run recorded last, and never a stdout too
\* short to be a result.
THEOREM WholeHits == Spec => []HitWhole
<1>1. Inv /\ Whole => HitWhole
  <2> SUFFICES ASSUME Inv, Whole, ~crowded, NEW p \in Callers, At(p, "served")
               PROVE  /\ \A s \in Streams : got[p][s] = OwnAll(basis[p], s)
                      /\ printed[basis[p]]["out"] > 1
    BY DEF HitWhole
  <2>1. /\ \A s \in Streams : Holds(got[p][s], basis[p], s)
        /\ printed[basis[p]]["out"] > 1
    BY DEF Whole, HitsOfOne, HitOfOne, At, Streams
  <2>2. \A s \in Streams : got[p][s] \in Seq(Callers \cup {Hole})
    BY DEF Inv, TypeOK
  <2>3. \A s \in Streams : got[p][s] = OwnAll(basis[p], s)
    BY <2>1, <2>2, HoldsAll
  <2> QED
    BY <2>1, <2>3
<1> QED
  BY Invariance, WholeInvariance, <1>1, PTL
=============================================================================
