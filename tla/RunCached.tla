----------------------------- MODULE RunCached -----------------------------
(***************************************************************************)
(* run_cached <cmd>: callers of the same command line share its output     *)
(* through three files, .stdout, .stderr and .exitcode.  The age of        *)
(* .exitcode alone says whether the other two are fresh; nothing is        *)
(* locked, so callers meet between any two steps of the script.            *)
(*                                                                         *)
(* A caller that runs the command passes its stdout on while tee copies it *)
(* to .stdout.  Its stderr goes to .stderr only, and is read back from     *)
(* there when the run is over.                                             *)
(*                                                                         *)
(* A run of the command is named by the caller that started it.  It prints *)
(* chunks of two bytes; a byte range of a file that a run skipped over,    *)
(* because another truncated the file under it, reads as Hole.             *)
(***************************************************************************)
EXTENDS Integers, Sequences, FiniteSets

Streams == {"out", "err"}

CONSTANTS
    Callers,     \* one call each
    Hanging,     \* the callers whose command never ends by itself
    MaxChunks,   \* bound on the chunks each caller's run prints to each stream
    Hole, None

ASSUME CallersAssumption == IsFiniteSet(Callers)
ASSUME MaxChunksAssumption == MaxChunks \in [Callers -> [Streams -> Nat]]
ASSUME HangingAssumption == Hanging \subseteq Callers
ASSUME NamesAssumption == Hole \notin Callers /\ None \notin Callers

VARIABLES
    file,        \* .stdout and .stderr: of each stream, a sequence of runs and Hole
    age,         \* of .exitcode: "none" (no file), "fresh" (< TTL) or "stale"
    writer,      \* the caller that wrote .exitcode last
    pc,          \* where each caller is
    printed,     \* chunks the caller's run has printed to each stream
    got,         \* what the caller has printed to its own stdout and stderr
    basis,       \* history: writer when the caller found .exitcode fresh
    ended,       \* history: callers whose run is over
    older,       \* history: the runs that were over when the caller's began
    crowded      \* history: runs overlapped each other or a reader, or one was killed

files == <<file, age, writer>>
history == <<ended, older>>
vars == <<files, pc, printed, got, basis, history, crowded>>

(***************************************************************************)
(* Operators                                                               *)
(***************************************************************************)
Running == {p \in Callers : pc[p] \in {"run", "ran", "read", "orphan"}}
Reading == {p \in Callers : pc[p] \in {"size", "hit", "hiterr"}}

At(p, from) == pc[p] = from
Go(p, to)   == pc' = [pc EXCEPT ![p] = to]

\* $CACHED_AGE -lt $RUN_CACHED_TTL
Fresh == age = "fresh"

\* $(cat $CACHED_STDOUT | wc -c) -gt 2
Enough_Any(f) == TRUE
Enough(f) == 2 * Len(f) > 2

\* tee opens .stdout with O_TRUNC, and 2> opens .stderr so.
Opened_Append == file
Opened == [s \in Streams |-> <<>>]

\* The file with run p's n-th chunk in its place.
Written(f, p, n) ==
    [j \in 1 .. (IF n > Len(f) THEN n ELSE Len(f)) |->
        IF j = n THEN p ELSE IF j <= Len(f) THEN f[j] ELSE Hole]

\* What a caller that ran the command has printed when the cat of .stderr is
\* over: tee has passed every chunk of stdout on, and .stdout is not read again.
Delivered_FromFile(p) == file
Delivered(p) == [got[p] EXCEPT !["err"] = file["err"]]

\* timeout -s 9: a run that does not end is killed.
Overdue_Never(p) == FALSE
Overdue(p) == TRUE

Init ==
    /\ file = [s \in Streams |-> <<>>] /\ age = "none" /\ writer = None
    /\ pc = [p \in Callers |-> "start"]
    /\ printed = [p \in Callers |-> [s \in Streams |-> 0]]
    /\ got = [p \in Callers |-> [s \in Streams |-> <<>>]]
    /\ basis = [p \in Callers |-> None]
    /\ ended = {} /\ older = [p \in Callers |-> {}]
    /\ crowded = FALSE

(***************************************************************************)
(* The script                                                              *)
(***************************************************************************)
\* -f $CACHED_EXITCODE, and its age against RUN_CACHED_TTL.
CheckAge(p) ==
    /\ At(p, "start")
    /\ Go(p, IF Fresh THEN "size" ELSE "miss")
    /\ basis' = [basis EXCEPT ![p] = IF age = "fresh" THEN writer ELSE None]
    /\ UNCHANGED <<files, printed, got, history>>

CheckSize(p) ==
    /\ At(p, "size")
    /\ Go(p, IF Enough(file["out"]) THEN "hit" ELSE "miss")
    /\ UNCHANGED <<files, printed, got, basis, history>>

\* HIT: cat $CACHED_STDOUT
Serve(p) ==
    /\ At(p, "hit")
    /\ got' = [got EXCEPT ![p]["out"] = file["out"]]
    /\ Go(p, "hiterr")
    /\ UNCHANGED <<files, printed, basis, history>>

\* HIT: cat $CACHED_STDERR 1>&2
ServeErr(p) ==
    /\ At(p, "hiterr")
    /\ got' = [got EXCEPT ![p]["err"] = file["err"]]
    /\ Go(p, "served")
    /\ UNCHANGED <<files, printed, basis, history>>

\* MISS: the pipeline timeout "$@" 2>$CACHED_STDERR | tee $CACHED_STDOUT
\* starts; its two ends truncate their files before the run can be recorded.
Begin(p) ==
    /\ At(p, "miss")
    /\ file' = Opened
    /\ older' = [older EXCEPT ![p] = ended]
    /\ Go(p, "run")
    /\ UNCHANGED <<age, writer, printed, got, basis, ended>>

\* The command prints a chunk: to .stderr itself, to .stdout through tee, which
\* prints it as well.
Output(p, s) ==
    /\ pc[p] \in {"run", "orphan"} /\ printed[p][s] < MaxChunks[p][s]
    /\ printed' = [printed EXCEPT ![p][s] = @ + 1]
    /\ file' = [file EXCEPT ![s] = Written(@, p, printed[p][s] + 1)]
    /\ got' = [got EXCEPT ![p][s] = IF s = "out" THEN Append(@, p) ELSE @]
    /\ UNCHANGED <<age, writer, pc, basis, history>>

\* The command ends, or timeout kills it; tee ends with it.
Finish(p) ==
    /\ At(p, "run") /\ (p \notin Hanging \/ Overdue(p))
    /\ Go(p, "ran")
    /\ UNCHANGED <<files, printed, got, basis, history>>

\* MISS: cat $CACHED_STDERR 1>&2, whatever is in it by now.
ReadErr(p) ==
    /\ At(p, "ran")
    /\ got' = [got EXCEPT ![p] = Delivered(p)]
    /\ Go(p, "read")
    /\ UNCHANGED <<files, printed, basis, history>>

\* echo $? > $CACHED_EXITCODE; then the caller returns what .exitcode says, the
\* status of the cat before it: 0.
Record(p) ==
    /\ At(p, "read")
    /\ age' = "fresh" /\ writer' = p
    /\ ended' = ended \cup {p}
    /\ Go(p, "done")
    /\ UNCHANGED <<file, printed, got, basis, older>>

(***************************************************************************)
(* The environment                                                         *)
(***************************************************************************)
\* The script is killed, and its pipeline with it or not.
Kill(p) ==
    /\ pc[p] \in {"run", "ran", "read"}
    /\ \/ Go(p, "dead") /\ ended' = ended \cup {p}
       \/ At(p, "run") /\ Go(p, "orphan") /\ ended' = ended
    /\ UNCHANGED <<files, printed, got, basis, older>>

OrphanEnds(p) ==
    /\ At(p, "orphan")
    /\ Go(p, "dead") /\ ended' = ended \cup {p}
    /\ UNCHANGED <<files, printed, got, basis, older>>

\* RUN_CACHED_TTL seconds have passed since .exitcode was written.
Expire ==
    /\ age = "fresh" /\ age' = "stale"
    /\ UNCHANGED <<file, writer, pc, printed, got, basis, history>>

Script(p) ==
    \/ CheckAge(p) \/ CheckSize(p) \/ Serve(p) \/ ServeErr(p)
    \/ Begin(p) \/ (\E s \in Streams : Output(p, s)) \/ Finish(p)
    \/ ReadErr(p) \/ Record(p)

Crowded ==
    crowded' = (\/ crowded
                \/ Cardinality(Running') > 1
                \/ Running' # {} /\ Reading' # {}
                \/ \E p \in Callers : pc'[p] \in {"orphan", "dead"})

Step ==
    \/ \E p \in Callers : Script(p) \/ Kill(p) \/ OrphanEnds(p)
    \/ Expire

Next == Step /\ Crowded

\* Every caller's script goes on, and timeout sees to it that its command
\* ends; nothing is assumed of kills and of time.
Spec == Init /\ [][Next]_vars /\ \A p \in Callers : WF_vars(Script(p) /\ Crowded)

(***************************************************************************)
(* Properties                                                              *)
(***************************************************************************)
\* The type of every variable; .exitcode has a writer as soon as it exists, and
\* a caller that goes for the cache goes by the run that wrote it.
TypeOK ==
    /\ file \in [Streams -> Seq(Callers \cup {Hole})]
    /\ age \in {"none", "fresh", "stale"}
    /\ writer \in Callers \cup {None} /\ (age = "none" <=> writer = None)
    /\ pc \in [Callers -> {"start", "size", "hit", "hiterr", "miss", "run", "ran", "read",
                           "orphan", "served", "done", "dead"}]
    /\ printed \in [Callers -> [Streams -> Nat]]
    /\ got \in [Callers -> [Streams -> Seq(Callers \cup {Hole})]]
    /\ basis \in [Callers -> Callers \cup {None}]
    /\ \A p \in Callers : pc[p] \in {"size", "hit", "hiterr", "served"} => basis[p] \in Callers
    /\ ended \in SUBSET Callers /\ older \in [Callers -> SUBSET Callers]
    /\ crowded \in BOOLEAN

Chunks(f) == {f[j] : j \in DOMAIN f}

\* All that run p has printed to stream s, and nothing else.
OwnAll(p, s) == [j \in 1 .. printed[p][s] |-> p]

\* However callers interleave, time out or are killed, a caller served from the
\* cache gets nothing, on either stream, that a run printed which was over before
\* the run began whose recorded end made the cache fresh: the age of .exitcode,
\* taken before .stdout and .stderr are read, bounds the age of the output.
HitFresh ==
    \A p \in Callers : At(p, "served") =>
        /\ basis[p] \in Callers
        /\ \A s \in Streams : Chunks(got[p][s]) \cap older[basis[p]] = {}

\* A caller that ran the command returns with the whole stdout of its own run and
\* nothing else, whatever others did to the shared files meanwhile.  Its stderr
\* comes back through the shared .stderr, so another run's may be printed in its
\* place: never that of a run over before its own began, and while calls do not
\* overlap and none is killed it is its own run's, whole.
OwnOutput ==
    \A p \in Callers : At(p, "done") =>
        /\ got[p]["out"] = OwnAll(p, "out")
        /\ Chunks(got[p]["err"]) \cap older[p] = {}
        /\ ~crowded => got[p]["err"] = OwnAll(p, "err")

\* While calls do not overlap and none is killed, a caller served from the cache
\* gets the whole output, on both streams, of the run whose recorded end it went
\* by, and no stdout too short to be a result.
HitWhole ==
    ~crowded => \A p \in Callers : At(p, "served") =>
        /\ \A s \in Streams : got[p][s] = OwnAll(basis[p], s)
        /\ printed[basis[p]]["out"] > 1

\* Every call returns, unless it is killed, also when its command hangs.
Returns == \A p \in Callers : <>(pc[p] \in {"served", "done", "orphan", "dead"})
=============================================================================
