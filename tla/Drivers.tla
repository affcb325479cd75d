------------------------------ MODULE Drivers ------------------------------
(***************************************************************************)
(* The programs that measure the table: main.cpp, hellohash.cpp, ycsb.cpp, *)
(* ycsb_char.cpp, CH_YCSBTest.cpp and CH_HybridTest.cpp.  Each loads keys, *)
(* starts worker threads that each have a share of the requests, and joins *)
(* them.  The last two repeat the requests until a timer stops them.       *)
(*                                                                         *)
(* The table is what KeyValueMap.tla promises, so a call is one step.  The *)
(* programs store under a key a value made from it; what is told apart is  *)
(* which keys there are.                                                   *)
(***************************************************************************)
EXTENDS Naturals, Sequences, FiniteSets

CONSTANTS
  Programs,       \* which of the programs
  MaxThreads,     \* bound: the largest thread_number
  KeyRanges,      \* key_range of CH_HybridTest
  FileKeys,       \* the keys in a ./testfile.dat that is there already
  Counts,         \* how many requests there are, the same in both phases
  UpdateEvery,    \* 100 / updatePercentage, 0 if that is 0
  EraseEvery,     \* 100 / ereasePercentage, 0 if that is 0
  MaxRounds       \* bound: rounds before a worker waits for the timer

Replays  == {"ycsb", "ycsb_char"}
Timed    == {"CH_YCSBTest", "CH_HybridTest"}
Checkers == {"main", "hellohash"}

ASSUME ProgramsAssumption == Programs \subseteq Replays \cup Timed \cup Checkers
ASSUME NumbersAssumption ==
  /\ MaxThreads \in Nat \ {0} /\ KeyRanges \subseteq Nat \ {0} /\ FileKeys \subseteq Nat
  /\ Counts \subseteq Nat
  /\ UpdateEvery \in Nat /\ EraseEvery \in Nat /\ MaxRounds \in Nat

VARIABLES
  program, thread_number, key_range,   \* how it was called
  loads, runs,                         \* the keys to load, the requests
  store,                               \* the keys in the table
  phase,                               \* load, run, over; exited: by exit(-1)
  worker,                              \* the local variables of each worker
  stopMeasure

setting == <<program, thread_number, key_range, loads, runs>>
vars == <<program, thread_number, key_range, loads, runs, store, phase, worker, stopMeasure>>

Tids == 0 .. thread_number - 1
KeysOf(seq) == {seq[i] : i \in DOMAIN seq}

-----------------------------------------------------------------------------
(* The requests of a worker.                                               *)

\* work_thread: equal shares; the rest is left over.
Cut(tid, n) ==
  LET send_num == n \div thread_number
  IN  [first |-> tid * send_num, end |-> (tid + 1) * send_num]

\* measureWorker of CH_YCSBTest.
Rounded(tid, n) ==
  [first |-> (tid * n) \div thread_number, end |-> ((tid + 1) * n) \div thread_number]

\* In CH_HybridTest INPUT_METHOD is not defined, so it is 0.
Share(tid, n) ==
  CASE program \in Replays       -> Cut(tid, n)
    [] program = "CH_YCSBTest"   -> Rounded(tid, n)
    [] OTHER                     -> [first |-> 0, end |-> n]

\* Mutant: the first round uses the range of the loaded keys.
NewKeyInRange(tid, nth, round) == thread_number * nth + tid + (round \div 2) * key_range

\* The nth key a worker inserts in an even round, and erases in the next.
NewKey(tid, nth, round) == thread_number * nth + tid + (round \div 2 + 1) * key_range

Updates(i)  == UpdateEvery > 0 /\ i % UpdateEvery = 0
Modifies(i) == ~Updates(i) /\ EraseEvery > 0 /\ (i + 1) % EraseEvery = 0

HybridRequest(tid, i) ==
  LET w == worker[tid] IN
  IF Updates(i) THEN [op |-> "update", key |-> loads[i + 1]]
  ELSE IF ~Modifies(i) THEN [op |-> "get", key |-> loads[i + 1]]
  ELSE IF w.round % 2 = 0 THEN [op |-> "insert", key |-> NewKey(tid, w.nth, w.round)]
  ELSE [op |-> "erase", key |-> NewKey(tid, w.nth, w.round)]

Request(tid) ==
  LET i == worker[tid].next IN
  IF phase = "load" THEN [op |-> "set", key |-> loads[i + 1]]
  ELSE CASE program \in Replays       -> runs[i + 1]
         [] program = "CH_YCSBTest"   -> [op |-> "update", key |-> runs[i + 1].key]
         [] program = "CH_HybridTest" -> HybridRequest(tid, i)
         [] program \in Checkers      -> [op |-> worker[tid].op, key |-> loads[i + 1]]

-----------------------------------------------------------------------------
Length == Len(loads)

Started(tid, n, op) ==
  [state |-> IF program \in Timed THEN "head" ELSE "working",
   next |-> Share(tid, n).first, round |-> 0, nth |-> 0, failed |-> FALSE, op |-> op]

\* uniform_int_distribution has both its ends, and FUZZY_BOUND is 0; the keys of
\* zipf_distribution are from 1 to its end.  Two keys stand for those in between.
Generated(n) == [1 .. n -> {0, key_range - 1, key_range}]

\* If there is a ./testfile.dat, its keys are taken, whatever the range they
\* were generated from.  The array comes from calloc and is shuffled, so where
\* the file is too short a 0 can be anywhere.
Reread(n) == [1 .. n -> FileKeys \cup {0}]

\* The keys of a load trace differ, and those of the other are among them.
Trace(n) == [i \in 1 .. n |-> i]

\* con_database of main.cpp starts from an index it does not initialise.
Database(n) == {[i \in 1 .. n - from |-> from + i] : from \in 0 .. n}

Init ==
  /\ program \in Programs /\ thread_number \in 1 .. MaxThreads
  /\ key_range \in IF program = "CH_HybridTest" THEN KeyRanges ELSE {0}
  /\ \E n \in Counts :
       /\ loads \in CASE program = "CH_HybridTest" -> Generated(n) \cup Reread(n)
                      [] program = "main"          -> Database(n)
                      [] OTHER                     -> {Trace(n)}
       /\ runs \in CASE program \in Replays -> [1 .. n -> [op : {"get", "set"}, key : 1 .. n]]
                     [] OTHER -> {[i \in 1 .. n |-> [op |-> "set", key |-> i]]}
  /\ store = {}
  /\ phase = "load"
  /\ worker = IF program \in Replays THEN [tid \in Tids |-> Started(tid, Length, "set")] ELSE <<>>
  /\ stopMeasure = FALSE

\* The threads of the second phase.  main.cpp has one operation for all,
\* hellohash.cpp threads of both kinds.
StartRun ==
  /\ phase' = "run"
  /\ \E ops \in [Tids -> {"get", "set"}] :
       /\ program = "main" => \A s, t \in Tids : ops[s] = ops[t]
       /\ program \notin Checkers => ops = [tid \in Tids |-> "set"]
       /\ worker' = [tid \in Tids |-> Started(tid, Length, ops[tid])]

\* simpleInsert, thread_set(-1) and the loop in hellohash.
LoadAlone ==
  /\ phase = "load" /\ program \notin Replays
  /\ store' = KeysOf(loads)
  /\ StartRun
  /\ UNCHANGED <<setting, stopMeasure>>

To(tid, new) == worker' = [worker EXCEPT ![tid] = new]
Working(tid) == phase \in {"load", "run"} /\ tid \in DOMAIN worker /\ worker[tid].state = "working"
AtEnd(tid)   == worker[tid].next = Share(tid, Length).end

Next1(tid) == [worker[tid] EXCEPT !.next = @ + 1]

\* insert_or_assign.
Set(tid) ==
  /\ Request(tid).op = "set"
  /\ store' = store \cup {Request(tid).key}
  /\ To(tid, Next1(tid))
  /\ UNCHANGED phase

\* find.  ycsb.cpp, main.cpp and hellohash.cpp exit when a key is missing; in
\* CH_HybridTest an exception ends the worker; ycsb_char.cpp does not look.
Get(tid) ==
  /\ Request(tid).op = "get"
  /\ \/ /\ Request(tid).key \in store \/ program = "ycsb_char"
        /\ To(tid, Next1(tid)) /\ UNCHANGED phase
     \/ /\ Request(tid).key \notin store /\ program \in {"ycsb", "main", "hellohash"}
        /\ phase' = "exited" /\ UNCHANGED worker
     \/ /\ Request(tid).key \notin store /\ program = "CH_HybridTest"
        /\ To(tid, [worker[tid] EXCEPT !.state = "aborted"]) /\ UNCHANGED phase
  /\ UNCHANGED store

Update(tid) ==
  /\ Request(tid).op = "update"
  /\ To(tid, [Next1(tid) EXCEPT !.failed = @ \/ Request(tid).key \notin store])
  /\ UNCHANGED <<store, phase>>

Modified(tid, ok) == To(tid, [Next1(tid) EXCEPT !.nth = @ + 1, !.failed = @ \/ ~ok])

Insert(tid) ==
  /\ Request(tid).op = "insert"
  /\ store' = store \cup {Request(tid).key}
  /\ Modified(tid, Request(tid).key \notin store)
  /\ UNCHANGED phase

Erase(tid) ==
  /\ Request(tid).op = "erase"
  /\ store' = store \ {Request(tid).key}
  /\ Modified(tid, Request(tid).key \in store)
  /\ UNCHANGED phase

Serve(tid) ==
  /\ Working(tid) /\ ~AtEnd(tid)
  /\ Set(tid) \/ Get(tid) \/ Update(tid) \/ Insert(tid) \/ Erase(tid)
  /\ UNCHANGED <<setting, stopMeasure>>

\* Mutant: the count goes on over the rounds.
EndRoundCounting(tid) ==
  /\ Working(tid) /\ AtEnd(tid)
  /\ To(tid, IF program \in Timed
             THEN [worker[tid] EXCEPT !.state = "head", !.round = @ + 1]
             ELSE [worker[tid] EXCEPT !.state = "done"])
  /\ UNCHANGED <<setting, store, phase, stopMeasure>>

\* The end of the requests.  Of the two counts of CH_HybridTest only one is
\* used in a round; the other one is 0 then.
EndRound(tid) ==
  /\ Working(tid) /\ AtEnd(tid)
  /\ To(tid, IF program \in Timed
             THEN [worker[tid] EXCEPT !.state = "head", !.round = @ + 1, !.nth = 0]
             ELSE [worker[tid] EXCEPT !.state = "done"])
  /\ UNCHANGED <<setting, store, phase, stopMeasure>>

\* stopMeasure is read before each round.
LookAtTimer(tid) ==
  /\ phase = "run" /\ worker[tid].state = "head"
  /\ \/ stopMeasure /\ To(tid, [worker[tid] EXCEPT !.state = "done"])
     \/ /\ ~stopMeasure /\ worker[tid].round < MaxRounds
        /\ To(tid, [worker[tid] EXCEPT !.state = "working", !.next = Share(tid, Length).first])
  /\ UNCHANGED <<setting, store, phase, stopMeasure>>

StopMeasure ==
  /\ phase = "run" /\ program \in Timed /\ ~stopMeasure
  /\ stopMeasure' = TRUE
  /\ UNCHANGED <<setting, store, phase, worker>>

\* Mutant: a worker that an exception has ended is waited for.
FinishedNormally(tid) == worker[tid].state = "done"

Finished(tid) == worker[tid].state \in {"done", "aborted"}

\* Mutant: the second phase begins when the first thread is joined.
JoinedFirst == worker # <<>> /\ Finished(0)

Joined == worker # <<>> /\ \A tid \in Tids : Finished(tid)

JoinLoad ==
  /\ phase = "load" /\ Joined
  /\ StartRun
  /\ UNCHANGED <<setting, store, stopMeasure>>

JoinRun ==
  /\ phase = "run" /\ Joined /\ (program \in Timed => stopMeasure)
  /\ phase' = "over"
  /\ UNCHANGED <<setting, store, worker, stopMeasure>>

Main == LoadAlone \/ StopMeasure \/ JoinLoad \/ JoinRun
WorkerStep(tid) == Serve(tid) \/ EndRound(tid) \/ LookAtTimer(tid)
Over == phase \in {"over", "exited"}

Next ==
  \/ Main
  \/ \E tid \in Tids : tid \in DOMAIN worker /\ WorkerStep(tid)
  \/ Over /\ UNCHANGED vars

Spec ==
  /\ Init /\ [][Next]_vars
  /\ WF_vars(Main)
  /\ \A tid \in 0 .. MaxThreads - 1 : WF_vars(tid \in DOMAIN worker /\ WorkerStep(tid))

-----------------------------------------------------------------------------
\* A program ends by exit(-1) only if requests were left over in the division
\* among its threads: what one phase has loaded is there in the next, whatever
\* the threads do beside each other.
ExitsOnlyByRest == phase = "exited" => program = "ycsb" /\ Length % thread_number # 0

\* The loaded keys that workers may insert and erase again: key_range itself,
\* which the distribution has as its end, and what a file of another run holds.
Beyond == {k \in KeysOf(loads) : k >= key_range}

\* A worker of CH_HybridTest is ended by an exception only if such a key was
\* loaded: nobody erases the others, whatever round each of the workers is in.
AbortsOnlyBeyondRange ==
  \A tid \in DOMAIN worker : worker[tid].state = "aborted" => Beyond # {}

\* How many keys a worker inserts in a round.
PerRound == Cardinality({i \in 0 .. Length - 1 : Modifies(i)})

\* Otherwise, unless a round of all threads needs more keys than key_range,
\* the keys of different workers and rounds differ, and no modification fails:
\* what a worker erases it has inserted, wherever the other workers are.
ModificationsSucceed ==
  program = "CH_HybridTest" /\ Beyond = {} /\ thread_number * PerRound <= key_range
    => \A tid \in DOMAIN worker : ~worker[tid].failed

\* Every program comes to its end: the timer reaches all workers, whatever
\* round they are in, and a worker that was ended is joined like the others.
ProgramsEnd == <>Over
=============================================================================
