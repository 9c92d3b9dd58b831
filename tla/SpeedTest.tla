------------------------------ MODULE SpeedTest ------------------------------
(***************************************************************************)
(* The choice of mirrors in final/client/ServerSide: search_getspeeds        *)
(* measures the mirrors that search_makelist has listed, a few threads at a  *)
(* time, and text.c hands the fastest of them to ServerSide_new.  The main   *)
(* thread and the measuring threads share the results without a lock.        *)
(***************************************************************************)
EXTENDS Integers, Sequences, FiniteSets

CONSTANTS MaxMirrors,   \* search_amount
          MaxThreads,   \* search_threads
          Top,          \* search_top
          Times         \* speeds a measurement may give

ASSUME SpeedAssumption ==
    /\ {MaxMirrors, MaxThreads, Top} \subseteq Nat \ {0}
    /\ Times # {} /\ Times \subseteq Nat \ {0}

ACTIVE == -1
ERROR == -2
DONE == -3

VARIABLES count,     \* mirrors listed
          verbose,   \* conf->verbose
          speed,     \* speed of each result
          started,   \* its speed_start_time is not zero
          thread,    \* what its thread does
          at, running, done, correct,   \* locals of search_getspeeds
          phase,     \* where the main thread is
          usable,    \* what search_getspeeds returned
          chosen,    \* the mirrors handed to ServerSide_new, in order
          late       \* those whose thread wrote a result that had been settled

locals == <<at, running, done, correct>>
result == <<speed, started, thread>>
vars == <<count, verbose, result, locals, phase, usable, chosen, late>>

Mirrors == 1 .. count
Speeds == Times \cup {0, ACTIVE, ERROR, DONE}

\* search_makelist measures the first mirror itself; search_getspeeds counts it
Init ==
    /\ count \in 1 .. MaxMirrors /\ verbose \in BOOLEAN
    /\ \E t \in Times : speed = [i \in Mirrors |-> IF i = 1 THEN t ELSE 0]
    /\ started = [i \in Mirrors |-> FALSE]
    /\ thread = [i \in Mirrors |-> "none"]
    /\ at = 1 /\ running = 0 /\ done = 1 /\ correct = 1
    /\ phase = "scan" /\ usable = 0 /\ chosen = <<>> /\ late = {}

Setup == UNCHANGED <<count, verbose>>
Chosen == UNCHANGED <<usable, chosen>>

(***************************************************************************)
(* search_getspeeds: one step is the body of its for loop for one result;   *)
(* a branch that breaks starts the scan anew.                               *)
(***************************************************************************)
Scanning == phase = "scan" /\ done < count /\ at <= count
Rescan == at' = 1
Retire(i) == running' = running - 1 /\ done' = done + 1 /\ Rescan

Start(i) ==
    /\ Scanning /\ at = i /\ running < MaxThreads /\ speed[i] = 0
    /\ speed' = [speed EXCEPT ![i] = ACTIVE]
    /\ started' = [started EXCEPT ![i] = TRUE]
    /\ thread' = [thread EXCEPT ![i] = "testing"]
    /\ running' = running + 1 /\ Rescan
    /\ Setup /\ Chosen /\ UNCHANGED <<done, correct, phase, late>>

\* pthread_create fails: the threads that run are left alone
StartFails(i) ==
    /\ Scanning /\ at = i /\ running < MaxThreads /\ speed[i] = 0
    /\ speed' = [speed EXCEPT ![i] = ACTIVE]
    /\ started' = [started EXCEPT ![i] = TRUE]
    /\ phase' = "sort" /\ usable' = 0
    /\ Setup /\ UNCHANGED <<thread, locals, chosen, late>>

\* search_timeout has passed; the thread may have written its result since
Cancel(i) ==
    /\ Scanning /\ at = i /\ speed[i] = ACTIVE
    /\ thread' = [thread EXCEPT ![i] = IF @ = "testing" THEN "cancelled" ELSE @]
    /\ phase' = "cancelled"
    /\ Setup /\ Chosen /\ UNCHANGED <<speed, started, locals, late>>

CancelDone(i) ==
    /\ phase = "cancelled" /\ at = i /\ phase' = "scan"
    /\ speed' = [speed EXCEPT ![i] = DONE] /\ Retire(i)
    /\ Setup /\ Chosen /\ UNCHANGED <<started, thread, correct, late>>

CollectStillStarted(i) ==
    /\ Scanning /\ at = i /\ speed[i] > 0 /\ started[i]
    /\ correct' = correct + 1 /\ Retire(i)
    /\ Setup /\ Chosen /\ UNCHANGED <<speed, started, thread, phase, late>>

Collect(i) ==
    /\ Scanning /\ at = i /\ speed[i] > 0 /\ started[i]
    /\ started' = [started EXCEPT ![i] = FALSE]
    /\ correct' = correct + 1 /\ Retire(i)
    /\ Setup /\ Chosen /\ UNCHANGED <<speed, thread, phase, late>>

CollectErrorUncounted(i) ==
    /\ Scanning /\ at = i /\ speed[i] = ERROR
    /\ speed' = [speed EXCEPT ![i] = DONE] /\ running' = running - 1 /\ Rescan
    /\ Setup /\ Chosen /\ UNCHANGED <<started, thread, done, correct, phase, late>>

CollectError(i) ==
    /\ Scanning /\ at = i /\ speed[i] = ERROR
    /\ speed' = [speed EXCEPT ![i] = DONE] /\ Retire(i)
    /\ Setup /\ Chosen /\ UNCHANGED <<started, thread, correct, phase, late>>

\* none of the branches: the next result, and after the last one a sleep
Pass(i) ==
    /\ Scanning /\ at = i
    /\ \/ speed[i] \in {ACTIVE, DONE}
       \/ speed[i] = 0 /\ running >= MaxThreads
       \/ speed[i] > 0 /\ ~started[i]
    /\ at' = IF i = count THEN 1 ELSE i + 1
    /\ Setup /\ Chosen /\ UNCHANGED <<result, running, done, correct, phase, late>>

Return ==
    /\ phase = "scan" /\ done >= count /\ phase' = "sort" /\ usable' = correct
    /\ Setup /\ UNCHANGED <<result, locals, chosen, late>>

(***************************************************************************)
(* search_speedtest: a thread writes its result once; one that has been      *)
(* cancelled may be past the point where the request would stop it.         *)
(***************************************************************************)
Measure(i) ==
    /\ thread[i] \in {"testing", "cancelled"} /\ phase # "chosen"
    /\ thread' = [thread EXCEPT ![i] = "ended"]
    /\ \E v \in Times \cup {ERROR} : speed' = [speed EXCEPT ![i] = v]
    /\ late' = IF phase = "sort" \/ (thread[i] = "cancelled" /\ speed[i] # ACTIVE)
               THEN late \cup {i} ELSE late
    /\ Setup /\ Chosen /\ UNCHANGED <<started, locals, phase>>

CancelActs(i) ==
    /\ thread[i] = "cancelled" /\ thread' = [thread EXCEPT ![i] = "ended"]
    /\ Setup /\ Chosen /\ UNCHANGED <<speed, started, locals, phase, late>>

(***************************************************************************)
(* search_sortlist and text.c.  search_sortlist_qsort puts a negative speed  *)
(* after a positive one and else the smaller first; with a zero, a positive  *)
(* and a negative speed it is no order, and qsort may leave any.             *)
(***************************************************************************)
SortedBySpeed(q) ==
    \A j, k \in 1 .. Len(q) : j < k => speed[q[j]] <= speed[q[k]]

Sorted(q) ==
    \A j, k \in 1 .. Len(q) : j < k =>
        LET a == speed[q[j]]  b == speed[q[k]]
        IN  /\ ~(a < 0 /\ b > 0)
            /\ a <= b \/ (a > 0 /\ b < 0)

IsOrder == ~\E i, j, k \in Mirrors : speed[i] = 0 /\ speed[j] > 0 /\ speed[k] < 0

Orders == {q \in [Mirrors -> Mirrors] :
              \A i \in Mirrors : \E k \in Mirrors : q[k] = i}

\* the limit search_top is applied only when the list is printed; a list of
\* none is taken as the string it starts with, the first mirror's URL
Choose ==
    /\ phase = "sort" /\ phase' = "chosen"
    /\ \E q \in Orders :
          /\ IsOrder => Sorted(q)
          /\ LET n == IF verbose /\ usable > Top THEN Top ELSE usable
             IN  chosen' = SubSeq(q, 1, IF n = 0 THEN 1 ELSE n)
    /\ Setup /\ UNCHANGED <<result, locals, usable, late>>

Scan == \E i \in Mirrors :
           \/ Start(i) \/ CancelDone(i) \/ Collect(i) \/ CollectError(i) \/ Pass(i)

Next == \/ Scan \/ Return \/ Choose
        \/ \E i \in Mirrors :
              StartFails(i) \/ Cancel(i) \/ Measure(i) \/ CancelActs(i)

Spec == Init /\ [][Next]_vars

(***************************************************************************)
(* Fairness: the main thread runs, and a measurement that goes on for ever   *)
(* passes its time limit.  The measuring threads need not answer at all.    *)
(***************************************************************************)
FairSpec == /\ Spec /\ WF_vars(Scan \/ Return \/ Choose)
            /\ \A i \in 1 .. MaxMirrors : SF_vars(i <= count /\ Cancel(i))

\* results being measured, settled, and found usable
Measured == {i \in Mirrors : started[i] /\ speed[i] # DONE}
Settled == {i \in Mirrors : speed[i] # 0 /\ i \notin Measured}
Usable == {i \in Mirrors : speed[i] > 0 /\ ~started[i]}

\* The variables have their types.
TypeOK ==
    /\ count \in 1 .. MaxMirrors /\ verbose \in BOOLEAN
    /\ speed \in [Mirrors -> Speeds] /\ started \in [Mirrors -> BOOLEAN]
    /\ thread \in [Mirrors -> {"none", "testing", "cancelled", "ended"}]
    /\ at \in Mirrors /\ {running, done, correct} \subseteq Int
    /\ phase \in {"scan", "cancelled", "sort", "chosen"}
    /\ usable \in Int /\ chosen \in Seq(Mirrors) /\ late \subseteq Mirrors

\* search_getspeeds counts each result once, although a thread writes its result at
\* any time, but for those whose threads write after their cancellation was counted
\* (search.c:175): each of these is counted as done once too often and as running
\* once too seldom, for good, and none of them is counted as usable before its
\* second turn.
CountersAgree ==
    phase = "scan" =>
        /\ running + Cardinality(late) = Cardinality(Measured)
        /\ done = Cardinality(Settled) + Cardinality(late)
        /\ correct = Cardinality(Usable) /\ running <= MaxThreads

\* Every mirror the download is given has answered, and no usable one that is
\* left out is faster (text.c takes the first of the sorted list), unless a thread
\* wrote late.
FastestChosen ==
    phase = "chosen" /\ late = {} /\ usable > 0 =>
        LET used == {chosen[k] : k \in DOMAIN chosen}
        IN  \A i \in used : /\ speed[i] > 0
                            /\ \A j \in Mirrors \ used :
                                  speed[j] > 0 => speed[i] <= speed[j]

\* The choice ends, whatever the mirrors do.
ChoiceEnds == <>(phase = "chosen")
=============================================================================
