--------------------------- MODULE ProgramsProofs ---------------------------
(***************************************************************************)
(* Theorems about the small programs, alone and in the specification that    *)
(* runs one of them at a time: the choice of mirrors, for any number of       *)
(* mirrors, threads and speeds and every interleaving; the UDP upload, for    *)
(* every size of the file and the buffer; and, from the invariants of         *)
(* PieceCountProofs and FtpDialogueProofs, what MCPrograms says of the other  *)
(* two.                                                                    *)
(***************************************************************************)
EXTENDS MCPrograms, FiniteSetTheorems, SequenceTheorems, TLAPS

CP == INSTANCE PieceCountProofs
FP == INSTANCE FtpDialogueProofs

-----------------------------------------------------------------------------
(* The choice of mirrors: the types, the three counters, and that the fastest *)
(* mirrors are chosen.                                                      *)

\* Sets of mirrors are finite, and one more or one less counts as one.
LEMMA MirrorSets ==
  ASSUME count \in Nat, NEW S \in SUBSET Mirrors
  PROVE  /\ IsFiniteSet(S) /\ Cardinality(S) \in 0 .. count
         /\ \A i \in S : Cardinality(S \ {i}) = Cardinality(S) - 1
         /\ \A i \in Mirrors \ S : Cardinality(S \cup {i}) = Cardinality(S) + 1
<1>1. IsFiniteSet(Mirrors) /\ Cardinality(Mirrors) = count
  BY FS_Interval DEF Mirrors
<1>2. IsFiniteSet(S) /\ Cardinality(S) <= count
  BY <1>1, FS_Subset
<1>3. Cardinality(S) \in Nat
  BY <1>2, FS_CardinalityType
<1>4. QED
  BY <1>2, <1>3, FS_AddElement, FS_RemoveElement

\* The marks are negative, what is measured is positive.
LEMMA SpeedFacts ==
  /\ ACTIVE = -1 /\ ERROR = -2 /\ DONE = -3
  /\ \A t \in Times : t \in Int /\ t > 0
  /\ MaxMirrors \in Nat \ {0} /\ MaxThreads \in Nat \ {0} /\ Top \in Nat \ {0}
  BY SpeedAssumption DEF ACTIVE, ERROR, DONE
-----------------------------------------------------------------------------
(* What holds even after a late write: a thread at work is one whose result *)
(* has been started, and correct counts the usable results.                *)

CorrectInv ==
  /\ \A i \in Mirrors : thread[i] \in {"testing", "cancelled"} =>
                           started[i] /\ speed[i] \in {ACTIVE, DONE}
  /\ \A i \in Mirrors : speed[i] \in {ACTIVE, ERROR} => started[i]
  /\ \A i \in Mirrors : speed[i] = 0 => ~started[i]
  /\ phase = "cancelled" => started[at]
  /\ correct = Cardinality(Usable)
  /\ usable \in 0 .. count

Base == TypeOK /\ CorrectInv

\* In the first state the first mirror has been measured, and counted.
LEMMA BaseInit == Init => Base
<1> SUFFICES ASSUME Init PROVE Base
  OBVIOUS
<1>1. PICK t \in Times : speed = [i \in Mirrors |-> IF i = 1 THEN t ELSE 0]
  BY DEF Init
<1>2. count \in 1 .. MaxMirrors /\ 1 \in Mirrors /\ Mirrors = 1 .. count /\ count \in Nat
  BY SpeedFacts DEF Init, Mirrors
<1>3. speed \in [Mirrors -> Speeds]
  BY <1>1 DEF Speeds
<1>4. TypeOK
  <2>1. chosen \in Seq(Mirrors)
    BY DEF Init
  <2>2. {running, done, correct} \subseteq Int /\ usable \in Int
    BY DEF Init
  <2>3. QED
    BY <1>2, <1>3, <2>1, <2>2 DEF Init, TypeOK
<1>5. Usable = {1}
  BY <1>1, <1>2, SpeedFacts DEF Init, Usable
<1>6. Cardinality({1}) = 1
  BY FS_Singleton
<1>7. CorrectInv
  BY <1>1, <1>2, <1>5, <1>6, SpeedFacts DEF Init, CorrectInv
<1>8. QED
  BY <1>4, <1>7 DEF Base

\* Facts about the state that every step needs.
LEMMA BaseFacts ==
  ASSUME Base
  PROVE  /\ count \in Nat \ {0} /\ 1 \in Mirrors /\ at \in Mirrors /\ Mirrors = 1 .. count
         /\ speed \in [Mirrors -> Speeds] /\ started \in [Mirrors -> BOOLEAN]
         /\ \A i \in Mirrors : speed[i] \in Int
         /\ running \in Int /\ done \in Int /\ correct \in Int /\ usable \in Int
<1>1. count \in Nat \ {0} /\ 1 \in Mirrors
  BY SpeedFacts DEF Base, TypeOK, Mirrors
<1>2. \A v \in Speeds : v \in Int
  BY SpeedFacts DEF Speeds
<1>3. QED
  BY <1>1, <1>2 DEF Base, TypeOK, Mirrors

\* A step that changes no result.
LEMMA BaseUntouched ==
  ASSUME Base, UNCHANGED <<count, verbose, speed, started, correct>>,
         usable' \in 0 .. count, chosen' \in Seq(Mirrors),
         running' \in Int, done' \in Int, at' \in Mirrors, late' \subseteq Mirrors,
         thread' \in [Mirrors -> {"none", "testing", "cancelled", "ended"}],
         \A i \in Mirrors : thread'[i] \in {"testing", "cancelled"}
                             => thread[i] \in {"testing", "cancelled"},
         phase' \in {"scan", "cancelled", "sort", "chosen"},
         phase' = "cancelled" => started[at']
  PROVE  Base'
<1>1. Mirrors' = Mirrors /\ Usable' = Usable
  BY DEF Mirrors, Usable
<1>2. TypeOK'
  BY <1>1, BaseFacts DEF Base, TypeOK
<1>3. CorrectInv'
  BY <1>1 DEF Base, CorrectInv
<1>4. QED
  BY <1>2, <1>3 DEF Base

\* A step that gives mirror i another result and leaves usable ones alone.
LEMMA BaseResult ==
  ASSUME Base, NEW i \in Mirrors, NEW v \in Speeds,
         UNCHANGED <<count, verbose, correct, chosen>>,
         speed' = [speed EXCEPT ![i] = v], v # 0,
         started' = [started EXCEPT ![i] = TRUE],
         speed[i] = 0 \/ started[i],
         running' \in Int, done' \in Int, at' \in Mirrors, late' \subseteq Mirrors,
         thread' \in [Mirrors -> {"none", "testing", "cancelled", "ended"}],
         \A j \in Mirrors : j # i /\ thread'[j] \in {"testing", "cancelled"}
                             => thread[j] \in {"testing", "cancelled"},
         thread'[i] \in {"testing", "cancelled"} => v \in {ACTIVE, DONE},
         phase' \in {"scan", "cancelled", "sort", "chosen"},
         phase' = "cancelled" => phase = "cancelled" /\ at' = at,
         usable' \in 0 .. count
  PROVE  Base'
<1>1. Mirrors' = Mirrors
  BY DEF Mirrors
<1>2. \A j \in Mirrors : j # i => speed'[j] = speed[j] /\ started'[j] = started[j]
  BY BaseFacts
<1>3. speed'[i] = v /\ started'[i]
  BY BaseFacts
<1>4. Usable' = Usable
  <2>1. i \notin Usable /\ i \notin Usable'
    BY <1>1, <1>3 DEF Usable
  <2>2. \A j \in Mirrors : j # i => (j \in Usable' <=> j \in Usable)
    BY <1>1, <1>2 DEF Usable
  <2>3. Usable \subseteq Mirrors /\ Usable' \subseteq Mirrors
    BY <1>1 DEF Usable
  <2>4. QED
    BY <2>1, <2>2, <2>3
<1>5. speed' \in [Mirrors -> Speeds] /\ started' \in [Mirrors -> BOOLEAN]
  BY BaseFacts
<1>6. TypeOK'
  <2>1. usable' \in Int /\ {running', done', correct'} \subseteq Int
    BY BaseFacts
  <2>2. chosen' \in Seq(Mirrors') /\ count' \in 1 .. MaxMirrors /\ verbose' \in BOOLEAN
    BY <1>1 DEF Base, TypeOK
  <2>3. QED
    BY <1>1, <1>5, <2>1, <2>2 DEF TypeOK
<1>7. CorrectInv'
  <2>1. \A j \in Mirrors : thread'[j] \in {"testing", "cancelled"} =>
                                started'[j] /\ speed'[j] \in {ACTIVE, DONE}
    BY <1>2, <1>3 DEF Base, CorrectInv
  <2>2. \A j \in Mirrors : speed'[j] \in {ACTIVE, ERROR} => started'[j]
    BY <1>2, <1>3 DEF Base, CorrectInv
  <2>3. \A j \in Mirrors : speed'[j] = 0 => ~started'[j]
    BY <1>2, <1>3 DEF Base, CorrectInv
  <2>4. phase' = "cancelled" => started'[at']
    BY <1>2, <1>3, BaseFacts DEF Base, CorrectInv
  <2>5. correct' = Cardinality(Usable')
    BY <1>4 DEF Base, CorrectInv
  <2>6. usable' \in 0 .. count'
    OBVIOUS
  <2>7. QED
    BY <1>1, <2>1, <2>2, <2>3, <2>4, <2>5, <2>6 DEF CorrectInv
<1>8. QED
  BY <1>6, <1>7 DEF Base

\* The steps of the scan that settle or start a result.
LEMMA BaseScan ==
  ASSUME Base, NEW i \in Mirrors, Start(i) \/ CancelDone(i) \/ CollectError(i)
  PROVE  Base'
<1>1. /\ usable' \in 0 .. count /\ late' \subseteq Mirrors /\ ACTIVE \in Speeds /\ DONE \in Speeds
      /\ 1 \in Mirrors /\ running - 1 \in Int /\ running + 1 \in Int /\ done + 1 \in Int
      /\ thread \in [Mirrors -> {"none", "testing", "cancelled", "ended"}]
      /\ phase \in {"scan", "cancelled", "sort", "chosen"}
  <2>1. usable' = usable /\ late' = late
    BY DEF Start, CancelDone, CollectError, Chosen
  <2>2. usable \in 0 .. count /\ late \subseteq Mirrors
    BY DEF Base, TypeOK, CorrectInv
  <2>3. ACTIVE \in Speeds /\ DONE \in Speeds
    BY DEF Speeds
  <2>4. 1 \in Mirrors /\ running - 1 \in Int /\ running + 1 \in Int /\ done + 1 \in Int
    BY BaseFacts
  <2>5. QED
    BY <2>1, <2>2, <2>3, <2>4 DEF Base, TypeOK
<1>2. CASE Start(i)
  <2>1. /\ speed[i] = 0 /\ speed' = [speed EXCEPT ![i] = ACTIVE]
        /\ started' = [started EXCEPT ![i] = TRUE]
        /\ thread' = [thread EXCEPT ![i] = "testing"]
        /\ running' = running + 1 /\ at' = 1 /\ phase = "scan"
        /\ UNCHANGED <<count, verbose, chosen, done, correct, phase>>
    BY <1>2 DEF Start, Scanning, Rescan, Setup, Chosen
  <2>2. /\ running' \in Int /\ done' \in Int /\ at' \in Mirrors
        /\ thread' \in [Mirrors -> {"none", "testing", "cancelled", "ended"}]
        /\ \A j \in Mirrors : j # i => thread'[j] = thread[j]
        /\ ACTIVE \in Speeds /\ ACTIVE # 0
    BY <1>1, <2>1, BaseFacts, SpeedFacts
  <2>3. QED
    BY <1>1, <2>1, <2>2, BaseResult
<1>3. CASE CancelDone(i) \/ CollectError(i)
  <2>1. /\ started[i] /\ speed' = [speed EXCEPT ![i] = DONE]
        /\ UNCHANGED <<count, verbose, chosen, correct, thread, started>>
        /\ running' = running - 1 /\ done' = done + 1 /\ at' = 1 /\ phase' = "scan"
    BY <1>3 DEF CancelDone, CollectError, Scanning, Retire, Rescan, Setup, Chosen, Base, CorrectInv
  <2>2. started' = [started EXCEPT ![i] = TRUE]
    BY <2>1, BaseFacts
  <2>3. /\ running' \in Int /\ done' \in Int /\ at' \in Mirrors
        /\ thread' \in [Mirrors -> {"none", "testing", "cancelled", "ended"}]
        /\ DONE \in Speeds /\ DONE # 0
    BY <1>1, <2>1, BaseFacts, SpeedFacts
  <2>4. QED
    BY <1>1, <2>1, <2>2, <2>3, BaseResult
<1>4. QED
  BY <1>2, <1>3

\* A collected result is one more usable one.
LEMMA BaseCollect ==
  ASSUME Base, NEW i \in Mirrors, Collect(i)
  PROVE  Base' /\ Usable' = Usable \cup {i} /\ i \notin Usable
<1>1. /\ speed[i] > 0 /\ started[i] /\ started' = [started EXCEPT ![i] = FALSE]
      /\ correct' = correct + 1 /\ running' = running - 1 /\ done' = done + 1 /\ at' = 1
      /\ phase = "scan" /\ UNCHANGED <<count, verbose, usable, chosen, speed, thread, phase, late>>
  BY DEF Collect, Scanning, Retire, Rescan, Setup, Chosen
<1>2. Mirrors' = Mirrors
  BY <1>1 DEF Mirrors
<1>3. \A j \in Mirrors : j # i => started'[j] = started[j]
  BY <1>1, BaseFacts
<1>4. ~started'[i] /\ started' \in [Mirrors -> BOOLEAN]
  BY <1>1, BaseFacts
<1>5. Usable' = Usable \cup {i} /\ i \notin Usable
  <2>1. i \notin Usable /\ i \in Usable'
    BY <1>1, <1>2, <1>4 DEF Usable
  <2>2. \A j \in Mirrors : j # i => (j \in Usable' <=> j \in Usable)
    BY <1>1, <1>2, <1>3 DEF Usable
  <2>3. Usable \subseteq Mirrors /\ Usable' \subseteq Mirrors
    BY <1>2 DEF Usable
  <2>4. QED
    BY <2>1, <2>2, <2>3
<1>6. TypeOK'
  <2>1. {running', done', correct'} \subseteq Int /\ usable' \in Int
    BY <1>1, BaseFacts
  <2>2. QED
    BY <1>1, <1>2, <1>4, <2>1, BaseFacts DEF Base, TypeOK
<1>7. CorrectInv'
  <2>1. thread[i] \notin {"testing", "cancelled"} /\ speed[i] \notin {ACTIVE, ERROR}
    BY <1>1, SpeedFacts DEF Base, CorrectInv
  <2>2. /\ \A j \in Mirrors : thread'[j] \in {"testing", "cancelled"} =>
                               started'[j] /\ speed'[j] \in {ACTIVE, DONE}
        /\ \A j \in Mirrors : speed'[j] \in {ACTIVE, ERROR} => started'[j]
        /\ \A j \in Mirrors : speed'[j] = 0 => ~started'[j]
    BY <1>1, <1>3, <2>1 DEF Base, CorrectInv
  <2>3. correct' = Cardinality(Usable')
    <3>1. Usable \in SUBSET Mirrors /\ i \in Mirrors \ Usable
      BY <1>5 DEF Usable
    <3>2. Cardinality(Usable \cup {i}) = Cardinality(Usable) + 1
      BY <3>1, MirrorSets, BaseFacts
    <3>3. QED
      BY <1>1, <1>5, <3>2 DEF Base, CorrectInv
  <2>4. usable' \in 0 .. count' /\ phase' # "cancelled"
    BY <1>1 DEF Base, CorrectInv
  <2>5. QED
    BY <1>2, <2>2, <2>3, <2>4 DEF CorrectInv
<1>8. QED
  BY <1>5, <1>6, <1>7 DEF Base

\* The steps of the main thread that leave the results alone.
LEMMA BaseMain ==
  ASSUME Base, NEW i \in Mirrors, Cancel(i) \/ Pass(i) \/ Return \/ CancelActs(i)
  PROVE  Base'
<1>1. UNCHANGED <<count, verbose, speed, started, correct, chosen>>
  BY DEF Cancel, Pass, Return, CancelActs, Setup, Chosen, result, locals
<1>2. running' \in Int /\ done' \in Int /\ late' \subseteq Mirrors
  BY BaseFacts DEF Cancel, Pass, Return, CancelActs, result, locals, Base, TypeOK
<1>3. at' \in Mirrors
  <2>1. CASE Pass(i)
    BY <2>1, BaseFacts DEF Pass
  <2>2. QED
    BY <2>1, BaseFacts DEF Cancel, Return, CancelActs, locals
<1>4. usable' \in 0 .. count
  <2>1. CASE Return
    <3>1. Usable \in SUBSET Mirrors
      BY DEF Usable
    <3>2. QED
      BY <2>1, <3>1, MirrorSets, BaseFacts DEF Return, Base, CorrectInv
  <2>2. QED
    BY <2>1 DEF Cancel, Pass, CancelActs, Chosen, Base, CorrectInv
<1>5. /\ thread' \in [Mirrors -> {"none", "testing", "cancelled", "ended"}]
      /\ \A j \in Mirrors : thread'[j] \in {"testing", "cancelled"}
                             => thread[j] \in {"testing", "cancelled"}
  <2>1. thread \in [Mirrors -> {"none", "testing", "cancelled", "ended"}]
    BY DEF Base, TypeOK
  <2>2. CASE Cancel(i)
    BY <2>1, <2>2 DEF Cancel
  <2>3. CASE CancelActs(i)
    BY <2>1, <2>3 DEF CancelActs
  <2>4. QED
    BY <2>1, <2>2, <2>3 DEF Pass, Return, result
<1>6. phase' \in {"scan", "cancelled", "sort", "chosen"}
  BY DEF Cancel, Pass, Return, CancelActs, Base, TypeOK
<1>7. phase' = "cancelled" => started[at']
  BY DEF Cancel, Scanning, Pass, Return, CancelActs, locals, Base, CorrectInv
<1>8. chosen' \in Seq(Mirrors)
  BY <1>1 DEF Base, TypeOK
<1>9. QED
  BY <1>1, <1>2, <1>3, <1>4, <1>5, <1>6, <1>7, <1>8, BaseUntouched

\* A thread that writes its result, on time or late, makes none usable.
LEMMA BaseWritten ==
  ASSUME Base, NEW i \in Mirrors, Measure(i) \/ StartFails(i)
  PROVE  Base'
<1>1. /\ thread \in [Mirrors -> {"none", "testing", "cancelled", "ended"}]
      /\ phase \in {"scan", "cancelled", "sort", "chosen"} /\ late \subseteq Mirrors
  BY DEF Base, TypeOK
<1>2. CASE Measure(i)
  <2>1. PICK v \in Times \cup {ERROR} : speed' = [speed EXCEPT ![i] = v]
    BY <1>2 DEF Measure
  <2>2. /\ thread[i] \in {"testing", "cancelled"} /\ thread' = [thread EXCEPT ![i] = "ended"]
        /\ UNCHANGED <<count, verbose, chosen, usable, started, at, running, done, correct, phase>>
        /\ late' \subseteq Mirrors
    BY <1>1, <1>2 DEF Measure, Setup, Chosen, locals
  <2>3. started[i] /\ started' = [started EXCEPT ![i] = TRUE]
    BY <2>2, BaseFacts DEF Base, CorrectInv
  <2>4. v \in Speeds /\ v # 0 /\ usable' \in 0 .. count
    BY <2>1, <2>2, SpeedFacts DEF Speeds, Base, CorrectInv
  <2>5. /\ running' \in Int /\ done' \in Int /\ at' \in Mirrors /\ at' = at /\ phase' = phase
        /\ thread' \in [Mirrors -> {"none", "testing", "cancelled", "ended"}]
        /\ \A j \in Mirrors : j # i => thread'[j] = thread[j]
        /\ thread'[i] = "ended"
    BY <1>1, <2>2, BaseFacts
  <2>6. QED
    BY <1>1, <2>1, <2>2, <2>3, <2>4, <2>5, BaseResult
<1>3. CASE StartFails(i)
  <2>1. /\ speed[i] = 0 /\ speed' = [speed EXCEPT ![i] = ACTIVE]
        /\ started' = [started EXCEPT ![i] = TRUE]
        /\ UNCHANGED <<count, verbose, chosen, thread, at, running, done, correct, late>>
        /\ usable' = 0 /\ phase' = "sort"
    BY <1>3 DEF StartFails, Setup, locals
  <2>2. /\ running' \in Int /\ done' \in Int /\ at' \in Mirrors /\ usable' \in 0 .. count
        /\ ACTIVE \in Speeds /\ ACTIVE # 0 /\ ACTIVE \in {ACTIVE, DONE}
        /\ thread' \in [Mirrors -> {"none", "testing", "cancelled", "ended"}]
        /\ late' \subseteq Mirrors
    BY <1>1, <2>1, BaseFacts, SpeedFacts DEF Speeds
  <2>3. QED
    BY <1>1, <2>1, <2>2, BaseResult
<1>4. QED
  BY <1>2, <1>3

\* What is chosen are mirrors.
LEMMA BaseChoose ==
  ASSUME Base, Choose
  PROVE  Base'
<1>1. PICK q \in Orders :
        chosen' = SubSeq(q, 1, LET n == IF verbose /\ usable > Top THEN Top ELSE usable
                               IN IF n = 0 THEN 1 ELSE n)
  BY DEF Choose
<1> DEFINE n == IF verbose /\ usable > Top THEN Top ELSE usable
           m == IF n = 0 THEN 1 ELSE n
<1>2. q \in [1 .. count -> Mirrors] /\ count \in Nat \ {0}
  BY BaseFacts DEF Orders
<1>3. q \in Seq(Mirrors) /\ Len(q) = count
  BY <1>2, SeqDef, LenProperties
<1>4. m \in 1 .. count
  BY <1>2, SpeedFacts DEF Base, CorrectInv
<1>5. SubSeq(q, 1, m) \in Seq(Mirrors)
  <2> HIDE DEF m
  <2>1. \A j \in 1 .. m : q[j] \in Mirrors
    BY <1>2, <1>4
  <2>2. QED
    BY <1>3, <1>4, <2>1, SubSeqProperties
<1>6. chosen' \in Seq(Mirrors)
  BY <1>1, <1>5
<1>7. UNCHANGED <<count, verbose, result, locals, usable, late>> /\ phase' = "chosen"
  BY DEF Choose, Setup
<1>8. QED
  BY <1>6, <1>7, BaseFacts, BaseUntouched DEF result, locals, Base, TypeOK, CorrectInv

\* Every step keeps the types and the tie of threads to results.
LEMMA BaseStep == Base /\ [Next]_vars => Base'
<1> SUFFICES ASSUME Base, [Next]_vars PROVE Base'
  OBVIOUS
<1>1. CASE \E i \in Mirrors : \/ Start(i) \/ CancelDone(i) \/ CollectError(i) \/ Collect(i) \/ Pass(i)
                             \/ StartFails(i) \/ Cancel(i) \/ Measure(i) \/ CancelActs(i)
  BY <1>1, BaseScan, BaseCollect, BaseMain, BaseWritten
<1>2. CASE Return
  BY <1>2, BaseMain, BaseFacts
<1>3. CASE Choose
  BY <1>3, BaseChoose
<1>4. CASE UNCHANGED vars
  BY <1>4, BaseFacts, BaseUntouched
     DEF vars, result, locals, Base, TypeOK, CorrectInv
<1>5. QED
  BY <1>1, <1>2, <1>3, <1>4 DEF Next, Scan

\* The variables keep their types: in particular the list handed to the download
\* names mirrors only, also after a thread has written its result late.
THEOREM ChoiceTypeCorrect == Spec => []TypeOK
<1>1. Base => TypeOK
  BY DEF Base
<1>2. QED
  BY <1>1, BaseInit, BaseStep, PTL DEF Spec
-----------------------------------------------------------------------------
(* The counters.  They agree with the results but for those that are written  *)
(* late, each by a thread that has ended then; while the main thread is       *)
(* between the cancellation of a thread and its bookkeeping, that result       *)
(* still counts as measured.                                                *)

Tight ==
  /\ running + Cardinality(late) = Cardinality(Measured) /\ running <= MaxThreads
  /\ done = Cardinality(Settled) + Cardinality(late)
  /\ phase = "cancelled" => speed[at] # DONE

\* A thread at work has not been cancelled, and its result is still to come; one that
\* has written late is at its end.
Working ==
  /\ \A i \in Mirrors : thread[i] = "testing" => /\ speed[i] = ACTIVE
                                                 /\ phase = "cancelled" => at # i
  /\ \A i \in late : thread[i] = "ended" /\ speed[i] # 0

CountersInv ==
  /\ Base
  /\ phase \in {"scan", "cancelled"} => Tight /\ Working

\* The counters agree at the start.
LEMMA CountersInit == Init => CountersInv
<1> SUFFICES ASSUME Init PROVE CountersInv
  OBVIOUS
<1>1. Base
  BY BaseInit
<1>2. PICK t \in Times : speed = [i \in Mirrors |-> IF i = 1 THEN t ELSE 0]
  BY DEF Init
<1>3. \A i \in Mirrors : started[i] = FALSE /\ thread[i] = "none"
  BY DEF Init
<1>4. Measured = {}
  BY <1>3 DEF Measured
<1>5. Settled = {1}
  BY <1>1, <1>2, <1>4, BaseFacts, SpeedFacts DEF Settled
<1>6. Cardinality({}) = 0 /\ Cardinality({1}) = 1
  BY FS_EmptySet, FS_Singleton
<1>7. late = {} /\ running = 0 /\ done = 1 /\ phase = "scan"
  BY DEF Init
<1>8. QED
  BY <1>1, <1>3, <1>4, <1>5, <1>6, <1>7, SpeedFacts DEF CountersInv, Tight, Working

\* The sets of a state in which one result, that of mirror i, has changed.
LEMMA SetsElsewhere ==
  ASSUME Base, Base', count' = count, NEW i \in Mirrors,
         \A j \in Mirrors : j # i => speed'[j] = speed[j] /\ started'[j] = started[j]
  PROVE  /\ Mirrors' = Mirrors
         /\ Measured \in SUBSET Mirrors /\ Measured' \in SUBSET Mirrors
         /\ Settled \in SUBSET Mirrors /\ Settled' \in SUBSET Mirrors
         /\ Measured' \ {i} = Measured \ {i}
         /\ Settled' \ {i} = Settled \ {i}
<1>1. Mirrors' = Mirrors
  BY DEF Mirrors
<1>2. \A j \in Mirrors : j # i => (j \in Measured' <=> j \in Measured)
  BY <1>1 DEF Measured
<1>3. \A j \in Mirrors : j # i => (j \in Settled' <=> j \in Settled)
  BY <1>1, <1>2 DEF Settled
<1>4. /\ Measured \subseteq Mirrors /\ Measured' \subseteq Mirrors
      /\ Settled \subseteq Mirrors /\ Settled' \subseteq Mirrors
  BY <1>1 DEF Measured, Settled
<1>5. QED
  BY <1>1, <1>2, <1>3, <1>4

\* A result that is retired leaves the measured ones and joins the settled ones.
LEMMA Retired ==
  ASSUME CountersInv, Base', NEW i \in Mirrors, Tight,
         count' = count, i \in Measured, i \notin Measured', i \in Settled',
         \A j \in Mirrors : j # i => speed'[j] = speed[j] /\ started'[j] = started[j],
         running' = running - 1, done' = done + 1, phase' = "scan", late' = late
  PROVE  Tight'
<1>1. Base
  BY DEF CountersInv
<1>2. Measured' = Measured \ {i}
  BY <1>1, SetsElsewhere
<1>3. Settled' = Settled \cup {i} /\ i \notin Settled
  BY <1>1, SetsElsewhere DEF Settled
<1>4. Measured \in SUBSET Mirrors /\ Settled \in SUBSET Mirrors
  BY <1>1, SetsElsewhere
<1>5. Cardinality(Measured') = Cardinality(Measured) - 1
  BY <1>1, <1>2, <1>4, MirrorSets, BaseFacts
<1>6. Cardinality(Settled') = Cardinality(Settled) + 1
  BY <1>1, <1>3, <1>4, MirrorSets, BaseFacts
<1>7. running - 1 <= MaxThreads
  BY <1>1, BaseFacts, SpeedFacts DEF Tight
<1>8. /\ Cardinality(late) \in Int /\ Cardinality(Measured) \in Int
      /\ Cardinality(Settled) \in Int
  <2>1. late \in SUBSET Mirrors /\ count \in Nat
    BY <1>1, BaseFacts DEF Base, TypeOK
  <2>2. \A S \in SUBSET Mirrors : Cardinality(S) \in 0 .. count
    BY <2>1, MirrorSets
  <2>3. QED
    BY <1>4, <2>1, <2>2
<1>9. running \in Int /\ done \in Int
  BY <1>1, BaseFacts
<1>10. QED
  BY <1>5, <1>6, <1>7, <1>8, <1>9 DEF Tight

\* A step that neither starts nor settles a result.
LEMMA NoneRetired ==
  ASSUME CountersInv, Base', NEW i \in Mirrors, Tight,
         UNCHANGED <<count, running, done, late>>,
         i \in Measured <=> i \in Measured', i \in Settled <=> i \in Settled',
         \A j \in Mirrors : j # i => speed'[j] = speed[j] /\ started'[j] = started[j],
         phase' = "cancelled" => speed'[at'] # DONE
  PROVE  Tight'
<1>1. Base
  BY DEF CountersInv
<1>2. Measured' = Measured /\ Settled' = Settled
  BY <1>1, SetsElsewhere
<1>3. QED
  BY <1>2 DEF Tight

\* While the main thread scans, the counters agree.
LEMMA CountersScan ==
  ASSUME CountersInv, Base', NEW i \in Mirrors,
         Start(i) \/ Collect(i) \/ CollectError(i) \/ CancelDone(i)
  PROVE  Tight' /\ Working'
<1>1. Base /\ Tight /\ count' = count /\ late' = late
  BY DEF CountersInv, Start, Collect, CollectError, CancelDone, Scanning, Setup
<1>2. /\ \A j \in Mirrors : thread[j] = "testing" => speed[j] = ACTIVE /\ (phase = "cancelled" => at # j)
      /\ \A j \in late : thread[j] = "ended" /\ speed[j] # 0
      /\ late \subseteq Mirrors
  BY DEF CountersInv, Working, Start, Collect, CollectError, CancelDone, Scanning, Base, TypeOK
<1>3. /\ speed \in [Mirrors -> Speeds] /\ started \in [Mirrors -> BOOLEAN]
      /\ thread \in [Mirrors -> {"none", "testing", "cancelled", "ended"}]
      /\ Mirrors' = Mirrors
  BY <1>1 DEF Base, TypeOK, Mirrors
<1>4. CASE Start(i)
  <2>1. /\ speed[i] = 0 /\ speed' = [speed EXCEPT ![i] = ACTIVE]
        /\ started' = [started EXCEPT ![i] = TRUE]
        /\ thread' = [thread EXCEPT ![i] = "testing"]
        /\ running' = running + 1 /\ done' = done /\ phase' = "scan" /\ running < MaxThreads
    BY <1>4 DEF Start, Scanning
  <2>2. /\ \A j \in Mirrors : j # i => /\ speed'[j] = speed[j] /\ started'[j] = started[j]
                                      /\ thread'[j] = thread[j]
        /\ speed'[i] = ACTIVE /\ started'[i]
    BY <1>3, <2>1
  <2>3. i \in Measured' /\ i \notin Measured /\ i \notin Settled /\ i \notin Settled'
    BY <1>1, <1>3, <2>1, <2>2, SpeedFacts DEF Measured, Settled, Base, CorrectInv
  <2>4. Measured' = Measured \cup {i} /\ Settled' = Settled /\ Measured \in SUBSET Mirrors
    BY <1>1, <2>2, <2>3, SetsElsewhere
  <2>5. Cardinality(Measured') = Cardinality(Measured) + 1
    BY <1>1, <2>3, <2>4, MirrorSets, BaseFacts
  <2>6. running + 1 <= MaxThreads
    BY <1>1, <2>1, BaseFacts, SpeedFacts
  <2>7. Tight'
    <3>1. Cardinality(late) \in Int /\ Cardinality(Measured) \in Int /\ running \in Int
      <4>1. late \in SUBSET Mirrors /\ count \in Nat
        BY <1>1, <1>2, BaseFacts
      <4>2. \A S \in SUBSET Mirrors : Cardinality(S) \in 0 .. count
        BY <4>1, MirrorSets
      <4>3. QED
        BY <1>1, <2>4, <4>1, <4>2, BaseFacts
    <3>2. QED
      BY <1>1, <2>1, <2>4, <2>5, <2>6, <3>1 DEF Tight
  <2>8. i \notin late
    BY <1>2, <2>1
  <2>9. \A j \in late : thread'[j] = "ended" /\ speed'[j] # 0
    BY <1>2, <2>2, <2>8
  <2>10. QED
    BY <1>1, <1>2, <1>3, <2>1, <2>2, <2>7, <2>9 DEF Working
<1>5. CASE Collect(i)
  <2>1. /\ speed[i] > 0 /\ started[i] /\ started' = [started EXCEPT ![i] = FALSE]
        /\ running' = running - 1 /\ done' = done + 1 /\ UNCHANGED <<speed, thread>>
        /\ phase' = "scan"
    BY <1>5 DEF Collect, Scanning, Retire
  <2>2. /\ \A j \in Mirrors : j # i => speed'[j] = speed[j] /\ started'[j] = started[j]
        /\ ~started'[i] /\ speed[i] # DONE /\ speed'[i] # 0
    BY <1>1, <1>3, <2>1, BaseFacts, SpeedFacts
  <2>3. i \in Measured /\ i \notin Measured' /\ i \in Settled'
    BY <1>3, <2>1, <2>2 DEF Measured, Settled
  <2>4. QED
    BY <1>1, <1>2, <1>3, <2>1, <2>2, <2>3, SpeedFacts, Retired DEF Working
<1>6. CASE CollectError(i) \/ CancelDone(i)
  <2>1. /\ started[i] /\ speed[i] # DONE /\ speed' = [speed EXCEPT ![i] = DONE]
        /\ running' = running - 1 /\ done' = done + 1 /\ UNCHANGED <<started, thread>>
        /\ phase' = "scan"
    BY <1>1, <1>6, SpeedFacts
       DEF CollectError, CancelDone, Scanning, Retire, Base, CorrectInv, Tight
  <2>2. /\ \A j \in Mirrors : j # i => speed'[j] = speed[j] /\ started'[j] = started[j]
        /\ speed'[i] = DONE /\ DONE # 0
    BY <1>3, <2>1, SpeedFacts
  <2>3. i \in Measured /\ i \notin Measured' /\ i \in Settled'
    BY <1>3, <2>1, <2>2 DEF Measured, Settled
  <2>4. thread[i] # "testing"
    <3>1. CASE CollectError(i)
      BY <1>2, <3>1, SpeedFacts DEF CollectError
    <3>2. CASE CancelDone(i)
      BY <1>2, <3>2 DEF CancelDone
    <3>3. QED
      BY <1>6, <3>1, <3>2
  <2>5. QED
    BY <1>1, <1>2, <1>3, <2>1, <2>2, <2>3, <2>4, Retired DEF Working
<1>7. QED
  BY <1>4, <1>5, <1>6

\* The other steps before the list is sorted.
LEMMA CountersOther ==
  ASSUME CountersInv, Base', NEW i \in Mirrors, Tight, Working, phase \in {"scan", "cancelled"},
         Cancel(i) \/ Pass(i) \/ CancelActs(i)
  PROVE  Tight' /\ Working'
<1>1. /\ Base /\ thread \in [Mirrors -> {"none", "testing", "cancelled", "ended"}]
      /\ late \subseteq Mirrors /\ late' = late /\ Mirrors' = Mirrors
      /\ UNCHANGED <<count, running, done, started, speed>>
  BY DEF CountersInv, Base, TypeOK, Mirrors, Cancel, Pass, CancelActs, Setup, locals, result
<1>2. Measured' = Measured /\ Settled' = Settled
  BY <1>1 DEF Measured, Settled
<1>3. phase' = "cancelled" => speed'[at'] # DONE
  BY <1>1, SpeedFacts DEF Cancel, Pass, CancelActs, Scanning, locals, Tight
<1>4. Tight'
  BY <1>1, <1>2, <1>3 DEF Tight
<1>5. \A j \in Mirrors : /\ thread'[j] = "testing" => thread[j] = "testing"
                         /\ thread[j] = "ended" => thread'[j] = "ended"
  BY <1>1 DEF Cancel, Pass, CancelActs, result
<1>6. \A j \in Mirrors : thread'[j] = "testing" /\ phase' = "cancelled" => at' # j
  <2>1. CASE Cancel(i)
    BY <1>1, <2>1 DEF Cancel, locals
  <2>2. CASE Pass(i)
    BY <2>2 DEF Pass, Scanning
  <2>3. CASE CancelActs(i)
    BY <1>5, <2>3 DEF CancelActs, locals, Working
  <2>4. QED
    BY <2>1, <2>2, <2>3
<1>7. QED
  BY <1>1, <1>4, <1>5, <1>6 DEF Working

\* A thread writes: in time, and the result goes on being measured, or after it was
\* settled, and it is measured anew.
LEMMA CountersWritten ==
  ASSUME CountersInv, Base', NEW i \in Mirrors, Tight, Working, phase \in {"scan", "cancelled"},
         Measure(i)
  PROVE  Tight' /\ Working'
<1>1. /\ Base /\ speed \in [Mirrors -> Speeds] /\ started \in [Mirrors -> BOOLEAN]
      /\ thread \in [Mirrors -> {"none", "testing", "cancelled", "ended"}]
      /\ late \in SUBSET Mirrors /\ Mirrors' = Mirrors
      /\ UNCHANGED <<count, running, done, started, at, phase>>
  BY DEF CountersInv, Base, TypeOK, Mirrors, Measure, Setup, locals
<1>2. PICK v \in Times \cup {ERROR} : speed' = [speed EXCEPT ![i] = v]
  BY DEF Measure
<1>3. /\ thread[i] \in {"testing", "cancelled"} /\ thread' = [thread EXCEPT ![i] = "ended"]
      /\ late' = IF thread[i] = "cancelled" /\ speed[i] # ACTIVE THEN late \cup {i} ELSE late
  BY DEF Measure
<1>4. started[i] /\ speed[i] \in {ACTIVE, DONE} /\ (thread[i] = "testing" => speed[i] = ACTIVE)
  BY <1>1, <1>3 DEF Base, CorrectInv, Working
<1>5. /\ \A j \in Mirrors : j # i => /\ speed'[j] = speed[j] /\ started'[j] = started[j]
                                     /\ thread'[j] = thread[j]
      /\ speed'[i] = v /\ v # DONE /\ v # 0 /\ started'[i] /\ thread'[i] = "ended"
  BY <1>1, <1>2, <1>3, <1>4, SpeedFacts
<1>6. i \in Measured' /\ i \notin Settled'
  BY <1>1, <1>5 DEF Measured, Settled
<1>7. phase' = "cancelled" => speed'[at'] # DONE
  <2>1. at \in Mirrors
    BY <1>1, BaseFacts
  <2>2. phase = "cancelled" => speed[at] # DONE
    BY DEF Tight
  <2>3. QED
    BY <1>1, <1>5, <2>1, <2>2
<1>8. Working'
  <2>1. \A j \in Mirrors : thread'[j] = "testing" => j # i /\ thread[j] = "testing"
    BY <1>5
  <2>2. \A j \in late' : thread'[j] = "ended" /\ speed'[j] # 0
    BY <1>1, <1>3, <1>5 DEF Working
  <2>3. QED
    BY <1>1, <1>5, <2>1, <2>2 DEF Working
<1>9. CASE speed[i] = ACTIVE
  <2>1. late' = late
    BY <1>3, <1>9
  <2>2. i \in Measured /\ i \notin Settled
    BY <1>4, <1>9, SpeedFacts DEF Measured, Settled
  <2>3. Tight'
    BY <1>1, <1>5, <1>6, <1>7, <2>1, <2>2, NoneRetired
  <2>4. QED
    BY <1>8, <2>3
<1>10. CASE speed[i] = DONE
  <2>1. late' = late \cup {i} /\ i \notin late
    BY <1>3, <1>4, <1>10, SpeedFacts DEF Working
  <2>2. i \notin Measured /\ i \in Settled
    BY <1>10, SpeedFacts DEF Measured, Settled
  <2>3. /\ Measured \in SUBSET Mirrors /\ Measured' = Measured \cup {i}
        /\ Settled \in SUBSET Mirrors /\ Settled' = Settled \ {i}
    BY <1>1, <1>5, <1>6, <2>2, SetsElsewhere
  <2>4. /\ Cardinality(Measured') = Cardinality(Measured) + 1
        /\ Cardinality(Settled') = Cardinality(Settled) - 1
        /\ Cardinality(late') = Cardinality(late) + 1
    BY <1>1, <2>1, <2>2, <2>3, MirrorSets, BaseFacts
  <2>5. /\ Cardinality(Measured) \in Int /\ Cardinality(Settled) \in Int
        /\ Cardinality(late) \in Int /\ running \in Int /\ done \in Int
    BY <1>1, <2>3, MirrorSets, BaseFacts
  <2>6. Tight'
    BY <1>1, <1>7, <2>4, <2>5 DEF Tight
  <2>7. QED
    BY <1>8, <2>6
<1>11. QED
  BY <1>4, <1>9, <1>10

\* Every step keeps the counters in agreement.
LEMMA CountersStep == CountersInv /\ [Next]_vars => CountersInv'
<1> SUFFICES ASSUME CountersInv, [Next]_vars PROVE CountersInv'
  OBVIOUS
<1>1. Base /\ Base'
  BY BaseStep DEF CountersInv
<1>2. SUFFICES ASSUME phase' \in {"scan", "cancelled"} PROVE Tight' /\ Working'
  BY <1>1 DEF CountersInv
<1>3. CASE UNCHANGED vars
  <2>1. Measured' = Measured /\ Settled' = Settled /\ Mirrors' = Mirrors
    BY <1>3 DEF vars, result, Measured, Settled, Mirrors
  <2>2. QED
    BY <1>2, <1>3, <2>1 DEF vars, result, locals, CountersInv, Tight, Working
<1>4. CASE \E i \in Mirrors : Start(i) \/ Collect(i) \/ CollectError(i) \/ CancelDone(i)
  BY <1>1, <1>4, CountersScan
<1>5. CASE \E i \in Mirrors : Cancel(i) \/ Pass(i) \/ Measure(i) \/ CancelActs(i)
  <2>1. phase \in {"scan", "cancelled"}
    BY <1>2, <1>5 DEF Cancel, Pass, Scanning, Measure, CancelActs
  <2>2. Tight /\ Working
    BY <1>1, <2>1 DEF CountersInv, Base, TypeOK
  <2>3. QED
    BY <1>1, <1>2, <1>5, <2>1, <2>2, CountersOther, CountersWritten
<1>6. CASE Return \/ Choose \/ \E i \in Mirrors : StartFails(i)
  BY <1>2, <1>6 DEF Return, Choose, StartFails
<1>7. QED
  BY <1>3, <1>4, <1>5, <1>6 DEF Next, Scan

\* The counters of search_getspeeds agree with the results whenever threads write
\* them, also after their cancellation was counted: then done is ahead of the
\* results and running is behind them by the number of those late writes.
THEOREM ChoiceCounts == Spec => []CountersAgree
<1>1. CountersInv => CountersAgree
  BY DEF CountersInv, CountersAgree, Tight, Base, CorrectInv
<1>2. QED
  BY <1>1, CountersInit, CountersStep, PTL DEF Spec
-----------------------------------------------------------------------------
(* The fastest are chosen.  When search_getspeeds returns, every result is   *)
(* settled: a usable speed, or done without one.  So the comparator is an    *)
(* order, the usable mirrors come first, and there are as many as counted.   *)

AllSettled == \A i \in Mirrors : i \in Usable \/ speed[i] = DONE

ChosenInv ==
  /\ CountersInv
  /\ phase = "sort" /\ late = {} /\ usable > 0 => AllSettled /\ usable = Cardinality(Usable)
  /\ FastestChosen

\* When search_getspeeds returns every result is settled.
LEMMA ReturnSettled ==
  ASSUME CountersInv, Return, late = {}
  PROVE  AllSettled /\ correct = Cardinality(Usable)
<1>1. Base /\ Tight /\ done >= count
  BY DEF CountersInv, Return
<1>2. Settled \in SUBSET Mirrors /\ Cardinality(Settled) = count
  <2>1. Settled \in SUBSET Mirrors
    BY DEF Settled
  <2>2. Cardinality(Settled) \in 0 .. count
    BY <1>1, <2>1, MirrorSets, BaseFacts
  <2>3. Cardinality(late) = 0
    BY FS_EmptySet
  <2>4. QED
    BY <1>1, <2>1, <2>2, <2>3, BaseFacts DEF Tight
<1>3. IsFiniteSet(Mirrors) /\ Cardinality(Mirrors) = count
  BY <1>1, BaseFacts, FS_Interval
<1>4. Settled = Mirrors
  BY <1>2, <1>3, FS_Subset
<1>5. ASSUME NEW i \in Mirrors PROVE i \in Usable \/ speed[i] = DONE
  <2>1. speed[i] # 0 /\ i \notin Measured
    BY <1>4 DEF Settled
  <2>2. speed[i] # DONE => ~started[i]
    BY <2>1 DEF Measured
  <2>3. speed[i] # DONE => speed[i] \in Times
    BY <1>1, <2>1, <2>2 DEF Base, CorrectInv, TypeOK, Speeds
  <2>4. QED
    BY <2>2, <2>3, SpeedFacts DEF Usable
<1>6. QED
  BY <1>1, <1>5 DEF AllSettled, Base, CorrectInv

\* In a list of all mirrors, sorted and settled, the first ones are usable: as
\* many as there are usable mirrors at all.
LEMMA UsableFirst ==
  ASSUME Base, AllSettled, NEW q \in Orders, Sorted(q), Len(q) = count,
         NEW n \in 1 .. Cardinality(Usable), NEW m \in 1 .. n
  PROVE  q[m] \in Mirrors /\ speed[q[m]] > 0
<1>1. /\ Usable \in SUBSET Mirrors /\ Mirrors = 1 .. count /\ count \in Nat
      /\ Cardinality(Usable) \in 0 .. count
  <2>1. Usable \in SUBSET Mirrors
    BY DEF Usable
  <2>2. QED
    BY <2>1, BaseFacts, MirrorSets
<1>2. m \in Mirrors /\ q \in [Mirrors -> Mirrors] /\ m \in Nat \ {0}
  <2>1. q \in [Mirrors -> Mirrors]
    BY DEF Orders
  <2>2. Cardinality(Usable) \in Int /\ Cardinality(Usable) <= count
    BY <1>1
  <2>3. m \in 1 .. count
    BY <1>1, <2>2
  <2>4. QED
    BY <1>1, <2>1, <2>3
<1>3. ASSUME ~(speed[q[m]] > 0) PROVE FALSE
  <2>1. speed[q[m]] < 0
    BY <1>2, <1>3, SpeedFacts DEF AllSettled, Usable
  <2>2. ASSUME NEW i \in Usable PROVE \E j \in 1 .. m - 1 : q[j] = i
    <3>1. PICK j \in Mirrors : q[j] = i
      BY <1>1 DEF Orders
    <3>2. speed[i] > 0 /\ speed[i] \in Int
      BY BaseFacts DEF Usable
    <3>3. j # m
      BY <2>1, <3>1, <3>2
    <3>4. ~(m < j)
      BY <1>1, <1>2, <2>1, <3>1, <3>2 DEF Sorted
    <3>5. QED
      BY <1>1, <1>2, <3>1, <3>3, <3>4
  <2> DEFINE Before == {q[j] : j \in 1 .. m - 1}
             h == [j \in 1 .. m - 1 |-> q[j]]
  <2>3. h \in Surjection(1 .. m - 1, Before)
    BY DEF Surjection
  <2>4. m - 1 \in Nat /\ ExistsSurjection(1 .. m - 1, Before)
    <3> HIDE DEF h, Before
    <3>1. QED
      BY <1>2, <2>3 DEF ExistsSurjection
  <2>5. Before \in SUBSET Mirrors /\ Usable \in SUBSET Before
    <3>1. \A j \in 1 .. m - 1 : j \in Mirrors
      BY <1>1, <1>2
    <3>2. Before \subseteq Mirrors
      BY <1>2, <3>1
    <3>3. Usable \subseteq Before
      BY <2>2
    <3>4. QED
      BY <3>2, <3>3
  <2> HIDE DEF Before
  <2>6. Cardinality(Before) <= m - 1
    BY <2>4, FS_SurjCardinalityBound
  <2>7. IsFiniteSet(Before) /\ Cardinality(Before) \in Nat
    BY <1>1, <2>5, MirrorSets
  <2>8. Cardinality(Usable) <= Cardinality(Before)
    BY <2>5, <2>7, FS_Subset
  <2>9. QED
    BY <1>1, <1>2, <2>6, <2>7, <2>8
<1>4. QED
  BY <1>2, <1>3

\* The first of a sorted list of settled results are the fastest.
LEMMA ChooseFastest ==
  ASSUME CountersInv, AllSettled, usable = Cardinality(Usable), usable > 0, Choose
  PROVE  FastestChosen'
<1>1. Base /\ count \in Nat \ {0} /\ Mirrors = 1 .. count /\ Mirrors' = Mirrors
  BY BaseFacts DEF CountersInv, Choose, Setup, Mirrors
<1> DEFINE n == IF verbose /\ usable > Top THEN Top ELSE usable
<1>2. PICK q \in Orders : /\ IsOrder => Sorted(q)
                         /\ chosen' = SubSeq(q, 1, IF n = 0 THEN 1 ELSE n)
  BY DEF Choose
<1>3. usable \in 0 .. count /\ n \in 1 .. Cardinality(Usable) /\ n \in 1 .. count
  BY <1>1, SpeedFacts DEF Base, CorrectInv
<1>4. q \in [1 .. count -> Mirrors] /\ q \in Seq(Mirrors) /\ Len(q) = count
  <2>1. q \in [1 .. count -> Mirrors]
    BY <1>1, <1>2 DEF Orders
  <2>2. count \in Nat /\ q \in [1 .. count -> Mirrors]
    BY <1>1, <2>1
  <2>3. q \in Seq(Mirrors)
    BY <2>2, SeqDef
  <2>4. DOMAIN q = 1 .. count /\ DOMAIN q = 1 .. Len(q) /\ Len(q) \in Nat
    BY <2>2, <2>3, LenProperties
  <2>5. Len(q) = count
    BY <2>2, <2>4
  <2>6. QED
    BY <2>1, <2>3, <2>5
<1> HIDE DEF n
<1>5. Sorted(q)
  <2>1. \A i \in Mirrors : speed[i] # 0
    BY SpeedFacts DEF AllSettled, Usable
  <2>2. QED
    BY <1>2, <2>1 DEF IsOrder
<1>6. chosen' = SubSeq(q, 1, n)
  BY <1>2, <1>3
<1>7. Len(chosen') = n /\ DOMAIN chosen' = 1 .. n /\ \A m \in 1 .. n : chosen'[m] = q[m]
  <2>1. n \in Nat /\ \A m \in 1 .. n : q[m] \in Mirrors
    BY <1>3, <1>4
  <2>2. QED
    BY <1>3, <1>4, <1>6, <2>1, SubSeqProperties
<1>8. UNCHANGED speed
  BY DEF Choose, result
<1>9. ASSUME NEW m \in 1 .. n PROVE q[m] \in Mirrors /\ speed[q[m]] > 0
  BY <1>1, <1>2, <1>3, <1>4, <1>5, UsableFirst
<1>10. ASSUME NEW m \in 1 .. n, NEW j \in Mirrors,
              j \notin {chosen'[i] : i \in DOMAIN chosen'}, speed[j] > 0
       PROVE  speed[q[m]] <= speed[j]
  <2>1. PICK i \in Mirrors : q[i] = j
    BY <1>2 DEF Orders
  <2>2. i \notin 1 .. n
    BY <1>7, <1>10, <2>1
  <2>3. m < i /\ m \in 1 .. Len(q) /\ i \in 1 .. Len(q)
    <3>1. i \in 1 .. count /\ n \in 1 .. count /\ m \in 1 .. n /\ count \in Nat
      BY <1>1, <1>3
    <3>2. m < i /\ m \in 1 .. count
      BY <2>2, <3>1
    <3>3. QED
      BY <1>4, <3>1, <3>2
  <2>4. speed[q[m]] <= speed[q[i]] \/ speed[q[i]] < 0
    BY <1>5, <2>3 DEF Sorted
  <2>5. QED
    BY <1>1, <1>10, <2>1, <2>4, BaseFacts
<1>11. QED
  BY <1>1, <1>7, <1>8, <1>9, <1>10 DEF FastestChosen

\* Every step keeps what is chosen the fastest.
LEMMA ChosenStep == ChosenInv /\ [Next]_vars => ChosenInv'
<1> SUFFICES ASSUME ChosenInv, [Next]_vars PROVE ChosenInv'
  OBVIOUS
<1>1. CountersInv /\ CountersInv' /\ Base
  BY CountersStep DEF ChosenInv, CountersInv
<1>2. phase \in {"scan", "cancelled", "sort", "chosen"}
  BY <1>1 DEF Base, TypeOK
<1>3. ASSUME phase' = "sort", late' = {}, usable' > 0
      PROVE  AllSettled' /\ usable' = Cardinality(Usable')
  <2>1. CASE Return
    <3>1. late = {} /\ UNCHANGED <<count, speed, started>> /\ usable' = correct
      BY <1>3, <2>1 DEF Return, Setup, result
    <3>2. AllSettled /\ correct = Cardinality(Usable)
      BY <1>1, <2>1, <3>1, ReturnSettled
    <3>3. QED
      BY <3>1, <3>2 DEF AllSettled, Usable, Mirrors
  <2>2. CASE UNCHANGED vars \/ \E i \in Mirrors : CancelActs(i)
    <3>1. UNCHANGED <<count, speed, started, phase, late, usable>>
      BY <2>2 DEF vars, result, locals, CancelActs, Setup, Chosen
    <3>2. QED
      BY <1>3, <3>1 DEF ChosenInv, AllSettled, Usable, Mirrors
  <2>3. CASE Choose \/ \E i \in Mirrors : StartFails(i)
    BY <1>3, <2>3 DEF Choose, StartFails
  <2>4. CASE \E i \in Mirrors : Start(i) \/ Collect(i) \/ CollectError(i) \/ CancelDone(i)
                             \/ Cancel(i) \/ Pass(i)
    BY <1>3, <2>4 DEF Start, Collect, CollectError, CancelDone, Cancel, Pass, Scanning
  <2>5. CASE \E i \in Mirrors : Measure(i)
    BY <1>3, <2>5 DEF Measure
  <2>6. QED
    BY <2>1, <2>2, <2>3, <2>4, <2>5 DEF Next, Scan
<1>4. FastestChosen'
  <2>1. SUFFICES ASSUME phase' = "chosen", late' = {}, usable' > 0 PROVE FastestChosen'
    BY DEF FastestChosen
  <2>2. CASE Choose
    <3>1. phase = "sort" /\ late = {} /\ usable > 0
      BY <2>1, <2>2 DEF Choose
    <3>2. QED
      BY <1>1, <2>2, <3>1, ChooseFastest DEF ChosenInv
  <2>3. CASE UNCHANGED vars \/ \E i \in Mirrors : CancelActs(i)
    <3>1. UNCHANGED <<count, speed, phase, late, usable, chosen>>
      BY <2>3 DEF vars, result, locals, CancelActs, Setup, Chosen
    <3>2. QED
      BY <3>1 DEF ChosenInv, FastestChosen, Mirrors
  <2>4. CASE Return \/ \E i \in Mirrors : StartFails(i)
    BY <2>1, <2>4 DEF Return, StartFails
  <2>5. CASE \E i \in Mirrors : Start(i) \/ Collect(i) \/ CollectError(i) \/ CancelDone(i)
                             \/ Cancel(i) \/ Pass(i)
    BY <2>1, <2>5 DEF Start, Collect, CollectError, CancelDone, Cancel, Pass, Scanning
  <2>6. CASE \E i \in Mirrors : Measure(i)
    BY <2>1, <2>6 DEF Measure, locals
  <2>7. QED
    BY <2>2, <2>3, <2>4, <2>5, <2>6 DEF Next, Scan
<1>5. QED
  BY <1>1, <1>3, <1>4 DEF ChosenInv

\* Unless a thread writes late, every mirror the download is given has answered
\* and none that is left out is faster, however many answered and timed out.
THEOREM FastestAreChosen == Spec => []FastestChosen
<1>1. Init => ChosenInv
  BY CountersInit DEF Init, ChosenInv, FastestChosen
<1>2. ChosenInv => FastestChosen
  BY DEF ChosenInv
<1>3. QED
  BY <1>1, <1>2, ChosenStep, PTL DEF Spec
-----------------------------------------------------------------------------
(* The UDP upload.  As long as nothing is lost, doubled or overtaken, what the *)
(* receiver has and what is on the wire are the pieces in their order.        *)

UploadsSane == Buffer \in Nat \ {0} /\ Sizes \subseteq Nat


\* Bytes of the last piece.
Rest == size % Buffer

\* The first n places of the file.
Prefix(n) == [i \in 1 .. n |-> i]

\* A datagram is on its way for each piece sent after the m that were taken; what
\* follows the last piece are the thanks.
Following(m) ==
    /\ m \in 0 .. Datagram!Pieces - 1 /\ file = Prefix(m * Buffer)
    /\ \A i \in 1 .. Len(wire) : wire[i] = m + i
    /\ sender <= Datagram!Thanks => m + Len(wire) = sender - 1
    /\ sender = Datagram!Closed => m + Len(wire) \in {Datagram!Pieces, Datagram!Thanks}

DatagramInv ==
    /\ size \in Nat /\ sender \in 1 .. Datagram!Closed
    /\ receiver \in {"receiving", "ended", "crashed"} /\ upset \in BOOLEAN
    /\ wire \in Seq(1 .. Datagram!Thanks) /\ file \in Seq(0 .. size)
    /\ ~upset /\ receiver = "receiving" => \E m \in Nat : Following(m)
    /\ ~upset /\ receiver = "ended" => file = Prefix(size)

\* The pieces, and their lengths: only the last one is shorter than the buffer.
LEMMA PieceFacts ==
  ASSUME UploadsSane, size \in Nat
  PROVE  /\ Datagram!Pieces \in Nat \ {0} /\ Datagram!Thanks = Datagram!Pieces + 1
         /\ Datagram!Closed = Datagram!Pieces + 2
         /\ Rest \in 0 .. Buffer - 1
         /\ size = (Datagram!Pieces - 1) * Buffer + Rest
<1>1. Buffer \in Nat /\ Buffer > 0
  BY DEF UploadsSane
<1> DEFINE d == size \div Buffer
           r == size % Buffer
<1>2. d \in Nat /\ r \in 0 .. Buffer - 1 /\ size = Buffer * d + r
  BY <1>1
<1> HIDE DEF d, r
<1>3. Datagram!Pieces = d + 1
  BY DEF Datagram!Pieces, d
<1>4. size = (Datagram!Pieces - 1) * Buffer + r
  <2>1. Datagram!Pieces - 1 = d /\ d * Buffer = Buffer * d
    BY <1>1, <1>2, <1>3
  <2>2. QED
    BY <1>2, <2>1
<1>5. Datagram!Pieces \in Nat \ {0}
  BY <1>2, <1>3
<1>6. Rest \in 0 .. Buffer - 1 /\ size = (Datagram!Pieces - 1) * Buffer + Rest
  BY <1>2, <1>4 DEF r, Rest
<1>7. QED
  BY <1>5, <1>6 DEF Datagram!Thanks, Datagram!Closed

\* A piece before the last one ends within the file.
LEMMA PieceFits ==
  ASSUME NEW p \in Nat, NEW b \in Nat, NEW r \in Nat, NEW k \in 1 .. p
  PROVE  (k - 1) * b \in Nat /\ (k - 1) * b + b <= p * b + r
<1>1. PICK d \in Nat, e \in Nat : p = k + d /\ e = k - 1
  BY ONLY k \in 1 .. p, p \in Nat
<1>2. p * b = e * b + b + d * b /\ e * b \in Nat /\ d * b \in Nat
  <2>1. p = e + 1 + d
    BY <1>1
  <2>2. QED
    BY <2>1
<1>3. QED
  BY <1>1, <1>2

\* The k-th datagram holds the bytes from the one behind the first k - 1 pieces.
LEMMA PieceBytes ==
  ASSUME UploadsSane, size \in Nat, NEW k \in 1 .. Datagram!Pieces
  PROVE  /\ Datagram!Data(k) \in Seq(0 .. size)
         /\ Len(Datagram!Data(k)) = IF k = Datagram!Pieces THEN Rest ELSE Buffer
         /\ \A i \in 1 .. Len(Datagram!Data(k)) : Datagram!Data(k)[i] = (k - 1) * Buffer + i
<1>1. PICK n \in Nat : n = IF k = Datagram!Pieces THEN Rest ELSE Buffer
  BY PieceFacts DEF UploadsSane
<1>2. PICK a \in Nat : a = (k - 1) * Buffer
  <2>1. k - 1 \in Nat /\ Buffer \in Nat
    BY PieceFacts DEF UploadsSane
  <2>2. QED
    BY <2>1
<1>3. Datagram!Data(k) = [i \in 1 .. n |-> a + i]
  <2>1. k # Datagram!Thanks
    BY PieceFacts
  <2>2. Datagram!Data(k) = Datagram!Piece(k)
    BY <2>1 DEF Datagram!Data
  <2>3. Datagram!Piece(k) = [i \in 1 .. n |-> a + i]
    BY <1>1, <1>2 DEF Datagram!Piece, Rest
  <2>4. QED
    BY <2>2, <2>3
<1>4. a + n <= size
  <2>1. /\ size = (Datagram!Pieces - 1) * Buffer + Rest
        /\ Rest \in Nat /\ Buffer \in Nat /\ Datagram!Pieces - 1 \in Nat
    BY PieceFacts DEF UploadsSane
  <2>2. CASE k = Datagram!Pieces
    BY <1>1, <1>2, <2>1, <2>2
  <2>3. CASE k # Datagram!Pieces
    <3>1. k \in 1 .. Datagram!Pieces - 1
      BY <2>3, PieceFacts
    <3>2. (k - 1) * Buffer + Buffer <= (Datagram!Pieces - 1) * Buffer + Rest
      BY <2>1, <3>1, PieceFits
    <3>3. QED
      BY <1>1, <1>2, <2>1, <2>3, <3>2
  <2>4. QED
    BY <2>2, <2>3
<1>5. \A i \in 1 .. n : a + i \in 0 .. size
  BY <1>1, <1>2, <1>4
<1>6. /\ Datagram!Data(k) \in Seq(0 .. size) /\ Len(Datagram!Data(k)) = n
      /\ \A i \in 1 .. n : Datagram!Data(k)[i] = a + i
  BY <1>1, <1>3, <1>5, SeqDef, LenProperties
<1>7. Len(Datagram!Data(k)) = IF k = Datagram!Pieces THEN Rest ELSE Buffer
  BY <1>1, <1>6
<1>8. \A i \in 1 .. Len(Datagram!Data(k)) : Datagram!Data(k)[i] = (k - 1) * Buffer + i
  BY <1>2, <1>6
<1>9. QED
  BY <1>6, <1>7, <1>8

\* Whatever comes is made of places of the file, or of thanks.
LEMMA DataBytes ==
  ASSUME UploadsSane, size \in Nat, NEW d \in 1 .. Datagram!Thanks
  PROVE  Datagram!Data(d) \in Seq(0 .. size)
<1>1. CASE d = Datagram!Thanks
  BY <1>1 DEF Datagram!Data
<1>2. CASE d # Datagram!Thanks
  <2>1. d \in 1 .. Datagram!Pieces
    BY <1>2, PieceFacts
  <2>2. QED
    BY <2>1, PieceBytes
<1>3. QED
  BY <1>1, <1>2

\* A beginning of the file holds its places in order.
LEMMA PrefixFacts ==
  ASSUME NEW n \in Nat
  PROVE  Prefix(n) \in Seq(Nat) /\ Len(Prefix(n)) = n /\ \A i \in 1 .. n : Prefix(n)[i] = i
<1>1. \A i \in 1 .. n : i \in Nat
  OBVIOUS
<1>2. QED
  BY <1>1, SeqDef, LenProperties DEF Prefix

\* The file grows by the piece that follows what it has.
LEMMA PrefixGrows ==
  ASSUME NEW a \in Nat, NEW b \in Nat, NEW s \in Seq(Nat), Len(s) = b,
         \A i \in 1 .. b : s[i] = a + i
  PROVE  Prefix(a) \o s = Prefix(a + b)
<1>1. PICK p \in Seq(Nat) : p = Prefix(a) /\ Len(p) = a /\ \A i \in 1 .. a : p[i] = i
  BY PrefixFacts
<1>2. PICK q \in Seq(Nat) : q = Prefix(a + b) /\ Len(q) = a + b /\ \A i \in 1 .. a + b : q[i] = i
  <2>1. a + b \in Nat
    OBVIOUS
  <2>2. QED
    BY <2>1, PrefixFacts
<1>3. /\ p \o s \in Seq(Nat) /\ Len(p \o s) = a + b
      /\ \A i \in 1 .. Len(p) + Len(s) : (p \o s)[i] = IF i <= Len(p) THEN p[i] ELSE s[i - Len(p)]
  <2>1. /\ p \o s \in Seq(Nat) /\ Len(p \o s) = Len(p) + Len(s)
        /\ \A i \in 1 .. Len(p) + Len(s) :
             (p \o s)[i] = IF i <= Len(p) THEN p[i] ELSE s[i - Len(p)]
    BY ConcatProperties
  <2>2. QED
    BY <1>1, <2>1
<1>4. ASSUME NEW i \in 1 .. Len(p \o s) PROVE (p \o s)[i] = q[i]
  <2>1. i \in 1 .. a + b /\ i \in 1 .. Len(p) + Len(s)
    BY <1>1, <1>3
  <2>2. CASE i <= a
    BY <1>1, <1>2, <1>3, <2>1, <2>2
  <2>3. CASE i > a
    <3>1. i - a \in 1 .. b /\ a + (i - a) = i
      BY <2>1, <2>3
    <3>2. (p \o s)[i] = s[i - a]
      BY <1>1, <1>3, <2>1, <2>3
    <3>3. s[i - a] = i
      BY <3>1
    <3>4. QED
      BY <1>2, <2>1, <3>2, <3>3
  <2>4. QED
    BY <2>1, <2>2, <2>3
<1>5. p \o s = q
  BY <1>2, <1>3, <1>4, SeqEqual
<1>6. QED
  BY <1>1, <1>2, <1>5

\* What is left on the wire when its k-th datagram has gone.
LEMMA WireWithout ==
  ASSUME NEW S, wire \in Seq(S), NEW k \in 1 .. Len(wire), wire' = Datagram!Without(k)
  PROVE  /\ wire' \in Seq(S)
         /\ k = 1 => /\ Len(wire') = Len(wire) - 1
                     /\ \A i \in 1 .. Len(wire) - 1 : wire'[i] = wire[i + 1]
<1>1. PICK n \in Nat : n = Len(wire) /\ \A i \in 1 .. n : wire[i] \in S
  BY LenProperties, ElementOfSeq
<1>2. PICK a \in Seq(S) : a = SubSeq(wire, 1, k - 1) /\ (k = 1 => a = <<>>)
  <2>1. k - 1 \in Int /\ \A i \in 1 .. k - 1 : wire[i] \in S
    BY <1>1
  <2>2. PICK m \in Int : m = k - 1
    BY <2>1
  <2>3. /\ SubSeq(wire, 1, m) \in Seq(S)
        /\ Len(SubSeq(wire, 1, m)) = IF 1 <= m THEN m - 1 + 1 ELSE 0
    BY <2>1, <2>2, SubSeqProperties
  <2>4. k = 1 => SubSeq(wire, 1, m) = <<>>
    BY <2>2, <2>3, EmptySeq
  <2>5. QED
    BY <2>2, <2>3, <2>4
<1>3. PICK b \in Seq(S) : /\ b = SubSeq(wire, k + 1, Len(wire)) /\ Len(b) = n - k
                          /\ \A i \in 1 .. n - k : b[i] = wire[i + k]
  <2>1. PICK m \in Int : m = k + 1 /\ \A i \in m .. n : wire[i] \in S
    BY <1>1
  <2>2. /\ SubSeq(wire, m, n) \in Seq(S)
        /\ Len(SubSeq(wire, m, n)) = IF m <= n THEN n - m + 1 ELSE 0
        /\ \A i \in 1 .. n - m + 1 : SubSeq(wire, m, n)[i] = wire[m + i - 1]
    BY <1>1, <2>1, SubSeqProperties
  <2>3. n - m + 1 = n - k /\ \A i \in 1 .. n - k : m + i - 1 = i + k
    BY <1>1, <2>1
  <2>4. Len(SubSeq(wire, m, n)) = n - k
    BY <1>1, <2>1, <2>2
  <2>5. \A i \in 1 .. n - k : SubSeq(wire, m, n)[i] = wire[i + k]
    BY <2>2, <2>3
  <2>6. QED
    BY <1>1, <2>1, <2>2, <2>4, <2>5
<1>4. wire' = a \o b
  BY <1>2, <1>3 DEF Datagram!Without
<1>5. wire' \in Seq(S)
  BY <1>4, ConcatProperties
<1>6. ASSUME k = 1 PROVE wire' = b
  BY <1>2, <1>4, <1>6, ConcatEmptySeq
<1>7. QED
  BY <1>1, <1>3, <1>5, <1>6
-----------------------------------------------------------------------------
(* The steps. *)

\* Nothing has come, and nothing is under way.
LEMMA DatagramInit == UploadsSane /\ Datagram!Init => DatagramInv
<1> SUFFICES ASSUME UploadsSane, Datagram!Init PROVE DatagramInv
  OBVIOUS
<1>1. /\ size \in Nat /\ sender = 1 /\ wire = <<>> /\ receiver = "receiving" /\ file = <<>>
      /\ upset = FALSE
  BY DEF Datagram!Init, UploadsSane
<1>2. Len(wire) = 0 /\ wire \in Seq(1 .. Datagram!Thanks) /\ file \in Seq(0 .. size)
  BY <1>1
<1>3. Following(0)
  <2>1. Prefix(0) = <<>>
    <3>1. Prefix(0) \in Seq(Nat) /\ Len(Prefix(0)) = 0
      BY PrefixFacts
    <3>2. QED
      BY <3>1, EmptySeq
  <2>2. 0 * Buffer = 0
    BY DEF UploadsSane
  <2>3. QED
    BY <1>1, <1>2, <2>1, <2>2, PieceFacts DEF Following
<1>4. upset \in BOOLEAN
  BY <1>1
<1>5. QED
  BY <1>1, <1>2, <1>3, <1>4, PieceFacts DEF DatagramInv

\* The sender puts d on the wire, or its thanks get lost in the shut down socket.
LEMMA DatagramSent ==
  ASSUME UploadsSane, DatagramInv, Datagram!Send \/ Datagram!SendThanks
  PROVE  DatagramInv'
<1>1. UNCHANGED <<size, receiver, file, upset>> /\ size \in Nat /\ wire \in Seq(1 .. Datagram!Thanks)
      /\ sender \in 1 .. Datagram!Thanks
  BY PieceFacts DEF Datagram!Send, Datagram!SendThanks, DatagramInv
<1>2. /\ Datagram!Pieces' = Datagram!Pieces /\ Datagram!Thanks' = Datagram!Thanks
      /\ Datagram!Closed' = Datagram!Closed
  BY <1>1 DEF Datagram!Pieces, Datagram!Thanks, Datagram!Closed
<1>3. sender' = sender + 1
  <2>1. CASE Datagram!Send
    <3>1. /\ sender \in 1 .. Datagram!Pieces
          /\ sender' = IF Len(Datagram!Piece(sender)) < Buffer THEN Datagram!Thanks ELSE sender + 1
      BY <2>1 DEF Datagram!Send
    <3>2. Datagram!Data(sender) = Datagram!Piece(sender)
      BY <1>1, <3>1, PieceFacts DEF Datagram!Data
    <3>3. Len(Datagram!Piece(sender)) < Buffer => sender = Datagram!Pieces
      BY <1>1, <3>1, <3>2, PieceBytes DEF UploadsSane
    <3>4. QED
      BY <1>1, <3>1, <3>3, PieceFacts
  <2>2. CASE Datagram!SendThanks
    BY <1>1, <2>2, PieceFacts DEF Datagram!SendThanks
  <2>3. QED
    BY <2>1, <2>2
<1>4. wire' = Append(wire, sender) \/ (wire' = wire /\ sender = Datagram!Thanks)
  BY DEF Datagram!Send, Datagram!SendThanks
<1>5. /\ Append(wire, sender) \in Seq(1 .. Datagram!Thanks)
      /\ Len(Append(wire, sender)) = Len(wire) + 1 /\ Len(wire) \in Nat
      /\ Append(wire, sender)[Len(wire) + 1] = sender
      /\ \A i \in 1 .. Len(wire) : Append(wire, sender)[i] = wire[i]
  BY <1>1, AppendProperties, LenProperties
<1>6. ASSUME NEW m \in Nat, Following(m) PROVE Following(m)'
  <2>1. /\ m \in 0 .. Datagram!Pieces - 1 /\ file = Prefix(m * Buffer)
        /\ \A i \in 1 .. Len(wire) : wire[i] = m + i
        /\ m + Len(wire) = sender - 1
    BY <1>1, <1>6 DEF Following
  <2>2. \A i \in 1 .. Len(wire') : wire'[i] = m + i
    <3>1. CASE wire' = wire
      BY <2>1, <3>1
    <3>2. CASE wire' = Append(wire, sender)
      <4>1. ASSUME NEW i \in 1 .. Len(wire) + 1
            PROVE  Append(wire, sender)[i] = m + i
        <5>1. CASE i = Len(wire) + 1
          BY <1>1, <1>5, <2>1, <5>1
        <5>2. CASE i # Len(wire) + 1
          <6>1. i \in 1 .. Len(wire)
            BY <1>5, <5>2
          <6>2. QED
            BY <1>5, <2>1, <6>1
        <5>3. QED
          BY <5>1, <5>2
      <4>2. QED
        BY <1>5, <3>2, <4>1
    <3>3. QED
      BY <1>4, <3>1, <3>2
  <2>3. Len(wire') = Len(wire) + 1 \/ (Len(wire') = Len(wire) /\ sender = Datagram!Thanks)
    BY <1>4, <1>5
  <2>4. /\ sender' <= Datagram!Thanks => m + Len(wire') = sender' - 1
        /\ sender' = Datagram!Closed => m + Len(wire') \in {Datagram!Pieces, Datagram!Thanks}
    <3>1. /\ m \in Nat /\ Len(wire) \in Nat /\ sender \in Nat /\ Datagram!Pieces \in Nat
          /\ Datagram!Thanks = Datagram!Pieces + 1 /\ Datagram!Closed = Datagram!Pieces + 2
      BY <1>1, <1>5, <1>6, PieceFacts
    <3>2. m + Len(wire) = sender - 1 /\ sender' = sender + 1
      BY <1>3, <2>1
    <3>3. CASE Len(wire') = Len(wire) + 1
      BY <3>1, <3>2, <3>3
    <3>4. CASE Len(wire') = Len(wire) /\ sender = Datagram!Thanks
      BY <3>1, <3>2, <3>4
    <3>5. QED
      BY <2>3, <3>3, <3>4
  <2>5. file' = Prefix(m * Buffer)
    BY <1>1, <2>1
  <2>6. QED
    BY <1>2, <2>1, <2>2, <2>4, <2>5 DEF Following, Prefix
<1>7. wire' \in Seq(1 .. Datagram!Thanks)
  BY <1>1, <1>4, <1>5
<1>8. sender' \in 1 .. Datagram!Closed
  BY <1>1, <1>3, PieceFacts
<1>9. ~upset /\ receiver = "receiving" => \E m \in Nat : Following(m)'
  BY <1>6 DEF DatagramInv
<1>10. QED
  BY <1>1, <1>2, <1>7, <1>8, <1>9 DEF DatagramInv, Prefix

\* The datagram that was sent first comes.
LEMMA DatagramTaken ==
  ASSUME UploadsSane, DatagramInv, NEW k \in DOMAIN wire, Datagram!Receive(k)
  PROVE  DatagramInv'
<1>1. /\ receiver = "receiving" /\ wire' = Datagram!Without(k)
      /\ file' = file \o Datagram!Data(wire[k])
      /\ receiver' = (IF Len(Datagram!Data(wire[k])) < Buffer THEN "ended" ELSE receiver)
      /\ upset' = (upset \/ k > 1) /\ UNCHANGED <<size, sender>>
      /\ size \in Nat /\ sender \in 1 .. Datagram!Closed
      /\ wire \in Seq(1 .. Datagram!Thanks) /\ file \in Seq(0 .. size) /\ upset \in BOOLEAN
  BY DEF Datagram!Receive, DatagramInv
<1>2. /\ Datagram!Pieces' = Datagram!Pieces /\ Datagram!Thanks' = Datagram!Thanks
      /\ Datagram!Closed' = Datagram!Closed
  BY <1>1 DEF Datagram!Pieces, Datagram!Thanks, Datagram!Closed
<1>3. k \in 1 .. Len(wire) /\ wire[k] \in 1 .. Datagram!Thanks /\ Len(wire) \in Nat
  BY <1>1, LenProperties, ElementOfSeq
<1>4. /\ wire' \in Seq(1 .. Datagram!Thanks)
      /\ k = 1 => /\ Len(wire') = Len(wire) - 1
                  /\ \A i \in 1 .. Len(wire) - 1 : wire'[i] = wire[i + 1]
  BY <1>1, <1>3, WireWithout
<1>5. file' \in Seq(0 .. size)
  <2>1. Datagram!Data(wire[k]) \in Seq(0 .. size)
    BY <1>1, <1>3, DataBytes
  <2>2. QED
    BY <1>1, <2>1, ConcatProperties
<1>6. upset' \in BOOLEAN /\ (~upset' => ~upset /\ k = 1)
  <2>1. upset' \in BOOLEAN
    BY <1>1
  <2>2. ~upset' => ~upset /\ ~(k > 1)
    BY <1>1
  <2>3. QED
    BY <1>3, <2>1, <2>2
<1>7. receiver' \in {"receiving", "ended"}
  BY <1>1
<1>8. ASSUME ~upset'
      PROVE  /\ receiver' = "receiving" => \E m \in Nat : Following(m)'
             /\ receiver' = "ended" => file' = Prefix(size)
  <2>1. PICK m \in Nat : Following(m)
    BY <1>1, <1>6, <1>8 DEF DatagramInv
  <2>2. /\ m \in 0 .. Datagram!Pieces - 1 /\ file = Prefix(m * Buffer)
        /\ \A i \in 1 .. Len(wire) : wire[i] = m + i
        /\ sender <= Datagram!Thanks => m + Len(wire) = sender - 1
        /\ sender = Datagram!Closed => m + Len(wire) \in {Datagram!Pieces, Datagram!Thanks}
    BY <2>1 DEF Following
  <2>3. PICK d \in 1 .. Datagram!Pieces : d = m + 1 /\ wire[k] = d
    BY <1>1, <1>3, <1>6, <1>8, <2>2, PieceFacts
  <2>4. /\ Datagram!Data(d) \in Seq(0 .. size)
        /\ Len(Datagram!Data(d)) = IF d = Datagram!Pieces THEN Rest ELSE Buffer
        /\ \A i \in 1 .. Len(Datagram!Data(d)) : Datagram!Data(d)[i] = (d - 1) * Buffer + i
    BY <1>1, PieceBytes
  <2>5. PICK a \in Nat, b \in Nat : a = m * Buffer /\ b = Len(Datagram!Data(d))
    <3>1. m * Buffer \in Nat
      BY DEF UploadsSane
    <3>2. Len(Datagram!Data(d)) \in Nat
      BY <2>4, LenProperties
    <3>3. QED
      BY <3>1, <3>2
  <2>6. file' = Prefix(a + b)
    <3>1. d - 1 = m
      BY <2>3
    <3>2. /\ Datagram!Data(d) \in Seq(Nat) /\ Len(Datagram!Data(d)) = b
          /\ \A i \in 1 .. b : Datagram!Data(d)[i] = a + i
      BY <1>1, <2>4, <2>5, <3>1
    <3>3. Prefix(a) \o Datagram!Data(d) = Prefix(a + b)
      BY <3>2, PrefixGrows
    <3>4. QED
      BY <1>1, <2>2, <2>3, <2>5, <3>3
  <2>7. CASE d = Datagram!Pieces
    <3>1. a + b = size /\ b < Buffer
      <4>1. m = Datagram!Pieces - 1 /\ b = Rest
        BY <1>1, <2>3, <2>4, <2>5, <2>7, PieceFacts
      <4>2. a = (Datagram!Pieces - 1) * Buffer
        BY <2>5, <4>1
      <4>3. QED
        BY <1>1, <4>1, <4>2, PieceFacts DEF UploadsSane
    <3>2. QED
      BY <1>1, <2>3, <2>5, <2>6, <3>1
  <2>8. CASE d # Datagram!Pieces
    <3>1. b = Buffer /\ a + b = d * Buffer /\ receiver' = "receiving"
      <4>1. b = Buffer /\ Buffer \in Nat
        BY <2>4, <2>5, <2>8 DEF UploadsSane
      <4>2. d * Buffer = m * Buffer + Buffer
        BY <2>3, <4>1
      <4>3. ~(Len(Datagram!Data(wire[k])) < Buffer)
        BY <2>3, <2>5, <4>1
      <4>4. QED
        BY <1>1, <2>5, <4>1, <4>2, <4>3
    <3>2. file' = Prefix(d * Buffer)
      BY <2>6, <3>1
    <3>3. /\ d \in 0 .. Datagram!Pieces - 1
          /\ \A i \in 1 .. Len(wire') : wire'[i] = d + i
          /\ d + Len(wire') = m + Len(wire)
      <4>1. /\ Len(wire') = Len(wire) - 1
            /\ \A i \in 1 .. Len(wire) - 1 : wire'[i] = wire[i + 1]
        BY <1>4, <1>6, <1>8
      <4>2. ASSUME NEW i \in 1 .. Len(wire') PROVE wire'[i] = d + i
        <5>1. i \in 1 .. Len(wire) - 1 /\ i + 1 \in 1 .. Len(wire) /\ m + (i + 1) = d + i
          BY <1>3, <2>3, <4>1
        <5>2. wire'[i] = wire[i + 1] /\ wire[i + 1] = m + (i + 1)
          BY <2>2, <4>1, <5>1
        <5>3. QED
          BY <5>1, <5>2
      <4>3. d + Len(wire') = m + Len(wire)
        BY <1>3, <2>3, <4>1
      <4>4. d \in 0 .. Datagram!Pieces - 1
        BY <1>1, <2>3, <2>8, PieceFacts
      <4>5. QED
        BY <4>2, <4>3, <4>4
    <3>4. Following(d)'
      BY <1>1, <1>2, <2>2, <3>2, <3>3 DEF Following, Prefix
    <3>5. QED
      BY <2>3, <3>1, <3>4
  <2>9. QED
    BY <2>7, <2>8
<1>9. QED
  BY <1>1, <1>2, <1>4, <1>5, <1>6, <1>7, <1>8 DEF DatagramInv, Prefix

\* A lost datagram upsets the upload, and nothing is claimed any more.
LEMMA DatagramLost ==
  ASSUME UploadsSane, DatagramInv, NEW k \in DOMAIN wire, Datagram!Lose(k)
  PROVE  DatagramInv'
<1>1. /\ wire' = Datagram!Without(k) /\ upset' = TRUE /\ UNCHANGED <<size, sender, receiver, file>>
      /\ wire \in Seq(1 .. Datagram!Thanks)
  BY DEF Datagram!Lose, DatagramInv
<1>2. /\ Datagram!Pieces' = Datagram!Pieces /\ Datagram!Thanks' = Datagram!Thanks
      /\ Datagram!Closed' = Datagram!Closed
  BY <1>1 DEF Datagram!Pieces, Datagram!Thanks, Datagram!Closed
<1>3. k \in 1 .. Len(wire)
  BY <1>1, LenProperties
<1>4. wire' \in Seq(1 .. Datagram!Thanks)
  BY <1>1, <1>3, WireWithout
<1>5. upset' \in BOOLEAN /\ upset'
  BY <1>1
<1>6. QED
  BY <1>1, <1>2, <1>4, <1>5 DEF DatagramInv

\* Nor of a file to which a failed recvfrom has added a byte.
LEMMA DatagramFailed ==
  ASSUME UploadsSane, DatagramInv, Datagram!ReceiveError
  PROVE  DatagramInv'
<1>1. /\ receiver' \in {"ended", "crashed"} /\ file' \in {file, Append(file, 0)} /\ upset' = TRUE
      /\ UNCHANGED <<size, sender, wire>> /\ size \in Nat /\ file \in Seq(0 .. size)
  BY DEF Datagram!ReceiveError, DatagramInv
<1>2. /\ Datagram!Pieces' = Datagram!Pieces /\ Datagram!Thanks' = Datagram!Thanks
      /\ Datagram!Closed' = Datagram!Closed
  BY <1>1 DEF Datagram!Pieces, Datagram!Thanks, Datagram!Closed
<1>3. file' \in Seq(0 .. size)
  <2>1. 0 \in 0 .. size
    BY <1>1
  <2>2. Append(file, 0) \in Seq(0 .. size)
    BY <1>1, <2>1, AppendProperties
  <2>3. QED
    BY <1>1, <2>2
<1>4. upset' \in BOOLEAN /\ upset'
  BY <1>1
<1>5. QED
  BY <1>1, <1>2, <1>3, <1>4 DEF DatagramInv

\* Nor with a datagram that comes twice.
LEMMA DatagramDoubled ==
  ASSUME UploadsSane, DatagramInv, NEW k \in DOMAIN wire, Datagram!Double(k)
  PROVE  DatagramInv'
<1>1. /\ wire' = Append(wire, wire[k]) /\ upset' = TRUE
      /\ UNCHANGED <<size, sender, receiver, file>> /\ wire \in Seq(1 .. Datagram!Thanks)
  BY DEF Datagram!Double, DatagramInv
<1>2. /\ Datagram!Pieces' = Datagram!Pieces /\ Datagram!Thanks' = Datagram!Thanks
      /\ Datagram!Closed' = Datagram!Closed
  BY <1>1 DEF Datagram!Pieces, Datagram!Thanks, Datagram!Closed
<1>3. wire' \in Seq(1 .. Datagram!Thanks)
  <2>1. wire[k] \in 1 .. Datagram!Thanks
    BY <1>1, LenProperties, ElementOfSeq
  <2>2. QED
    BY <1>1, <2>1, AppendProperties
<1>4. upset' \in BOOLEAN /\ upset'
  BY <1>1
<1>5. QED
  BY <1>1, <1>2, <1>3, <1>4 DEF DatagramInv

\* Every step of sender, receiver and network keeps the invariant.
LEMMA DatagramStep ==
  UploadsSane /\ DatagramInv /\ [Datagram!Next]_(Datagram!vars) => DatagramInv'
<1> SUFFICES ASSUME UploadsSane, DatagramInv, [Datagram!Next]_(Datagram!vars) PROVE DatagramInv'
  OBVIOUS
<1>1. CASE Datagram!Send \/ Datagram!SendThanks
  BY <1>1, DatagramSent
<1>2. CASE \E k \in DOMAIN wire : Datagram!Receive(k)
  BY <1>2, DatagramTaken
<1>3. CASE \E k \in DOMAIN wire : Datagram!Lose(k)
  BY <1>3, DatagramLost
<1>4. CASE \E k \in DOMAIN wire : Datagram!Double(k)
  BY <1>4, DatagramDoubled
<1>5. CASE Datagram!ReceiveError
  BY <1>5, DatagramFailed
<1>6. CASE UNCHANGED Datagram!vars
  <2>1. UNCHANGED <<size, sender, wire, receiver, file, upset>>
    BY <1>6 DEF Datagram!vars
  <2>2. QED
    BY <2>1 DEF DatagramInv, Following, Prefix, Datagram!Pieces, Datagram!Thanks, Datagram!Closed
<1>7. QED
  BY <1>1, <1>2, <1>3, <1>4, <1>5, <1>6 DEF Datagram!Next

\* What the invariant says of the types and of a receiver that has ended.
LEMMA DatagramMeans ==
  ASSUME UploadsSane, DatagramInv
  PROVE  Datagram!TypeOK /\ Datagram!WholeUnlessUpset
<1>1. Datagram!WholeUnlessUpset
  BY DEF DatagramInv, Datagram!WholeUnlessUpset, Prefix
<1>2. /\ \A i \in DOMAIN wire : wire[i] \in 1 .. Datagram!Thanks
      /\ \A i \in DOMAIN file : file[i] \in 0 .. size
  <2>1. wire \in Seq(1 .. Datagram!Thanks) /\ file \in Seq(0 .. size)
    BY DEF DatagramInv
  <2>2. QED
    BY <2>1, ElementOfSeq, LenProperties
<1>3. QED
  BY <1>1, <1>2 DEF DatagramInv, Datagram!TypeOK

-----------------------------------------------------------------------------
(* One program at a time.  The definitions reached through the instances of   *)
(* the two modules of proofs are those of MCPrograms.                         *)

\* A buffer that holds something, and bounds that are numbers.
ProgramsSane == CP!Sane /\ FP!Numbers

\* The TCP upload of MCPrograms is the one PieceCountProofs is about.
LEMMA CountSame ==
  /\ Count!Init <=> CP!Init
  /\ Count!Next <=> CP!Next
  /\ Count!vars = CP!vars
  /\ Count!TypeOK <=> CP!TypeOK
  /\ Count!FullCallsSuffice <=> CP!FullCallsSuffice
<1>1. Count!Init <=> CP!Init
  BY DEF Count!Init, CP!Init
<1>2. Count!Next <=> CP!Next
  BY DEF Count!Next, CP!Next, Count!Client, CP!Client, Count!Server, CP!Server,
     Count!SendHeader, CP!SendHeader, Count!SendPiece, CP!SendPiece, Count!Close, CP!Close,
     Count!Closed, CP!Closed, Count!Bytes, CP!Bytes, Count!RecvHeader, CP!RecvHeader,
     Count!RecvPiece, CP!RecvPiece, Count!Received, CP!Received, Count!Calls, CP!Calls,
     Count!Finish, CP!Finish, Count!Break, CP!Break, Count!Endless, CP!Endless
<1>3. Count!vars = CP!vars
  BY DEF Count!vars, CP!vars
<1>4. Count!TypeOK <=> CP!TypeOK
  BY DEF Count!TypeOK, CP!TypeOK, Count!Closed, CP!Closed, Count!Calls, CP!Calls,
     Count!Endless, CP!Endless
<1>5. Count!FullCallsSuffice <=> CP!FullCallsSuffice
  BY DEF Count!FullCallsSuffice, CP!FullCallsSuffice, Count!Bytes, CP!Bytes
<1>6. QED
  BY <1>1, <1>2, <1>3, <1>4, <1>5

\* The FTP dialogue of MCPrograms is the one FtpDialogueProofs is about.
LEMMA FtpSame ==
  /\ Ftp!Init <=> FP!Init
  /\ Ftp!Next <=> FP!Next
  /\ Ftp!vars = FP!vars
  /\ Ftp!TypeOK <=> FP!TypeOK
  /\ Ftp!ServedInPlace <=> FP!ServedInPlace
<1>1. Ftp!Init <=> FP!Init
  BY DEF Ftp!Init, FP!Init, Ftp!Closed, FP!Closed, Ftp!NewServer, FP!NewServer
<1>2. Ftp!Next <=> FP!Next
  BY DEF
     Ftp!client, FP!client, Ftp!conn, FP!conn, Ftp!wire, FP!wire, Ftp!vars,
     FP!vars, Ftp!Codes, FP!Codes, Ftp!Class, FP!Class, Ftp!Command, FP!Command,
     Ftp!NewServer, FP!NewServer, Ftp!Closed, FP!Closed, Ftp!Say, FP!Say,
     Ftp!Fail, FP!Fail, Ftp!CloseBoth, FP!CloseBoth, Ftp!Mark, FP!Mark,
     Ftp!Setup, FP!Setup, Ftp!OpenData, FP!OpenData, Ftp!Write, FP!Write,
     Ftp!Accepted, FP!Accepted, Ftp!Following, FP!Following, Ftp!Continue,
     FP!Continue, Ftp!DataConnect, FP!DataConnect, Ftp!Conclude, FP!Conclude,
     Ftp!Hear, FP!Hear, Ftp!HearRest, FP!HearRest, Ftp!HearGone, FP!HearGone,
     Ftp!ReadListing, FP!ReadListing, Ftp!SizeKnown, FP!SizeKnown, Ftp!Enable,
     FP!Enable, Ftp!Done, FP!Done, Ftp!HangUp, FP!HangUp, Ftp!CloseData,
     FP!CloseData, Ftp!GiveUp, FP!GiveUp, Ftp!Die, FP!Die, Ftp!Fault, FP!Fault,
     Ftp!Goes, FP!Goes, Ftp!Check, FP!Check, Ftp!Wait, FP!Wait, Ftp!Join,
     FP!Join, Ftp!Restart, FP!Restart, Ftp!Receive, FP!Receive, Ftp!Leave,
     FP!Leave, Ftp!Left, FP!Left, Ftp!Replies, FP!Replies, Ftp!After, FP!After,
     Ftp!Reply, FP!Reply, Ftp!Answer, FP!Answer, Ftp!ServerCloses,
     FP!ServerCloses, Ftp!Thread, FP!Thread, Ftp!Main, FP!Main, Ftp!Next,
     FP!Next
<1>3. Ftp!vars = FP!vars
  BY DEF Ftp!client, FP!client, Ftp!conn, FP!conn, Ftp!wire, FP!wire, Ftp!vars, FP!vars
<1>4. Ftp!TypeOK <=> FP!TypeOK
  BY DEF Ftp!TypeOK, FP!TypeOK, Ftp!Codes, FP!Codes
<1>5. Ftp!ServedInPlace <=> FP!ServedInPlace
  BY DEF Ftp!ServedInPlace, FP!ServedInPlace, Ftp!Closed, FP!Closed, Ftp!NewServer, FP!NewServer
<1>6. QED
  BY <1>1, <1>2, <1>3, <1>4, <1>5

\* Every program keeps its invariant; the uploads, which share variables, keep
\* theirs when they run.
ProgramsInv ==
    /\ Base /\ ChosenInv /\ FP!Inv
    /\ program = "count" => CP!PieceInv /\ CP!CountTyped
    /\ program = "datagram" => DatagramInv

\* Each program starts in its invariant.
LEMMA ProgramsStart == ProgramsSane /\ ProgramsInit => ProgramsInv
<1> SUFFICES ASSUME ProgramsSane, ProgramsInit PROVE ProgramsInv
  OBVIOUS
<1>1. Init /\ FP!Init
  BY FtpSame DEF ProgramsInit
<1>2. program = "count" => CP!Init
  BY CountSame DEF ProgramsInit
<1>3. program = "datagram" => Datagram!Init
  BY DEF ProgramsInit
<1>4. Base /\ ChosenInv
  BY <1>1, BaseInit, CountersInit DEF Init, ChosenInv, FastestChosen
<1>5. FP!Inv
  BY <1>1, FP!InitInv DEF ProgramsSane
<1>6. program = "count" => CP!PieceInv /\ CP!CountTyped
  BY <1>2, CP!PieceInit, CP!CountTypedInit DEF ProgramsSane
<1>7. program = "datagram" => DatagramInv
  BY <1>3, DatagramInit DEF ProgramsSane, CP!Sane, UploadsSane
<1>8. QED
  BY <1>4, <1>5, <1>6, <1>7 DEF ProgramsInv

\* A step of one program is a step or a stutter of each.
LEMMA EachSteps ==
  ASSUME [ProgramsNext]_all
  PROVE  /\ program' = program /\ [Next]_vars /\ [FP!Next]_(FP!vars)
         /\ program = "count" => [CP!Next]_(CP!vars)
         /\ program = "datagram" => [Datagram!Next]_(Datagram!vars)
<1>1. CASE Choice(Next)
  <2>1. /\ program' = program /\ program = "choice" /\ Next
        /\ UNCHANGED <<uploads, ftp>>
    BY <1>1 DEF Choice, Runs
  <2>2. UNCHANGED FP!vars
    BY <2>1 DEF ftp, FP!vars, FP!client, FP!conn, FP!wire
  <2>3. QED
    BY <2>1, <2>2
<1>2. CASE Upload("count", Count!Next /\ UNCHANGED <<wire, upset>>)
  <2>1. program' = program /\ program = "count" /\ CP!Next /\ UNCHANGED <<vars, ftp>>
    BY <1>2, CountSame DEF Upload, Runs
  <2>2. UNCHANGED FP!vars
    BY <2>1 DEF ftp, FP!vars, FP!client, FP!conn, FP!wire
  <2>3. QED
    BY <2>1, <2>2
<1>3. CASE Upload("datagram", Datagram!Next /\ UNCHANGED <<stream, left, short>>)
  <2>1. program' = program /\ program = "datagram" /\ Datagram!Next /\ UNCHANGED <<vars, ftp>>
    BY <1>3 DEF Upload, Runs
  <2>2. UNCHANGED FP!vars
    BY <2>1 DEF ftp, FP!vars, FP!client, FP!conn, FP!wire
  <2>3. QED
    BY <2>1, <2>2
<1>4. CASE Runs("ftp", Ftp!Next) /\ UNCHANGED <<vars, uploads>>
  <2>1. program' = program /\ program = "ftp" /\ FP!Next /\ UNCHANGED <<vars, uploads>>
    BY <1>4, FtpSame DEF Runs
  <2>2. QED
    BY <2>1
<1>5. CASE UNCHANGED all
  <2>1. UNCHANGED <<program, vars, uploads, ftp>>
    BY <1>5 DEF all
  <2>2. UNCHANGED FP!vars
    BY <2>1 DEF ftp, FP!vars, FP!client, FP!conn, FP!wire
  <2>3. UNCHANGED CP!vars /\ UNCHANGED Datagram!vars
    BY <2>1 DEF uploads, CP!vars, Datagram!vars
  <2>4. QED
    BY <2>1, <2>2, <2>3
<1>6. QED
  BY <1>1, <1>2, <1>3, <1>4, <1>5 DEF ProgramsNext

\* A step of whichever program runs keeps the invariants of all.
LEMMA ProgramsStep == ProgramsSane /\ ProgramsInv /\ [ProgramsNext]_all => ProgramsInv'
<1> SUFFICES ASSUME ProgramsSane, ProgramsInv, [ProgramsNext]_all PROVE ProgramsInv'
  OBVIOUS
<1>1. /\ program' = program /\ [Next]_vars /\ [FP!Next]_(FP!vars)
      /\ program = "count" => [CP!Next]_(CP!vars)
      /\ program = "datagram" => [Datagram!Next]_(Datagram!vars)
  BY EachSteps
<1>2. Base' /\ ChosenInv'
  BY <1>1, BaseStep, ChosenStep DEF ProgramsInv
<1>3. FP!Inv'
  BY <1>1, FP!NextInv DEF ProgramsInv, ProgramsSane
<1>4. program = "count" => CP!PieceInv' /\ CP!CountTyped'
  BY <1>1, CP!PieceStep, CP!CountTypedStep DEF ProgramsInv, ProgramsSane
<1>5. program = "datagram" => DatagramInv'
  BY <1>1, DatagramStep DEF ProgramsInv, ProgramsSane, CP!Sane, UploadsSane
<1>6. QED
  BY <1>1, <1>2, <1>3, <1>4, <1>5 DEF ProgramsInv

\* The invariants hold in every behaviour.
LEMMA ProgramsAlways == ProgramsSane => (ProgramsSpec => []ProgramsInv)
<1> SUFFICES ASSUME ProgramsSane PROVE ProgramsSpec => []ProgramsInv
  OBVIOUS
<1>1. ProgramsInit => ProgramsInv
  BY ProgramsStart
<1>2. ProgramsInv /\ [ProgramsNext]_all => ProgramsInv'
  BY ProgramsStep
<1>3. QED
  BY <1>1, <1>2, PTL DEF ProgramsSpec

\* The variables of each program have their types while it runs.
THEOREM ProgramsTypeCorrect == ProgramsSane => (ProgramsSpec => []ProgramsTyped)
<1> SUFFICES ASSUME ProgramsSane PROVE ProgramsSpec => []ProgramsTyped
  OBVIOUS
<1>1. ProgramsInv => ProgramsTyped
  BY FtpSame, CountSame, FP!InvOrderly, FP!OrderlyTyped, CP!CountTypeOK, DatagramMeans
     DEF ProgramsInv, ProgramsTyped, Base, ProgramsSane, CP!Sane, UploadsSane
<1>2. QED
  BY <1>1, ProgramsAlways, PTL

\* Also in company the choice counts right and hands over the fastest mirrors.
THEOREM ChoiceInPrograms == ProgramsSane => (ProgramsSpec => [](CountersAgree /\ FastestChosen))
<1> SUFFICES ASSUME ProgramsSane PROVE ProgramsSpec => [](CountersAgree /\ FastestChosen)
  OBVIOUS
<1>1. ProgramsInv => CountersAgree /\ FastestChosen
  BY DEF ProgramsInv, ChosenInv, CountersInv, CountersAgree, Tight, Base, CorrectInv
<1>2. QED
  BY <1>1, ProgramsAlways, PTL

\* An FTP connection that is enabled and that its server serves delivers the byte
\* that is written next, whatever was left on it by setups that were killed, also
\* between the closes of ftp_disconnect and the -1 that they end with, and by
\* restarts of a connection that came alive meanwhile (conn.c:206-240,
\* ServerSide.c:363-400).
THEOREM FtpServedInPlace == ProgramsSane => (ProgramsSpec => []ServedInPlace)
<1> SUFFICES ASSUME ProgramsSane PROVE ProgramsSpec => []ServedInPlace
  OBVIOUS
<1>1. ProgramsInv => ServedInPlace
  BY FtpSame, FP!InvPlaced DEF ProgramsInv, ServedInPlace
<1>2. QED
  BY <1>1, ProgramsAlways, PTL

\* The upload that counts calls of recv makes enough of them (server.c:75-90).
THEOREM CountedCallsSuffice == ProgramsSane => (ProgramsSpec => []FullCallsSuffice)
<1> SUFFICES ASSUME ProgramsSane PROVE ProgramsSpec => []FullCallsSuffice
  OBVIOUS
<1>1. ProgramsInv => FullCallsSuffice
  BY CountSame, CP!PieceEnough DEF ProgramsInv, FullCallsSuffice, ProgramsSane
<1>2. QED
  BY <1>1, ProgramsAlways, PTL

\* A receiver of the UDP upload that has ended has the whole file unless a datagram
\* was lost, doubled or overtaken or recvfrom failed, at every size of the file, a
\* multiple of the buffer too.
THEOREM DatagramsWhole == ProgramsSane => (ProgramsSpec => []WholeUnlessUpset)
<1> SUFFICES ASSUME ProgramsSane PROVE ProgramsSpec => []WholeUnlessUpset
  OBVIOUS
<1>1. ProgramsInv => WholeUnlessUpset
  BY DatagramMeans DEF ProgramsInv, WholeUnlessUpset, ProgramsSane, CP!Sane, UploadsSane
<1>2. QED
  BY <1>1, ProgramsAlways, PTL
=============================================================================
