-------------------------- MODULE ServerSideProofs --------------------------
(***************************************************************************)
(* Theorems about the download engine, for any number of connections, any  *)
(* file size and buffer size, both divisions and every interleaving.       *)
(***************************************************************************)
EXTENDS ServerSide, FiniteSetTheorems, TLAPS

LEMMA ConnFacts ==
  /\ NumConn \in Nat \ {0} /\ size \in Nat /\ Conn \subseteq Nat
  /\ 0 \in Conn /\ \A i \in Conn : i < NumConn
  BY ServerSideAssumption DEF NumConn, size, Conn

\* The segment bounds are integers, whatever the division.
LEMMA SegmentType == \A i \in Conn : First(i) \in Int /\ Last(i) \in Int
<1>1. Quota \in Int
  BY ConnFacts DEF Quota
<1>2. ASSUME NEW i \in Conn PROVE First(i) \in Int
  BY <1>1, ConnFacts DEF First
<1>3. ASSUME NEW i \in Conn PROVE Last(i) \in Int
  BY <1>1, <1>2, ConnFacts DEF Last
<1>4. QED
  BY <1>2, <1>3

LEMMA StartType == Start \in [Conn -> Int]
  BY SegmentType DEF Start

LEMMA NoStateType == NoState \in StateFile /\ EmptyState \in StateFile
<1>1. Whole \in Nat
  BY ConnFacts DEF Whole
<1>2. 0 \in 0 .. Whole
  BY <1>1
<1>3. QED
  BY <1>2, StartType DEF NoState, EmptyState, StateFile
-----------------------------------------------------------------------------
LEMMA AdvanceType ==
  ASSUME TypeOK, NEW here, NEW label, Advance(here, label)
  PROVE  k' \in Conn /\ pc' \in {here, label}
<1>1. k + 1 \in Conn \/ ~(k < NumConn - 1)
  BY ConnFacts DEF TypeOK, Conn
<1>2. QED
  BY <1>1, ConnFacts DEF Advance

LEMMA InitType == Init => TypeOK
<1>1. DOMAIN [p \in {} |-> 0] \subseteq Int
  OBVIOUS
<1>2. QED
  BY <1>1, ConnFacts, StartType, NoStateType DEF Init, TypeOK

LEMMA EndsType ==
  ASSUME NEW r \in {-1, 0, 1}, ProcessEnds(r), TypeOK
  PROVE  /\ pc' = "exit" /\ k' \in Conn /\ ready' \in {-1, 0, 1}
         /\ bytes_done' \in Int /\ currentbyte' \in [Conn -> Int]
         /\ enabled' \in [Conn -> BOOLEAN] /\ state' \in [Conn -> {0, 1}]
         /\ thread' \in [Conn -> {"none", "setup", "reply", "ok", "failed", "clear", "done"}]
         /\ dying' \in [Conn -> BOOLEAN]
         /\ socket' \in [Conn -> {"closed", "header", "body", "error"}]
         /\ pos' \in [Conn -> Int]
  BY ConnFacts, StartType DEF ProcessEnds

LEMMA FaultType ==
  ASSUME TypeOK, Fault \/ NoFault
  PROVE  faults' \in Nat
  BY DEF TypeOK, Fault, NoFault

\* The steps of the main thread that only move between its phases.
LEMMA PhaseSteps ==
  ASSUME TypeOK,
         Do \/ SaveDone \/ PollIdle \/ CheckEnabled \/ CheckState \/ Tally \/ Relaunch
  PROVE  TypeOK'
<1>1. CASE Do
  BY <1>1, NoStateType DEF Do, TypeOK, connVars, NoFault
<1>2. CASE SaveDone
  BY <1>2 DEF SaveDone, TypeOK, connVars, diskVars, NoFault
<1>3. CASE PollIdle
  BY <1>3, AdvanceType DEF PollIdle, TypeOK, connVars, diskVars, NoFault
<1>4. CASE CheckEnabled
  BY <1>4, AdvanceType DEF CheckEnabled, TypeOK, connVars, diskVars, NoFault
<1>5. CASE CheckState
  <2>1. faults' \in Nat
    BY <1>5, FaultType DEF CheckState
  <2>2. /\ k' \in Conn /\ pc' \in {"join", "check", "tally"}
        /\ dying' \in [Conn -> BOOLEAN] /\ state' \in [Conn -> {0, 1}]
    BY <1>5, AdvanceType DEF CheckState, TypeOK
  <2>3. QED
    BY <1>5, <2>1, <2>2 DEF CheckState, TypeOK, diskVars
<1>6. CASE Tally
  BY <1>6 DEF Tally, TypeOK, connVars, diskVars, NoFault
<1>7. CASE Relaunch
  BY <1>7 DEF Relaunch, TypeOK, connVars, diskVars, NoFault
<1>8. QED
  BY <1>1, <1>2, <1>3, <1>4, <1>5, <1>6, <1>7

\* The steps that open and start a download, and those that end it.
LEMMA LifeCycleSteps ==
  ASSUME TypeOK,
         Open \/ StartDownload \/ CancelNothing \/ Close \/ CloseDone \/ Crash
  PROVE  TypeOK'
<1>1. CASE Open
  <2>1. st' \in StateFile /\ DOMAIN file' \subseteq Int /\ file' = [p \in DOMAIN file' |-> file'[p]]
    BY <1>1, NoStateType DEF Open, TypeOK, diskVars
  <2>2. bytes_done' \in Int /\ currentbyte' \in [Conn -> Int]
    BY <1>1, <2>1 DEF Open, StateFile
  <2>3. QED
    BY <1>1, <2>1, <2>2 DEF Open, TypeOK, connVars, NoFault
<1>2. CASE StartDownload
  <2>1. PICK wanted \in SUBSET Conn, failed \in SUBSET Conn :
          /\ Cardinality(failed) <= MaxFaults - faults
          /\ wanted = {i \in Conn : currentbyte[i] <= Last(i)}
          /\ state' = [i \in Conn |-> IF i \in wanted THEN 1 ELSE 0]
          /\ thread' = [i \in Conn |-> IF i \in wanted \ failed THEN "setup" ELSE "none"]
          /\ faults' = faults + Cardinality(failed)
    BY <1>2 DEF StartDownload
  <2>2. Conn = 0 .. NumConn - 1 /\ NumConn - 1 \in Nat
    BY ConnFacts DEF Conn
  <2>3. IsFiniteSet(failed)
    <3>1. IsFiniteSet(Conn)
      BY <2>2, FS_Interval
    <3>2. QED
      BY <3>1, FS_Subset
  <2>4. Cardinality(failed) \in Nat
    BY <2>3, FS_CardinalityType
  <2>5. state' \in [Conn -> {0, 1}] /\ thread' \in [Conn -> {"setup", "none"}]
    BY <2>1
  <2>6. faults' \in Nat
    BY <2>1, <2>4 DEF TypeOK
  <2>7. QED
    BY <1>2, <2>5, <2>6 DEF StartDownload, TypeOK, diskVars
<1>3. CASE CancelNothing
  BY <1>3, EndsType DEF CancelNothing, TypeOK, diskVars, NoFault
<1>4. CASE Close
  <2>1. faults' \in Nat /\ runs' \in Nat \ {0} /\ raced' \in [Conn -> Nat]
        /\ DOMAIN file' \subseteq Int /\ file' = [p \in DOMAIN file' |-> file'[p]]
    BY <1>4 DEF Close, TypeOK, NoFault
  <2>2. ready \in {-1, 0, 1}
    BY DEF TypeOK
  <2>3. CASE st' = NoState /\ ProcessEnds(ready)
    BY <2>1, <2>2, <2>3, NoStateType, EndsType DEF TypeOK
  <2>4. CASE ProcessEnds(ready) /\ UNCHANGED st
    BY <2>1, <2>2, <2>4, EndsType DEF TypeOK
  <2>5. CASE /\ st' = EmptyState /\ pc' = "close"
             /\ dying' = [i \in Conn |-> Running(i)]
             /\ UNCHANGED <<k, ready, bytes_done, currentbyte, enabled, state, thread, socket, pos>>
    <3>1. dying' \in [Conn -> BOOLEAN]
      BY <2>5 DEF Running
    <3>2. QED
      BY <2>1, <2>5, <3>1, NoStateType DEF TypeOK
  <2>6. QED
    BY <1>4, <2>3, <2>4, <2>5 DEF Close
<1>5. CASE CloseDone
  BY <1>5, EndsType DEF CloseDone, TypeOK, diskVars, NoFault
<1>6. CASE Crash
  BY <1>6, EndsType DEF Crash, TypeOK, diskVars, NoFault
<1>7. QED
  BY <1>1, <1>2, <1>3, <1>4, <1>5, <1>6

LEMMA SaveFieldStep ==
  ASSUME TypeOK, SaveField
  PROVE  TypeOK'
<1>1. st.fields \in Nat /\ st.fields < Whole /\ Whole = NumConn + 1 /\ NumConn \in Nat
  BY ConnFacts DEF SaveField, TypeOK, StateFile, Whole
<1>2. st.fields # 0 => st.fields - 1 \in Conn
  BY <1>1 DEF Conn
<1>3. st' \in StateFile
  <2>1. st.fields + 1 \in 0 .. Whole
    BY <1>1
  <2>2. st \in StateFile /\ bytes_done \in Int /\ currentbyte \in [Conn -> Int]
    BY DEF TypeOK
  <2>3. CASE st.fields = 0
    <3>1. st' = [st EXCEPT !.fields = 1, !.done = bytes_done]
      BY <2>3 DEF SaveField
    <3>2. 1 \in 0 .. Whole
      BY <2>1, <2>3
    <3>3. QED
      BY <3>1, <3>2, <2>2 DEF StateFile
  <2>4. CASE st.fields # 0
    <3>1. PICK c \in [Conn -> Int] : st' = [st EXCEPT !.fields = st.fields + 1, !.cur = c]
      <4>1. [st.cur EXCEPT ![st.fields - 1] = currentbyte[st.fields - 1]] \in [Conn -> Int]
        BY <1>2, <2>2, <2>4 DEF StateFile
      <4>2. QED
        BY <2>4, <4>1 DEF SaveField, Saved
    <3>2. QED
      BY <3>1, <2>1, <2>2 DEF StateFile
  <2>5. QED
    BY <2>3, <2>4
<1>4. QED
  BY <1>3 DEF SaveField, TypeOK, mainVars, connVars, NoFault

\* The steps of a setup thread.
LEMMA ThreadSteps ==
  ASSUME TypeOK, NEW i \in Conn, SetupThread(i)
  PROVE  TypeOK'
<1>1. UNCHANGED threadFrame
  BY DEF SetupThread, Request, ReadHeader, ReadBody, Enable, GiveUp, ClearState, Die
<1>2. faults' \in Nat
  BY FaultType DEF SetupThread, Request, ReadHeader, ReadBody, Enable, GiveUp, ClearState, Die
<1>3. pos' \in [Conn -> Int]
  <2>1. pos \in [Conn -> Int] /\ currentbyte \in [Conn -> Int]
    BY DEF TypeOK
  <2>2. CASE Request(i)
    <3>1. CASE UNCHANGED pos
      BY <2>1, <3>1
    <3>2. CASE pos' = [pos EXCEPT ![i] = IF Supported THEN currentbyte[i] ELSE 0]
      BY <2>1, <3>2 DEF Request
    <3>3. QED
      BY <2>2, <3>1, <3>2 DEF Request
  <2>3. CASE ReadBody(i)
    BY <2>1, <2>3 DEF ReadBody
  <2>4. CASE UNCHANGED pos
    BY <2>1, <2>4
  <2>5. QED
    BY <2>2, <2>3, <2>4 DEF SetupThread, ReadHeader, Enable, GiveUp, ClearState, Die
<1>4. /\ enabled' \in [Conn -> BOOLEAN] /\ state' \in [Conn -> {0, 1}]
      /\ dying' \in [Conn -> BOOLEAN]
  BY DEF SetupThread, Request, ReadHeader, ReadBody, Enable, GiveUp, ClearState, Die, TypeOK
<1>5. /\ thread' \in [Conn -> {"none", "setup", "reply", "ok", "failed", "clear", "done"}]
      /\ socket' \in [Conn -> {"closed", "header", "body", "error"}]
  BY DEF SetupThread, Request, ReadHeader, ReadBody, Enable, GiveUp, ClearState, Die, TypeOK
<1>6. QED
  BY <1>1, <1>2, <1>3, <1>4, <1>5 DEF TypeOK, threadFrame, mainVars, diskVars

\* The steps of the main thread that handle one connection.
LEMMA StoredType ==
  ASSUME TypeOK, NEW data, NEW w \in Int
  PROVE  /\ DOMAIN Stored(data, w) = DOMAIN file \cup (currentbyte[k] .. currentbyte[k] + w - 1)
         /\ DOMAIN Stored(data, w) \subseteq Int
         /\ Stored(data, w) = [p \in DOMAIN Stored(data, w) |-> Stored(data, w)[p]]
<1>1. currentbyte[k] \in Int
  BY DEF TypeOK
<1>2. QED
  BY <1>1 DEF Stored, TypeOK

LEMMA RemainingType == ASSUME TypeOK PROVE Remaining \in Int
  BY SegmentType DEF TypeOK, Remaining

\* What a read that brought data does to the file and the count.
LEMMA DataStep ==
  ASSUME TypeOK, PollData
  PROVE  \E n, w \in Int :
           /\ file' = Stored(Incoming(n), w)
           /\ currentbyte' = [currentbyte EXCEPT ![k] = @ + w]
           /\ bytes_done' = bytes_done + w
           /\ pos' \in [Conn -> Int]
           /\ enabled' \in [Conn -> BOOLEAN]
           /\ socket' \in [Conn -> {"closed", "header", "body", "error"}]
<1>1. PICK n \in 1 .. BufferSize :
        LET w == IF Remaining < n THEN Remaining ELSE n
        IN /\ \/ /\ socket[k] = "body" /\ pos[k] + n <= ReplyEnd(k)
                 /\ pos' = [pos EXCEPT ![k] = @ + n]
              \/ /\ socket[k] # "body"
                 /\ UNCHANGED pos
           /\ \/ Remaining < n /\ Disconnect(k)
              \/ Remaining >= n /\ UNCHANGED <<enabled, socket>>
              \/ /\ Remaining >= n /\ socket[k] = "header" /\ UNCHANGED enabled
                 /\ socket' = [socket EXCEPT ![k] = "body"]
           /\ file' = Stored(Incoming(n), w)
           /\ currentbyte' = [currentbyte EXCEPT ![k] = @ + w]
           /\ bytes_done' = Counted(n, w)
  BY DEF PollData
<1>2. n \in Int /\ (IF Remaining < n THEN Remaining ELSE n) \in Int
  BY RemainingType
<1>3. pos' \in [Conn -> Int]
  BY <1>1, <1>2 DEF TypeOK
<1>4. /\ enabled' \in [Conn -> BOOLEAN]
      /\ socket' \in [Conn -> {"closed", "header", "body", "error"}]
  BY <1>1 DEF TypeOK, Disconnect
<1>5. QED
  BY <1>1, <1>2, <1>3, <1>4 DEF Counted

LEMMA PollSteps ==
  ASSUME TypeOK, PollData \/ PollEnd \/ PollLost \/ PollFails \/ Restart
  PROVE  TypeOK'
<1>1. CASE PollData
  <2>1. PICK n, w \in Int :
           /\ file' = Stored(Incoming(n), w)
           /\ currentbyte' = [currentbyte EXCEPT ![k] = @ + w]
           /\ bytes_done' = bytes_done + w
           /\ pos' \in [Conn -> Int]
           /\ enabled' \in [Conn -> BOOLEAN]
           /\ socket' \in [Conn -> {"closed", "header", "body", "error"}]
    BY <1>1, DataStep
  <2>2. DOMAIN file' \subseteq Int /\ file' = [p \in DOMAIN file' |-> file'[p]]
    BY <2>1, StoredType
  <2>3. currentbyte' \in [Conn -> Int] /\ bytes_done' \in Int
    BY <2>1 DEF TypeOK
  <2>4. k' \in Conn /\ pc' \in {"poll", "check", "do"}
    BY <1>1, AdvanceType DEF PollData
  <2>5. QED
    BY <1>1, <2>1, <2>2, <2>3, <2>4 DEF PollData, TypeOK, NoFault
<1>2. CASE PollEnd
  <2>1. k' \in Conn /\ pc' \in {"poll", "check", "do"} /\ faults' \in Nat
    BY <1>2, AdvanceType, FaultType DEF PollEnd
  <2>2. QED
    BY <1>2, <2>1 DEF PollEnd, Disconnect, TypeOK, diskVars
<1>3. CASE PollLost
  <2>1. k' \in Conn /\ pc' \in {"poll", "check", "do"} /\ faults' \in Nat
    BY <1>3, AdvanceType, FaultType DEF PollLost
  <2>2. QED
    BY <1>3, <2>1 DEF PollLost, Disconnect, TypeOK, diskVars
<1>4. CASE PollFails
  <2>1. DOMAIN file' \subseteq Int /\ file' = [p \in DOMAIN file' |-> file'[p]]
    <3>1. CASE UNCHANGED file
      BY <3>1 DEF TypeOK
    <3>2. CASE \E w \in Int : file' = Stored(Incoming(w), w)
      <4>1. PICK w \in Int : file' = Stored(Incoming(w), w)
        BY <3>2
      <4>2. QED
        BY <4>1, StoredType
    <3>3. QED
      BY <1>4, <3>1, <3>2 DEF PollFails
  <2>2. k' \in Conn /\ pc' = "do" /\ ready' = -1 /\ faults' \in Nat
    BY <1>4, ConnFacts, FaultType DEF PollFails
  <2>3. QED
    BY <1>4, <2>1, <2>2 DEF PollFails, TypeOK, connVars
<1>5. CASE Restart
  <2>1. k' \in Conn /\ pc' \in {"check", "tally"} /\ faults' \in Nat
    BY <1>5, AdvanceType, FaultType DEF Restart
  <2>2. QED
    BY <1>5, <2>1 DEF Restart, TypeOK, diskVars
<1>6. QED
  BY <1>1, <1>2, <1>3, <1>4, <1>5

LEMMA TypeStep == TypeOK /\ [Next]_vars => TypeOK'
<1> SUFFICES ASSUME TypeOK, [Next]_vars PROVE TypeOK'
  OBVIOUS
<1>1. CASE MainThread
  BY <1>1, PhaseSteps, LifeCycleSteps, SaveFieldStep, PollSteps DEF MainThread
<1>2. CASE \E i \in Conn : SetupThread(i)
  BY <1>2, ThreadSteps
<1>3. CASE Crash \/ Relaunch
  BY <1>3, PhaseSteps, LifeCycleSteps
<1>4. CASE UNCHANGED vars
  BY <1>4 DEF vars, mainVars, connVars, diskVars, TypeOK
<1>5. QED
  BY <1>1, <1>2, <1>3, <1>4 DEF Next

\* The engine's variables keep their types: in particular every position it
\* computes is a number and every phase it reaches is one of the code's.
THEOREM TypeCorrect == Spec => []TypeOK
  BY InitType, TypeStep, PTL DEF Spec
-----------------------------------------------------------------------------
(* Nothing skipped: what the engine and its state file claim to have passed *)
(* is in the output file.  StateFileHonest alone says nothing of the field *)
(* that a save in progress copies, and NothingSkipped nothing of what a    *)
(* relaunch reads; together they are inductive.                            *)

NoGap == TypeOK /\ Claimed(currentbyte) /\ Claimed(st.cur)

\* Where a new download starts, nothing is claimed.
LEMMA StartClaimsNothing ==
  \A i \in Conn : First(i) .. Start[i] - 1 = {}
  BY SegmentType DEF Start

\* A claim survives any step that removes no position from the file.
LEMMA ClaimKept ==
  ASSUME NEW cur, Claimed(cur), NEW D, DOMAIN file \subseteq D
  PROVE  \A i \in Conn : First(i) .. cur[i] - 1 \subseteq D
  BY DEF Claimed

LEMMA NoGapInit == Init => NoGap
<1> SUFFICES ASSUME Init PROVE NoGap
  OBVIOUS
<1>1. currentbyte = Start /\ st.cur = Start
  BY DEF Init, NoState
<1>2. QED
  BY <1>1, InitType, StartClaimsNothing DEF NoGap, Claimed

\* The steps that touch neither the file nor any claim.
LEMMA ClaimsUntouched ==
  ASSUME NoGap, UNCHANGED <<file, currentbyte>>, UNCHANGED st \/ st'.cur = Start
  PROVE  Claimed(currentbyte)' /\ Claimed(st.cur)'
  BY StartClaimsNothing DEF NoGap, Claimed

\* A process that ends takes its claims with it.
LEMMA ClaimsEnd ==
  ASSUME NoGap, UNCHANGED file, currentbyte' = Start, UNCHANGED st \/ st'.cur = Start
  PROVE  Claimed(currentbyte)' /\ Claimed(st.cur)'
  BY StartClaimsNothing DEF NoGap, Claimed

LEMMA ClaimsOpen ==
  ASSUME NoGap, Open
  PROVE  Claimed(currentbyte)' /\ Claimed(st.cur)'
<1>1. currentbyte' = st'.cur
  BY DEF Open
<1>2. CASE UNCHANGED diskVars
  BY <1>1, <1>2 DEF NoGap, Claimed, diskVars
<1>3. CASE st' = NoState
  BY <1>1, <1>3, StartClaimsNothing DEF Claimed, NoState
<1>4. QED
  BY <1>2, <1>3 DEF Open

\* save_state copies a position the connection has passed.
LEMMA ClaimsSaved ==
  ASSUME NoGap, SaveField
  PROVE  Claimed(currentbyte)' /\ Claimed(st.cur)'
<1>1. UNCHANGED <<file, currentbyte>>
  BY DEF SaveField, mainVars
<1>2. Claimed(currentbyte)'
  BY <1>1 DEF NoGap, Claimed
<1>3. st.cur \in [Conn -> Int]
  BY DEF NoGap, TypeOK, StateFile
<1>4. ASSUME NEW i \in Conn PROVE st'.cur[i] \in {st.cur[i], currentbyte[i]}
  BY <1>3 DEF SaveField, Saved, NoGap, TypeOK, StateFile
<1>5. Claimed(st.cur)'
  BY <1>1, <1>4 DEF NoGap, Claimed
<1>6. QED
  BY <1>2, <1>5

\* The bytes are written before currentbyte moves past them.
LEMMA ClaimsData ==
  ASSUME NoGap, PollData
  PROVE  Claimed(currentbyte)' /\ Claimed(st.cur)'
<1>1. TypeOK /\ k \in Conn /\ currentbyte \in [Conn -> Int] /\ UNCHANGED st
  BY DEF NoGap, TypeOK, PollData
<1>2. PICK n, w \in Int :
        /\ file' = Stored(Incoming(n), w)
        /\ currentbyte' = [currentbyte EXCEPT ![k] = @ + w]
  BY <1>1, DataStep
<1>3. DOMAIN file' = DOMAIN file \cup (currentbyte[k] .. currentbyte[k] + w - 1)
  BY <1>1, <1>2, StoredType
<1>4. ASSUME NEW i \in Conn PROVE First(i) .. currentbyte'[i] - 1 \subseteq DOMAIN file'
  <2>1. First(i) .. currentbyte[i] - 1 \subseteq DOMAIN file
    BY DEF NoGap, Claimed
  <2>2. CASE i = k
    <3>1. currentbyte'[i] = currentbyte[i] + w
      BY <1>1, <1>2, <2>2
    <3>2. First(i) \in Int /\ currentbyte[i] \in Int
      BY <1>1, SegmentType
    <3>3. First(i) .. currentbyte'[i] - 1
            \subseteq (First(i) .. currentbyte[i] - 1) \cup (currentbyte[i] .. currentbyte[i] + w - 1)
      BY <3>1, <3>2
    <3>4. QED
      BY <1>3, <2>1, <2>2, <3>3
  <2>3. CASE i # k
    BY <1>1, <1>2, <1>3, <2>1, <2>3
  <2>4. QED
    BY <2>2, <2>3
<1>5. Claimed(st.cur)'
  BY <1>1, <1>3 DEF NoGap, Claimed
<1>6. QED
  BY <1>4, <1>5 DEF Claimed

\* A write that fails leaves bytes that nothing claims.
LEMMA ClaimsFailure ==
  ASSUME NoGap, PollFails
  PROVE  Claimed(currentbyte)' /\ Claimed(st.cur)'
<1>1. DOMAIN file \subseteq DOMAIN file'
  <2>1. CASE \E w \in Int : file' = Stored(Incoming(w), w)
    <3>1. PICK w \in Int : file' = Stored(Incoming(w), w)
      BY <2>1
    <3>2. QED
      BY <3>1, StoredType DEF NoGap
  <2>2. QED
    BY <2>1 DEF PollFails
<1>2. UNCHANGED <<st, currentbyte>>
  BY DEF PollFails
<1>3. QED
  BY <1>1, <1>2 DEF NoGap, Claimed

LEMMA NoGapStep == NoGap /\ [Next]_vars => NoGap'
<1> SUFFICES ASSUME NoGap, [Next]_vars PROVE NoGap'
  OBVIOUS
<1>1. TypeOK'
  BY TypeStep DEF NoGap
<1>2. Claimed(currentbyte)' /\ Claimed(st.cur)'
  <2>1. CASE Open
    BY <2>1, ClaimsOpen
  <2>2. CASE SaveField
    BY <2>2, ClaimsSaved
  <2>3. CASE PollData
    BY <2>3, ClaimsData
  <2>4. CASE PollFails
    BY <2>4, ClaimsFailure
  <2>5. CASE CancelNothing \/ CloseDone \/ Crash
    <3>1. UNCHANGED <<file, st>> /\ currentbyte' = Start
      BY <2>5 DEF CancelNothing, CloseDone, Crash, ProcessEnds, diskVars
    <3>2. QED
      BY <3>1, ClaimsEnd
  <2>6. CASE Close
    <3>1. UNCHANGED file /\ (UNCHANGED st \/ st'.cur = Start)
      BY <2>6 DEF Close, NoState, EmptyState
    <3>2. UNCHANGED currentbyte \/ currentbyte' = Start
      BY <2>6 DEF Close, ProcessEnds
    <3>3. QED
      BY <3>1, <3>2, ClaimsEnd, ClaimsUntouched
  <2>7. CASE Do
    BY <2>7, ClaimsUntouched DEF Do, EmptyState
  <2>8. CASE StartDownload \/ SaveDone \/ PollIdle \/ PollEnd \/ PollLost
             \/ CheckEnabled \/ CheckState \/ Restart \/ Tally \/ Relaunch
    BY <2>8, ClaimsUntouched
       DEF StartDownload, SaveDone, PollIdle, PollEnd, PollLost, CheckEnabled, CheckState,
           Restart, Tally, Relaunch, diskVars
  <2>9. CASE \E i \in Conn : SetupThread(i)
    <3>1. UNCHANGED threadFrame
      BY <2>9 DEF SetupThread, Request, ReadHeader, ReadBody, Enable, GiveUp, ClearState, Die
    <3>2. QED
      BY <3>1, ClaimsUntouched DEF threadFrame, mainVars, diskVars
  <2>10. CASE UNCHANGED vars
    BY <2>10, ClaimsUntouched DEF vars, mainVars, diskVars
  <2>11. QED
    BY <2>1, <2>2, <2>3, <2>4, <2>5, <2>6, <2>7, <2>8, <2>9, <2>10 DEF Next, MainThread
<1>3. QED
  BY <1>1, <1>2 DEF NoGap

LEMMA NoGapAlways == Spec => []NoGap
  BY NoGapInit, NoGapStep, PTL DEF Spec

\* A resumed or running download has written every position its connections
\* have passed, whatever failed before and wherever earlier runs were killed.
THEOREM NothingIsSkipped == Spec => []NothingSkipped
<1>1. NoGap => NothingSkipped
  BY DEF NoGap, NothingSkipped
<1>2. QED
  BY <1>1, NoGapAlways, PTL

\* The state file, complete or cut short by a kill, claims no position that the
\* output file lacks.
THEOREM StateFileIsHonest == Spec => []StateFileHonest
<1>1. NoGap => StateFileHonest
  BY DEF NoGap, StateFileHonest
<1>2. QED
  BY <1>1, NoGapAlways, PTL
-----------------------------------------------------------------------------
(***************************************************************************)
(* Connections at their byte.  conn_check reads enabled and state in two   *)
(* steps and cancels threads that may go on for a while: a connection that *)
(* lost such a race in this run may be set up twice, on one socket.  Every *)
(* other one goes through the stages below, so that http_exec reads headers *)
(* only, and what its socket delivers next is what is written next.        *)
(***************************************************************************)

\* A server that honours start offsets delivers the byte to be written next.
Aligned(i) == Supported => pos[i] = currentbyte[i]

\* Between a setup and the next one, a connection is up and its socket delivers
\* the body, or it is down and its socket is closed.
Settled(i) ==
  \/ enabled[i] /\ socket[i] = "body" /\ Aligned(i)
  \/ ~enabled[i] /\ socket[i] = "closed"

\* What each stage of the setup thread of connection i says of the connection.
Staged(i) ==
  /\ thread[i] \in {"none", "setup"} => ~enabled[i] /\ socket[i] = "closed"
  /\ thread[i] = "reply" => ~enabled[i] /\ socket[i] = "header" /\ Aligned(i)
  /\ thread[i] = "ok" => ~enabled[i] /\ socket[i] = "body" /\ Aligned(i)
  /\ thread[i] = "failed" => ~enabled[i]
  /\ thread[i] = "clear" => Settled(i)
  /\ thread[i] = "done" /\ pc # "close" => Settled(i)
  /\ Running(i) => state[i] = 1
  /\ dying[i] => pc = "close"

Calm(i) == raced[i] # runs

\* Between two runs no connection is set up.
Quiet ==
  pc \in {"exit", "open", "start"} =>
    \A i \in Conn : thread[i] = "none" /\ ~enabled[i] /\ socket[i] = "closed" /\ ~dying[i]

StagedInv == TypeOK /\ Quiet /\ \A i \in Conn : Calm(i) => Staged(i)
-----------------------------------------------------------------------------
LEMMA StagedInit == Init => StagedInv
<1> SUFFICES ASSUME Init PROVE StagedInv
  OBVIOUS
<1>1. TypeOK
  BY InitType
<1>2. QED
  BY <1>1 DEF Init, StagedInv, Quiet, Staged, Running

LEMMA StagedQuiet ==
  ASSUME \A i \in Conn : thread[i] = "none" /\ ~enabled[i] /\ socket[i] = "closed" /\ ~dying[i]
  PROVE  Quiet /\ \A i \in Conn : Staged(i)
  BY DEF Quiet, Staged, Running

LEMMA StagedEnds ==
  ASSUME NEW r, ProcessEnds(r)
  PROVE  Quiet' /\ \A i \in Conn : Staged(i)'
  BY DEF ProcessEnds, Quiet, Staged, Running

\* A calm connection whose socket the main thread reads is past its header.
LEMMA StagedReadable ==
  ASSUME StagedInv, pc = "poll", enabled[k], Calm(k)
  PROVE  /\ socket[k] = "body" /\ Aligned(k) /\ Staged(k)
         /\ thread[k] \in {"clear", "done"}
<1>1. k \in Conn /\ Staged(k)
  BY DEF StagedInv, TypeOK
<1>2. thread[k] \in {"none", "setup", "reply", "ok", "failed", "clear", "done"}
  BY <1>1 DEF StagedInv, TypeOK
<1>3. QED
  BY <1>1, <1>2 DEF Staged, Settled

\* A step that handles connection k leaves the others as they were.
LEMMA StagedOthers ==
  ASSUME NEW i \in Conn, Staged(i), UNCHANGED <<thread, state, dying>>,
         pos'[i] = pos[i], currentbyte'[i] = currentbyte[i],
         enabled'[i] = enabled[i], socket'[i] = socket[i],
         pc # "close", pc' # "close"
  PROVE  Staged(i)'
  BY DEF Staged, Settled, Aligned, Running

\* One that it handles, whose setup was over, stays settled.
LEMMA StagedSettled ==
  ASSUME NEW i \in Conn, Staged(i), UNCHANGED <<thread, state, dying>>,
         thread[i] \in {"clear", "done"}, Settled(i)', pc # "close", pc' # "close"
  PROVE  Staged(i)'
  BY DEF Staged, Running

LEMMA StagedData ==
  ASSUME StagedInv, PollData
  PROVE  Quiet' /\ \A i \in Conn : Calm(i)' => Staged(i)'
<1>1. /\ k \in Conn /\ TypeOK /\ enabled[k] /\ pc = "poll"
      /\ UNCHANGED <<thread, state, dying, raced, runs>> /\ pc' \in {"poll", "check", "do"}
  BY AdvanceType DEF StagedInv, TypeOK, PollData, Readable
<1>2. PICK n \in 1 .. BufferSize :
        LET w == IF Remaining < n THEN Remaining ELSE n
        IN /\ \/ /\ socket[k] = "body" /\ pos[k] + n <= ReplyEnd(k)
                 /\ pos' = [pos EXCEPT ![k] = @ + n]
              \/ /\ socket[k] # "body"
                 /\ UNCHANGED pos
           /\ \/ Remaining < n /\ Disconnect(k)
              \/ Remaining >= n /\ UNCHANGED <<enabled, socket>>
              \/ /\ Remaining >= n /\ socket[k] = "header" /\ UNCHANGED enabled
                 /\ socket' = [socket EXCEPT ![k] = "body"]
           /\ currentbyte' = [currentbyte EXCEPT ![k] = @ + w]
  BY DEF PollData
<1> DEFINE w == IF Remaining < n THEN Remaining ELSE n
<1>3. n \in Int /\ Remaining \in Int
  BY <1>1, RemainingType
<1>4. ASSUME NEW i \in Conn, Calm(i)' PROVE Staged(i)'
  <2>1. Calm(i) /\ Staged(i)
    BY <1>1, <1>4 DEF Calm, StagedInv
  <2>2. CASE i = k
    <3>1. socket[k] = "body" /\ Aligned(k) /\ thread[k] \in {"clear", "done"}
      BY <1>1, <2>1, <2>2, StagedReadable
    <3>2. CASE Remaining < n
      <4>1. ~enabled'[i] /\ socket'[i] = "closed"
        BY <1>1, <1>2, <1>3, <2>2, <3>2 DEF Disconnect, TypeOK
      <4>2. QED
        BY <1>1, <2>1, <2>2, <3>1, <4>1, StagedSettled DEF Settled
    <3>3. CASE Remaining >= n
      <4>1. /\ pos'[i] = pos[i] + n /\ currentbyte'[i] = currentbyte[i] + n
            /\ UNCHANGED <<enabled, socket>>
        BY <1>1, <1>2, <1>3, <2>2, <3>1, <3>3 DEF TypeOK
      <4>2. Settled(i)'
        BY <1>1, <2>2, <3>1, <4>1 DEF Settled, Aligned
      <4>3. QED
        BY <1>1, <2>1, <2>2, <3>1, <4>2, StagedSettled
    <3>4. QED
      BY <1>3, <3>2, <3>3
  <2>3. CASE i # k
    <3>1. /\ pos'[i] = pos[i] /\ currentbyte'[i] = currentbyte[i]
          /\ enabled'[i] = enabled[i] /\ socket'[i] = socket[i]
      BY <1>1, <1>2, <2>3 DEF TypeOK, Disconnect
    <3>2. QED
      BY <1>1, <2>1, <3>1, StagedOthers
  <2>4. QED
    BY <2>2, <2>3
<1>5. QED
  BY <1>1, <1>4 DEF Quiet

LEMMA StagedDisconnect ==
  ASSUME StagedInv, PollEnd \/ PollLost
  PROVE  Quiet' /\ \A i \in Conn : Calm(i)' => Staged(i)'
<1>1. /\ k \in Conn /\ enabled[k] /\ pc = "poll" /\ Disconnect(k)
      /\ UNCHANGED <<thread, state, dying, pos, currentbyte, raced, runs>>
      /\ pc' \in {"poll", "check", "do"}
  BY AdvanceType DEF StagedInv, TypeOK, PollEnd, PollLost, Readable
<1>2. ASSUME NEW i \in Conn, Calm(i)' PROVE Staged(i)'
  <2>1. Calm(i) /\ Staged(i)
    BY <1>1, <1>2 DEF Calm, StagedInv
  <2>2. CASE i = k
    <3>1. thread[k] \in {"clear", "done"}
      BY <1>1, <2>1, <2>2, StagedReadable
    <3>2. Settled(i)'
      BY <1>1, <2>2 DEF Disconnect, Settled, StagedInv, TypeOK
    <3>3. QED
      BY <1>1, <2>1, <2>2, <3>1, <3>2, StagedSettled
  <2>3. CASE i # k
    <3>1. enabled'[i] = enabled[i] /\ socket'[i] = socket[i]
      BY <1>1, <2>3 DEF Disconnect, StagedInv, TypeOK
    <3>2. QED
      BY <1>1, <2>1, <3>1, StagedOthers
  <2>4. QED
    BY <2>2, <2>3
<1>3. QED
  BY <1>1, <1>2 DEF Quiet

LEMMA StagedStart ==
  ASSUME StagedInv, StartDownload
  PROVE  Quiet' /\ \A i \in Conn : Staged(i)'
<1>1. pc = "start" /\ pc' = "do" /\ UNCHANGED <<enabled, dying, socket>>
  BY DEF StartDownload
<1>2. PICK wanted, failed :
        /\ state' = [i \in Conn |-> IF i \in wanted THEN 1 ELSE 0]
        /\ thread' = [i \in Conn |-> IF i \in wanted \ failed THEN "setup" ELSE "none"]
  BY DEF StartDownload
<1>3. \A i \in Conn : ~enabled[i] /\ socket[i] = "closed" /\ ~dying[i]
  BY <1>1 DEF StagedInv, Quiet
<1>4. QED
  BY <1>1, <1>2, <1>3 DEF Quiet, Staged, Running

\* The cancellation and the restart of a connection that has been enabled are
\* the races; a restart without a race finds the socket closed.
LEMMA StagedCheck ==
  ASSUME StagedInv, CheckEnabled \/ CheckState \/ Restart
  PROVE  Quiet' /\ \A i \in Conn : Calm(i)' => Staged(i)'
<1>1. /\ k \in Conn /\ TypeOK /\ UNCHANGED <<enabled, socket, pos, currentbyte, runs>>
      /\ pc \in {"check", "aborted", "join"} /\ pc' \in {"check", "tally", "aborted", "join"}
  BY AdvanceType DEF StagedInv, TypeOK, CheckEnabled, CheckState, Restart, connVars
<1>2. ASSUME NEW i \in Conn, Calm(i)' PROVE Calm(i) /\ Staged(i)
  <2>1. raced'[i] \in {raced[i], runs}
    BY <1>1 DEF CheckEnabled, CheckState, Restart, TypeOK
  <2>2. Calm(i)
    BY <1>1, <1>2, <2>1 DEF Calm
  <2>3. QED
    BY <2>2 DEF StagedInv
<1>3. CASE CheckEnabled
  <2>1. UNCHANGED <<thread, state, dying>>
    BY <1>3 DEF CheckEnabled, connVars
  <2>2. ASSUME NEW i \in Conn, Calm(i)' PROVE Staged(i)'
    BY <1>1, <1>2, <2>1, <2>2, StagedOthers
  <2>3. QED
    BY <1>1, <2>2 DEF Quiet
<1>4. CASE CheckState
  <2>1. ASSUME NEW i \in Conn, Calm(i)' PROVE Staged(i)'
    <3>1. UNCHANGED thread
      BY <1>4 DEF CheckState
    <3>2. state'[i] = state[i] /\ dying'[i] = dying[i]
      BY <1>1, <1>4, <2>1 DEF CheckState, Calm, TypeOK
    <3>3. QED
      BY <1>1, <1>2, <2>1, <3>1, <3>2 DEF Staged, Settled, Aligned, Running
  <2>2. QED
    BY <1>1, <2>1 DEF Quiet
<1>5. CASE Restart
  <2>1. /\ pc = "join" /\ thread[k] = "done"
        /\ state' = [state EXCEPT ![k] = 1] /\ dying' = [dying EXCEPT ![k] = FALSE]
        /\ \/ thread' = [thread EXCEPT ![k] = "setup"]
           \/ thread' = [thread EXCEPT ![k] = "none"]
    BY <1>5 DEF Restart
  <2>2. ASSUME NEW i \in Conn, Calm(i)' PROVE Staged(i)'
    <3>1. Staged(i)
      BY <1>2, <2>2
    <3>2. CASE i = k
      <4>1. ~enabled[k]
        BY <1>1, <1>5, <2>2, <3>2 DEF Restart, Calm, TypeOK
      <4>2. socket[k] = "closed"
        BY <2>1, <3>1, <3>2, <4>1 DEF Staged, Settled
      <4>3. thread'[i] \in {"none", "setup"} /\ state'[i] = 1 /\ ~dying'[i]
        BY <1>1, <2>1, <3>2 DEF TypeOK
      <4>4. QED
        BY <1>1, <3>2, <4>1, <4>2, <4>3 DEF Staged, Running
    <3>3. CASE i # k
      <4>1. thread'[i] = thread[i] /\ state'[i] = state[i] /\ dying'[i] = dying[i]
        BY <1>1, <2>1, <3>3 DEF TypeOK
      <4>2. QED
        BY <1>1, <3>1, <4>1 DEF Staged, Settled, Aligned, Running
    <3>4. QED
      BY <3>2, <3>3
  <2>3. QED
    BY <1>1, <2>2 DEF Quiet
<1>6. QED
  BY <1>3, <1>4, <1>5

\* A step of one setup thread leaves every other connection alone.
LEMMA StagedThread ==
  ASSUME StagedInv, NEW i \in Conn, SetupThread(i)
  PROVE  Quiet' /\ \A j \in Conn : Calm(j)' => Staged(j)'
<1>1. TypeOK /\ UNCHANGED threadFrame
  BY DEF StagedInv, SetupThread, Request, ReadHeader, ReadBody, Enable, GiveUp, ClearState, Die
<1>2. UNCHANGED <<pc, currentbyte, dying, raced, runs>> /\ Running(i)
  BY <1>1 DEF SetupThread, Request, ReadHeader, ReadBody, Enable, GiveUp, ClearState, Die,
              At, Running, threadFrame, mainVars
<1>3. ASSUME NEW j \in Conn, Calm(j)' PROVE Staged(j)
  BY <1>2, <1>3 DEF Calm, StagedInv
<1>4. ASSUME NEW j \in Conn, j # i, Calm(j)' PROVE Staged(j)'
  <2>1. Staged(j)
    BY <1>3, <1>4
  <2>2. /\ thread'[j] = thread[j] /\ enabled'[j] = enabled[j] /\ state'[j] = state[j]
        /\ socket'[j] = socket[j] /\ pos'[j] = pos[j]
    BY <1>1, <1>4 DEF SetupThread, Request, ReadHeader, ReadBody, Enable, GiveUp, ClearState,
                      Die, TypeOK
  <2>3. QED
    BY <1>2, <1>4, <2>1, <2>2 DEF Staged, Settled, Aligned, Running
<1>5. ASSUME Calm(i)' PROVE Staged(i)'
  <2>0. Staged(i)
    BY <1>3, <1>5
  <2>1. CASE Request(i)
    BY <1>1, <1>2, <2>0, <2>1 DEF Request, At, Staged, Aligned, Running, TypeOK
  <2>2. CASE ReadHeader(i)
    BY <1>1, <1>2, <2>0, <2>2 DEF ReadHeader, At, Staged, Aligned, Running, TypeOK
  <2>3. CASE ReadBody(i)
    BY <1>1, <1>2, <2>0, <2>3 DEF ReadBody, At, Staged, Running, TypeOK
  <2>4. CASE Enable(i)
    BY <1>1, <1>2, <2>0, <2>4 DEF Enable, At, Staged, Settled, Aligned, Running, TypeOK
  <2>5. CASE GiveUp(i)
    BY <1>1, <1>2, <2>0, <2>5 DEF GiveUp, At, Staged, Settled, Running, TypeOK
  <2>6. CASE ClearState(i)
    BY <1>1, <1>2, <2>0, <2>6 DEF ClearState, At, Staged, Settled, Aligned, Running, TypeOK
  <2>7. CASE Die(i)
    BY <1>1, <1>2, <2>0, <2>7 DEF Die, Staged, Running, TypeOK
  <2>8. QED
    BY <2>1, <2>2, <2>3, <2>4, <2>5, <2>6, <2>7 DEF SetupThread
<1>6. Quiet'
  BY <1>2 DEF StagedInv, Quiet, Running
<1>7. QED
  BY <1>4, <1>5, <1>6
-----------------------------------------------------------------------------
LEMMA StagedStep == StagedInv /\ [Next]_vars => StagedInv'
<1> SUFFICES ASSUME StagedInv, [Next]_vars PROVE StagedInv'
  OBVIOUS
<1>1. TypeOK'
  BY TypeStep DEF StagedInv
<1>2. Quiet' /\ \A i \in Conn : Calm(i)' => Staged(i)'
  <2>1. CASE PollData
    BY <2>1, StagedData
  <2>2. CASE PollEnd \/ PollLost
    BY <2>2, StagedDisconnect
  <2>3. CASE StartDownload
    BY <2>3, StagedStart
  <2>4. CASE CheckEnabled \/ CheckState \/ Restart
    BY <2>4, StagedCheck
  <2>5. CASE CancelNothing \/ CloseDone \/ Crash
    BY <2>5, StagedEnds DEF CancelNothing, CloseDone, Crash
  <2>6. CASE Close
    <3>1. CASE ProcessEnds(ready)
      BY <3>1, StagedEnds
    <3>2. CASE /\ pc' = "close" /\ dying' = [i \in Conn |-> Running(i)]
               /\ UNCHANGED <<k, ready, bytes_done, currentbyte, enabled, state, thread, socket, pos>>
      <4>1. UNCHANGED <<raced, runs>> /\ pc = "do"
        BY <2>6 DEF Close
      <4>2. ASSUME NEW i \in Conn, Calm(i)' PROVE Staged(i)'
        BY <3>2, <4>1, <4>2 DEF StagedInv, Calm, Staged, Settled, Aligned, Running
      <4>3. QED
        BY <3>2, <4>2 DEF Quiet
    <3>3. QED
      BY <2>6, <3>1, <3>2 DEF Close
  <2>7. CASE Open \/ Relaunch
    <3>1. \A i \in Conn : thread'[i] = "none" /\ ~enabled'[i] /\ socket'[i] = "closed" /\ ~dying'[i]
      BY <2>7 DEF Open, Relaunch, connVars, StagedInv, Quiet
    <3>2. QED
      BY <3>1 DEF Quiet, Staged, Running
  <2>8. CASE Do \/ SaveField \/ SaveDone \/ PollIdle \/ PollFails \/ Tally
    <3>1. /\ UNCHANGED <<connVars, currentbyte, raced, runs>>
          /\ pc' = "close" <=> pc = "close"
          /\ pc' \notin {"exit", "open", "start"}
      BY <2>8, AdvanceType DEF Do, SaveField, SaveDone, PollIdle, PollFails, Tally, mainVars,
                               StagedInv
    <3>2. ASSUME NEW i \in Conn, Calm(i)' PROVE Staged(i)'
      BY <3>1, <3>2 DEF StagedInv, Calm, Staged, Settled, Aligned, Running, connVars
    <3>3. QED
      BY <3>1, <3>2 DEF Quiet
  <2>9. CASE \E i \in Conn : SetupThread(i)
    BY <2>9, StagedThread
  <2>10. CASE UNCHANGED vars
    BY <2>10 DEF vars, mainVars, connVars, StagedInv, Quiet, Calm, Staged, Settled, Aligned, Running
  <2>11. QED
    BY <2>1, <2>2, <2>3, <2>4, <2>5, <2>6, <2>7, <2>8, <2>9, <2>10 DEF Next, MainThread
<1>3. QED
  BY <1>1, <1>2 DEF StagedInv

LEMMA StagedAlways == Spec => []StagedInv
  BY StagedInit, StagedStep, PTL DEF Spec

\* http_exec consumes no byte of the file, whatever the server, the timing of
\* the setups, the failures, kills and relaunches, unless conn_check cancelled
\* that setup or restarted that connection while it was enabled.
THEOREM HeaderReadIsSafe == Spec => []HeaderReadSparesData
<1>1. StagedInv => HeaderReadSparesData
  BY DEF StagedInv, Calm, Staged, HeaderReadSparesData
<1>2. QED
  BY <1>1, StagedAlways, PTL
-----------------------------------------------------------------------------
(***************************************************************************)
(* Every byte at its place, with a server that honours start offsets and a *)
(* file the segments do not overrun.  What a connection writes stays in its *)
(* segment: a race damages no byte of another one.                         *)
(***************************************************************************)

Segmented == Supported /\ \A i \in Conn : First(i) <= Last(i) + 1

Within(cur) == \A i \in Conn : cur[i] \in First(i) .. Last(i) + 1

PlacedInv ==
  /\ StagedInv /\ BytesInPlace
  /\ Within(currentbyte) /\ Within(st.cur)

LEMMA StartWithin == Segmented => Within(Start)
  BY SegmentType DEF Segmented, Within, Start

LEMMA PlacedInit == Segmented /\ Init => PlacedInv
  BY StagedInit, StartWithin DEF Init, PlacedInv, BytesInPlace, NoState

\* A connection writes at a position of its segment the byte that belongs there,
\* unless it lost a race.
LEMMA PlacedStored ==
  ASSUME Segmented, PlacedInv, Readable, UNCHANGED raced,
         NEW n \in Int, NEW w \in Int, w <= n, w <= Remaining,
         file' = Stored(Incoming(n), w)
  PROVE  BytesInPlace'
<1> DEFINE target == currentbyte[k] .. currentbyte[k] + w - 1
<1>1. /\ k \in Conn /\ currentbyte[k] \in Int /\ First(k) \in Int /\ Last(k) \in Int
      /\ currentbyte[k] >= First(k) /\ raced \in [Conn -> Nat] /\ runs \in Nat \ {0}
  BY SegmentType DEF PlacedInv, StagedInv, TypeOK, Within
<1>2. ASSUME NEW p \in DOMAIN file \ target
      PROVE  file'[p] = p \/ \E i \in Conn : raced'[i] > 0 /\ p \in First(i) .. Last(i)
  <2>1. file'[p] = file[p]
    BY <1>2 DEF Stored
  <2>2. QED
    BY <1>2, <2>1 DEF PlacedInv, BytesInPlace
<1>3. ASSUME NEW p \in target
      PROVE  file'[p] = p \/ \E i \in Conn : raced'[i] > 0 /\ p \in First(i) .. Last(i)
  <2>1. CASE raced[k] # runs
    <3>1. socket[k] = "body" /\ pos[k] = currentbyte[k]
      <4>1. pc = "poll" /\ enabled[k] /\ Calm(k)
        BY <2>1 DEF Readable, Calm
      <4>2. QED
        BY <4>1, StagedReadable DEF PlacedInv, Aligned, Segmented
    <3>2. Incoming(n) = [j \in 1 .. n |-> currentbyte[k] + j - 1]
      BY <3>1 DEF Incoming
    <3>3. p - currentbyte[k] + 1 \in 1 .. n /\ p \in Int
      BY <1>1, <1>3
    <3>4. Incoming(n)[p - currentbyte[k] + 1] = currentbyte[k] + (p - currentbyte[k] + 1) - 1
      BY <3>2, <3>3, Zenon
    <3>5. file'[p] = Incoming(n)[p - currentbyte[k] + 1]
      BY <1>3 DEF Stored
    <3>6. QED
      BY <1>1, <3>3, <3>4, <3>5
  <2>2. CASE raced[k] = runs
    <3>1. raced'[k] > 0
      BY <1>1, <2>2
    <3>2. p \in First(k) .. Last(k)
      BY <1>1, <1>3 DEF Remaining
    <3>3. QED
      BY <1>1, <3>1, <3>2
  <2>3. QED
    BY <2>1, <2>2
<1>4. DOMAIN file' = DOMAIN file \cup target
  BY DEF Stored
<1>5. QED
  BY <1>2, <1>3, <1>4 DEF BytesInPlace

LEMMA PlacedData ==
  ASSUME Segmented, PlacedInv, PollData
  PROVE  BytesInPlace' /\ Within(currentbyte)' /\ Within(st.cur)'
<1>1. /\ k \in Conn /\ TypeOK /\ Readable /\ UNCHANGED <<st, raced>>
      /\ currentbyte \in [Conn -> Int] /\ Remaining \in Int
  BY RemainingType DEF PlacedInv, StagedInv, TypeOK, PollData
<1>2. PICK n \in 1 .. BufferSize :
        LET w == IF Remaining < n THEN Remaining ELSE n
        IN /\ file' = Stored(Incoming(n), w)
           /\ currentbyte' = [currentbyte EXCEPT ![k] = @ + w]
  BY DEF PollData
<1> DEFINE w == IF Remaining < n THEN Remaining ELSE n
<1>3. n \in Int /\ w \in Int /\ w <= n /\ w <= Remaining
  BY <1>1
<1>4. BytesInPlace'
  <2>1. file' = Stored(Incoming(n), w)
    BY <1>2
  <2> HIDE DEF w
  <2>2. QED
    BY <1>1, <1>3, <2>1, PlacedStored
<1>5. Within(currentbyte)'
  <2>1. ASSUME NEW i \in Conn PROVE currentbyte'[i] \in First(i) .. Last(i) + 1
    <3>1. currentbyte[i] \in First(i) .. Last(i) + 1 /\ First(i) \in Int /\ Last(i) \in Int
      BY SegmentType DEF PlacedInv, Within
    <3>2. CASE i = k
      <4>1. w >= 0 /\ currentbyte[i] + w <= Last(i) + 1
        BY <1>1, <1>3, <3>1, <3>2 DEF Remaining
      <4>2. currentbyte'[i] = currentbyte[i] + w
        BY <1>1, <1>2, <3>2
      <4>3. QED
        BY <1>3, <3>1, <4>1, <4>2
    <3>3. CASE i # k
      BY <1>1, <1>2, <3>1, <3>3
    <3>4. QED
      BY <3>2, <3>3
  <2>2. QED
    BY <2>1 DEF Within
<1>6. Within(st.cur)'
  BY <1>1 DEF PlacedInv, Within
<1>7. QED
  BY <1>4, <1>5, <1>6

LEMMA PlacedFailure ==
  ASSUME Segmented, PlacedInv, PollFails
  PROVE  BytesInPlace'
<1>1. UNCHANGED raced /\ TypeOK /\ Remaining \in Int
  BY RemainingType DEF PollFails, PlacedInv, StagedInv
<1>2. CASE UNCHANGED file
  BY <1>1, <1>2 DEF PlacedInv, BytesInPlace
<1>3. CASE \E w \in Int : Readable /\ w < Remaining /\ file' = Stored(Incoming(w), w)
  BY <1>1, <1>3, PlacedStored
<1>4. QED
  BY <1>2, <1>3 DEF PollFails

\* save_state copies one of the positions into the state file.
LEMMA PlacedSaved ==
  ASSUME PlacedInv, SaveField
  PROVE  Within(st.cur)'
<1>1. st \in StateFile /\ currentbyte \in [Conn -> Int]
  BY DEF PlacedInv, StagedInv, TypeOK
<1>2. ASSUME NEW i \in Conn PROVE st'.cur[i] \in {st.cur[i], currentbyte[i]}
  BY <1>1 DEF SaveField, Saved, StateFile
<1>3. QED
  BY <1>2 DEF PlacedInv, Within

LEMMA PlacedStep == Segmented => (PlacedInv /\ [Next]_vars => PlacedInv')
<1> SUFFICES ASSUME Segmented, PlacedInv, [Next]_vars PROVE PlacedInv'
  OBVIOUS
<1>1. StagedInv' /\ TypeOK
  BY StagedStep DEF PlacedInv, StagedInv
<1>2. BytesInPlace' /\ Within(currentbyte)' /\ Within(st.cur)'
  <2>1. CASE PollData
    BY <2>1, PlacedData
  <2>2. CASE PollFails
    <3>1. UNCHANGED <<currentbyte, st>>
      BY <2>2 DEF PollFails
    <3>2. QED
      BY <2>2, <3>1, PlacedFailure DEF PlacedInv, Within
  <2>3. CASE SaveField
    <3>1. UNCHANGED <<currentbyte, file, raced>>
      BY <2>3 DEF SaveField, mainVars
    <3>2. QED
      BY <2>3, <3>1, PlacedSaved DEF PlacedInv, Within, BytesInPlace
  <2>4. CASE Open
    <3>1. CASE UNCHANGED <<diskVars, raced>>
      BY <2>4, <3>1 DEF Open, diskVars, PlacedInv, Within, BytesInPlace
    <3>2. CASE file' = [p \in {} |-> 0] /\ st' = NoState
      BY <2>4, <3>2, StartWithin DEF Open, NoState, Within, BytesInPlace
    <3>3. QED
      BY <2>4, <3>1, <3>2 DEF Open
  <2>5. CASE CheckState \/ Restart
    <3>1. UNCHANGED <<currentbyte, file, st>>
      BY <2>5 DEF CheckState, Restart, diskVars
    <3>2. ASSUME NEW i \in Conn, raced[i] > 0 PROVE raced'[i] > 0
      BY <1>1, <2>5, <3>2 DEF CheckState, Restart, TypeOK
    <3>3. BytesInPlace'
      BY <3>1, <3>2 DEF PlacedInv, BytesInPlace
    <3>4. QED
      BY <3>1, <3>3 DEF PlacedInv, Within
  <2>6. CASE CancelNothing \/ Close \/ CloseDone \/ Crash
    <3>1. UNCHANGED <<file, raced>> /\ (UNCHANGED currentbyte \/ currentbyte' = Start)
      BY <2>6 DEF CancelNothing, Close, CloseDone, Crash, ProcessEnds, diskVars
    <3>2. UNCHANGED st \/ st'.cur = Start
      BY <2>6 DEF CancelNothing, Close, CloseDone, Crash, diskVars, NoState, EmptyState
    <3>3. BytesInPlace'
      BY <3>1 DEF PlacedInv, BytesInPlace
    <3>4. Within(currentbyte)'
      BY <3>1, StartWithin DEF PlacedInv, Within
    <3>5. Within(st.cur)'
      BY <3>2, StartWithin DEF PlacedInv, Within
    <3>6. QED
      BY <3>3, <3>4, <3>5
  <2>7. CASE Do
    <3>1. UNCHANGED <<currentbyte, file, raced>> /\ (UNCHANGED st \/ st'.cur = Start)
      BY <2>7 DEF Do, EmptyState
    <3>2. QED
      BY <3>1, StartWithin DEF PlacedInv, Within, BytesInPlace
  <2>8. CASE StartDownload \/ SaveDone \/ PollIdle \/ PollEnd \/ PollLost
             \/ CheckEnabled \/ Tally \/ Relaunch
    <3>1. UNCHANGED <<currentbyte, file, st, raced>>
      BY <2>8 DEF StartDownload, SaveDone, PollIdle, PollEnd, PollLost, CheckEnabled, Tally,
                  Relaunch, diskVars
    <3>2. QED
      BY <3>1 DEF PlacedInv, Within, BytesInPlace
  <2>9. CASE \E i \in Conn : SetupThread(i)
    <3>1. UNCHANGED threadFrame
      BY <2>9 DEF SetupThread, Request, ReadHeader, ReadBody, Enable, GiveUp, ClearState, Die
    <3>2. QED
      BY <3>1 DEF threadFrame, mainVars, diskVars, PlacedInv, Within, BytesInPlace
  <2>10. CASE UNCHANGED vars
    BY <2>10 DEF vars, mainVars, diskVars, PlacedInv, Within, BytesInPlace
  <2>11. QED
    BY <2>1, <2>2, <2>3, <2>4, <2>5, <2>6, <2>7, <2>8, <2>9, <2>10 DEF Next, MainThread
<1>3. QED
  BY <1>1, <1>2 DEF PlacedInv

\* No failure, kill, relaunch or interleaving puts a byte at a position it does
\* not belong to, except within the segment of a connection that lost a race.
THEOREM EveryByteInPlace == Segmented => (Spec => []BytesInPlace)
<1> SUFFICES ASSUME Segmented PROVE Spec => []BytesInPlace
  OBVIOUS
<1>1. Init => PlacedInv
  BY PlacedInit
<1>2. PlacedInv /\ [Next]_vars => PlacedInv'
  BY PlacedStep
<1>3. PlacedInv => BytesInPlace
  BY DEF PlacedInv
<1>4. QED
  BY <1>1, <1>2, <1>3, PTL DEF Spec
-----------------------------------------------------------------------------
(***************************************************************************)
(* The count of downloaded bytes, which alone decides that a download is   *)
(* ready: if no kill falls into save_state, bytes_done is the sum of what  *)
(* the connections have passed, in this run and in every run resumed from a *)
(* state file; and a download that ends as ready has written every byte of *)
(* the remote file.                                                        *)
(***************************************************************************)

\* A non-empty set of numbers above -2 has a least element.
LEMMA LeastNumber ==
  ASSUME NEW A \in SUBSET Int, A # {}, \A i \in A : i >= -1
  PROVE  \E h \in A : \A i \in A : h <= i
<1> DEFINE B == {i + 1 : i \in A}
           R == OpToRel(<, Nat)
<1>1. B \in SUBSET Nat /\ B # {}
  <2>1. \A i \in A : i + 1 \in Nat
    OBVIOUS
  <2>2. PICK a \in A : TRUE
    OBVIOUS
  <2>3. a + 1 \in B
    OBVIOUS
  <2>4. QED
    BY <2>1, <2>3
<1>2. \E h \in B : \A i \in B : ~(<<i, h>> \in R)
  <2>1. IsWellFoundedOn(R, Nat)
    BY NatLessThanWellFounded
  <2> HIDE DEF B, R
  <2>2. QED
    BY <1>1, <2>1, WFMin
<1>3. \E h \in B : \A i \in B : ~(i < h)
  <2> HIDE DEF B
  <2>1. QED
    BY <1>1, <1>2 DEF OpToRel
<1>4. PICK a \in A : \A i \in B : ~(i < a + 1)
  BY <1>3
<1>5. ASSUME NEW i \in A PROVE a <= i
  <2>1. i + 1 \in B
    OBVIOUS
  <2>2. QED
    BY <1>4, <2>1
<1>6. QED
  BY <1>5
-----------------------------------------------------------------------------
(* The sum of the gains. *)

Index == -1 .. NumConn - 1

GainStep(cur, f, i) == IF i < 0 THEN 0 ELSE f[i - 1] + (cur[i] - First(i))

LEMMA IndexFacts ==
  /\ NumConn - 1 \in Index /\ -1 \in Index /\ Index \subseteq Int
  /\ \A i \in Index : i >= -1 /\ (i # -1 => i \in Conn /\ i - 1 \in Index)
  BY ConnFacts DEF Index, Conn

\* The recursive function of Progress exists and follows its equation.
LEMMA ProgressEquation ==
  ASSUME NEW cur
  PROVE  \E f : /\ Progress(cur) = f[NumConn - 1]
                /\ \A i \in Index : f[i] = GainStep(cur, f, i)
<1> DEFINE Solves(f, n) == f = [i \in -1 .. n |-> GainStep(cur, f, i)]
           Unsolved == {n \in Index : ~\E f : Solves(f, n)}
<1>1. Unsolved = {}
  <2>1. SUFFICES ASSUME Unsolved # {} PROVE FALSE
    OBVIOUS
  <2>2. PICK n \in Unsolved : \A i \in Unsolved : n <= i
    <3>1. Unsolved \in SUBSET Int /\ \A i \in Unsolved : i >= -1
      BY IndexFacts
    <3> HIDE DEF Unsolved
    <3>2. QED
      BY <2>1, <3>1, LeastNumber
  <2>3. CASE n = -1
    <3>1. Solves([i \in -1 .. -1 |-> 0], -1)
      BY DEF GainStep
    <3>2. QED
      BY <2>3, <3>1
  <2>4. CASE n # -1
    <3>1. n \in Nat /\ n - 1 \in Index /\ n - 1 \notin Unsolved
      BY <2>2, <2>4, IndexFacts
    <3>2. PICK f : Solves(f, n - 1)
      BY <3>1
    <3> DEFINE g == [i \in -1 .. n |-> IF i = n THEN GainStep(cur, f, n) ELSE f[i]]
    <3>3. ASSUME NEW i \in -1 .. n PROVE g[i] = GainStep(cur, g, i)
      <4>1. ~(i < 0) => i - 1 \in -1 .. n - 1 /\ g[i - 1] = f[i - 1]
        BY <3>1
      <4>2. ASSUME i # n PROVE f[i] = GainStep(cur, f, i)
        <5>1. i \in -1 .. n - 1
          BY <3>1, <4>2
        <5>2. f = [j \in -1 .. n - 1 |-> GainStep(cur, f, j)]
          BY <3>2, Zenon
        <5> HIDE DEF Solves
        <5>3. QED
          BY <5>1, <5>2, Zenon
      <4>3. g[i] = GainStep(cur, f, i)
        BY <4>2, Zenon
      <4>4. QED
        BY <4>1, <4>3 DEF GainStep
    <3>4. Solves(g, n)
      BY <3>3
    <3>5. QED
      BY <3>4
  <2>5. QED
    BY <2>3, <2>4
<1>2. PICK f : Solves(f, NumConn - 1)
  BY <1>1, IndexFacts
<1> DEFINE h == CHOOSE f1 : Solves(f1, NumConn - 1)
<1>3. Solves(h, NumConn - 1)
  BY <1>2, Zenon
<1>4. Progress(cur) = h[NumConn - 1]
  BY Zenon DEF Progress, GainStep
<1>5. QED
  BY <1>3, <1>4 DEF Index

\* A function that follows the equation from integer positions is of integers.
LEMMA GainType ==
  ASSUME NEW cur \in [Conn -> Int], NEW f, \A i \in Index : f[i] = GainStep(cur, f, i)
  PROVE  \A i \in Index : f[i] \in Int
<1> DEFINE Bad == {i \in Index : f[i] \notin Int}
<1>1. SUFFICES ASSUME Bad # {} PROVE FALSE
  OBVIOUS
<1>2. PICK n \in Bad : \A i \in Bad : n <= i
  <2>1. Bad \in SUBSET Int /\ \A i \in Bad : i >= -1
    BY IndexFacts
  <2> HIDE DEF Bad
  <2>2. QED
    BY <1>1, <2>1, LeastNumber
<1>3. n = -1 \/ (n \in Conn /\ n - 1 \in Index /\ f[n - 1] \in Int /\ ~(n < 0))
  BY <1>2, IndexFacts, ConnFacts
<1>4. QED
  BY <1>2, <1>3, SegmentType DEF GainStep

\* Where a new download starts, nothing has been gained.
LEMMA ProgressStart == Progress(Start) = 0
<1>1. PICK f : /\ Progress(Start) = f[NumConn - 1]
               /\ \A i \in Index : f[i] = GainStep(Start, f, i)
  BY ProgressEquation
<1> DEFINE Bad == {i \in Index : f[i] # 0}
<1>2. ASSUME Bad # {} PROVE FALSE
  <2>1. PICK n \in Bad : \A i \in Bad : n <= i
    <3>1. Bad \in SUBSET Int /\ \A i \in Bad : i >= -1
      BY IndexFacts
    <3> HIDE DEF Bad
    <3>2. QED
      BY <1>2, <3>1, LeastNumber
  <2>2. n = -1 \/ (n \in Conn /\ n - 1 \in Index /\ f[n - 1] = 0 /\ ~(n < 0))
    BY <2>1, IndexFacts, ConnFacts
  <2>3. n \in Conn => Start[n] = First(n) /\ First(n) \in Int
    BY SegmentType DEF Start
  <2>4. QED
    BY <1>1, <2>1, <2>2, <2>3 DEF GainStep
<1>3. QED
  BY <1>1, <1>2, IndexFacts

\* A connection that passes w bytes more adds w to the sum.
LEMMA ProgressAdds ==
  ASSUME NEW cur \in [Conn -> Int], NEW c \in Conn, NEW w \in Int
  PROVE  Progress([cur EXCEPT ![c] = @ + w]) = Progress(cur) + w
<1> DEFINE new == [cur EXCEPT ![c] = @ + w]
<1>0. new \in [Conn -> Int]
  OBVIOUS
<1>1. PICK f : /\ Progress(cur) = f[NumConn - 1]
               /\ \A i \in Index : f[i] = GainStep(cur, f, i)
  BY ProgressEquation
<1>2. PICK g : /\ Progress(new) = g[NumConn - 1]
               /\ \A i \in Index : g[i] = GainStep(new, g, i)
  BY ProgressEquation
<1>3. \A i \in Index : f[i] \in Int /\ g[i] \in Int
  BY <1>0, <1>1, <1>2, GainType
<1> DEFINE Bad == {i \in Index : g[i] # f[i] + (IF i >= c THEN w ELSE 0)}
<1>4. ASSUME Bad # {} PROVE FALSE
  <2>1. PICK n \in Bad : \A i \in Bad : n <= i
    <3>1. Bad \in SUBSET Int /\ \A i \in Bad : i >= -1
      BY IndexFacts
    <3> HIDE DEF Bad
    <3>2. QED
      BY <1>4, <3>1, LeastNumber
  <2>2. n \in Index /\ c \in Nat
    BY <2>1, ConnFacts
  <2>3. CASE n = -1
    BY <1>1, <1>2, <2>1, <2>2, <2>3 DEF GainStep
  <2>4. CASE n # -1
    <3>1. n \in Conn /\ n - 1 \in Index /\ n \in Nat /\ n - 1 \notin Bad
      BY <2>1, <2>4, IndexFacts, ConnFacts
    <3>2. g[n - 1] = f[n - 1] + (IF n - 1 >= c THEN w ELSE 0)
      BY <3>1
    <3>3. new[n] = cur[n] + (IF n = c THEN w ELSE 0)
      BY <3>1
    <3>4. /\ f[n] = f[n - 1] + (cur[n] - First(n))
          /\ g[n] = g[n - 1] + (new[n] - First(n))
      BY <1>1, <1>2, <2>2, <3>1 DEF GainStep
    <3>5. First(n) \in Int /\ cur[n] \in Int /\ f[n - 1] \in Int
      BY <1>3, <3>1, SegmentType
    <3>6. QED
      BY <2>1, <2>2, <3>1, <3>2, <3>3, <3>4, <3>5
  <2>5. QED
    BY <2>3, <2>4
<1>5. NumConn - 1 \notin Bad
  BY <1>4
<1>6. QED
  BY <1>1, <1>2, <1>3, <1>5, ConnFacts, IndexFacts DEF Conn
-----------------------------------------------------------------------------
(* bytes_done is the sum.  That a resumed run counts right needs the same  *)
(* of the state file, and of one that is being written: what is written of *)
(* it are values the main thread cannot have changed since.                *)

SavesComplete == CrashPoints \cap {"save", "close"} = {}

Saving == pc \in {"save", "close"}

SavedMatches ==
  /\ ~Saving => st.done = Progress(st.cur)
  /\ Saving => /\ st.fields > 0 => st.done = bytes_done
               /\ \A i \in Conn : i < st.fields - 1 => st.cur[i] = currentbyte[i]

CountInv == TypeOK /\ CountMatches /\ SavedMatches

LEMMA CountInit == Init => CountInv
  BY InitType, ProgressStart DEF Init, NoState, CountInv, CountMatches, SavedMatches, Saving

\* The steps outside save_state that leave count and state file alone.
LEMMA CountUntouched ==
  ASSUME CountInv, UNCHANGED <<bytes_done, currentbyte, st>>, ~Saving, ~Saving'
  PROVE  CountMatches' /\ SavedMatches'
  BY DEF CountInv, CountMatches, SavedMatches

\* A step of another thread leaves the main thread where it is.
LEMMA CountFramed ==
  ASSUME CountInv, UNCHANGED <<bytes_done, currentbyte, st, pc>>
  PROVE  CountMatches' /\ SavedMatches'
  BY DEF CountInv, CountMatches, SavedMatches, Saving

\* A completely written state file holds the sum of its positions.
LEMMA WrittenMatches ==
  ASSUME CountInv, Saving, st.fields = Whole
  PROVE  st.done = Progress(st.cur)
<1>1. \A i \in Conn : i \in Nat /\ i < NumConn
  BY ConnFacts
<1>2. \A i \in Conn : st.cur[i] = currentbyte[i]
  BY <1>1, ConnFacts DEF CountInv, SavedMatches, Whole
<1>3. st.cur = currentbyte
  BY <1>2 DEF CountInv, TypeOK, StateFile
<1>4. st.done = bytes_done
  BY ConnFacts DEF CountInv, SavedMatches, Whole
<1>5. QED
  BY <1>3, <1>4 DEF CountInv, CountMatches

\* A process that ends with a state file in order.
LEMMA CountEnds ==
  ASSUME CountInv, NEW r, ProcessEnds(r),
         st'.done = Progress(st'.cur)
  PROVE  CountMatches' /\ SavedMatches'
  BY ProgressStart DEF ProcessEnds, CountMatches, SavedMatches, Saving

\* save_state writes the next value.
LEMMA CountSaved ==
  ASSUME CountInv, SaveField
  PROVE  CountMatches' /\ SavedMatches'
<1>1. UNCHANGED <<pc, bytes_done, currentbyte>> /\ Saving
  BY DEF SaveField, mainVars, Saving
<1>2. st \in StateFile /\ st.fields \in Nat /\ currentbyte \in [Conn -> Int] /\ Conn \subseteq Nat
  BY ConnFacts DEF CountInv, TypeOK, StateFile
<1>3. CASE st.fields = 0
  <2>1. st' = [st EXCEPT !.fields = 1, !.done = bytes_done]
    BY <1>3 DEF SaveField
  <2>2. st'.fields = 1 /\ st'.done = bytes_done
    BY <1>2, <2>1 DEF StateFile
  <2>3. \A i \in Conn : ~(i < 1 - 1)
    BY <1>2
  <2>4. QED
    BY <1>1, <2>2, <2>3 DEF CountInv, CountMatches, SavedMatches, Saving
<1>4. CASE st.fields # 0
  <2>1. st' = [st EXCEPT !.fields = @ + 1, !.cur[st.fields - 1] = currentbyte[st.fields - 1]]
    BY <1>4 DEF SaveField, Saved
  <2>2. st'.fields = st.fields + 1 /\ st'.done = st.done
    BY <1>2, <2>1 DEF StateFile
  <2>3. ASSUME NEW i \in Conn, i < st.fields PROVE st'.cur[i] = currentbyte[i]
    <3>1. CASE i = st.fields - 1
      BY <1>2, <2>1, <3>1 DEF StateFile
    <3>2. CASE i # st.fields - 1
      <4>1. i < st.fields - 1
        BY <1>2, <2>3, <3>2
      <4>2. st'.cur[i] = st.cur[i]
        BY <1>2, <2>1, <3>2 DEF StateFile
      <4>3. QED
        BY <1>1, <4>1, <4>2 DEF CountInv, SavedMatches
    <3>3. QED
      BY <3>1, <3>2
  <2>4. st.fields > 0 /\ (st.fields + 1) - 1 = st.fields
    BY <1>2, <1>4
  <2>5. QED
    BY <1>1, <2>2, <2>3, <2>4 DEF CountInv, CountMatches, SavedMatches, Saving
<1>5. QED
  BY <1>3, <1>4

\* What is counted is what is written.
LEMMA CountData ==
  ASSUME CountInv, PollData
  PROVE  CountMatches' /\ SavedMatches'
<1>1. TypeOK /\ k \in Conn /\ currentbyte \in [Conn -> Int] /\ bytes_done \in Int
  BY DEF CountInv, TypeOK
<1>2. PICK n, w \in Int : /\ currentbyte' = [currentbyte EXCEPT ![k] = @ + w]
                         /\ bytes_done' = bytes_done + w
  BY <1>1, DataStep
<1>3. Progress(currentbyte') = Progress(currentbyte) + w
  BY <1>1, <1>2, ProgressAdds
<1>4. CountMatches'
  BY <1>2, <1>3 DEF CountInv, CountMatches
<1>5. pc = "poll" /\ pc' \in {"poll", "check", "do"} /\ UNCHANGED st
  BY <1>1, AdvanceType DEF PollData, Readable
<1>6. QED
  BY <1>4, <1>5 DEF CountInv, SavedMatches, Saving

\* A resumed run starts with the state file's count and positions.
LEMMA CountOpen ==
  ASSUME CountInv, Open
  PROVE  CountMatches' /\ SavedMatches'
<1>1. st'.done = Progress(st'.cur)
  <2>1. CASE UNCHANGED st
    BY <2>1 DEF Open, CountInv, SavedMatches, Saving
  <2>2. CASE st' = NoState
    BY <2>2, ProgressStart DEF NoState
  <2>3. QED
    BY <2>1, <2>2 DEF Open, diskVars
<1>2. QED
  BY <1>1 DEF Open, CountMatches, SavedMatches, Saving

\* An emptied state file says nothing yet.
LEMMA CountEmptied ==
  ASSUME CountInv, st' = EmptyState, Saving', UNCHANGED <<bytes_done, currentbyte>>
  PROVE  CountMatches' /\ SavedMatches'
<1>1. \A i \in Conn : ~(i < 0 - 1)
  BY ConnFacts
<1>2. QED
  BY <1>1 DEF CountInv, CountMatches, SavedMatches, EmptyState

LEMMA CountStep == SavesComplete /\ CountInv /\ [Next]_vars => CountInv'
<1> SUFFICES ASSUME SavesComplete, CountInv, [Next]_vars PROVE CountInv'
  OBVIOUS
<1>1. TypeOK /\ TypeOK'
  BY TypeStep DEF CountInv
<1>2. CountMatches' /\ SavedMatches'
  <2>1. CASE Open
    BY <2>1, CountOpen
  <2>2. CASE SaveField
    BY <2>2, CountSaved
  <2>3. CASE PollData
    BY <2>3, CountData
  <2>4. CASE Do
    <3>1. CASE st' = EmptyState /\ pc' = "save"
      BY <2>4, <3>1, CountEmptied DEF Do, Saving
    <3>2. CASE UNCHANGED st /\ pc' = "poll"
      BY <2>4, <3>2, CountUntouched DEF Do, Saving
    <3>3. QED
      BY <2>4, <3>1, <3>2 DEF Do
  <2>5. CASE SaveDone
    <3>1. st.done = Progress(st.cur) /\ UNCHANGED <<bytes_done, currentbyte, st>> /\ pc' = "poll"
      BY <2>5, WrittenMatches DEF SaveDone, diskVars, Saving
    <3>2. QED
      BY <3>1 DEF CountInv, CountMatches, SavedMatches, Saving
  <2>6. CASE CloseDone
    <3>1. st.done = Progress(st.cur) /\ UNCHANGED st /\ ProcessEnds(ready)
      BY <2>6, WrittenMatches DEF CloseDone, diskVars, Saving
    <3>2. QED
      BY <3>1, CountEnds
  <2>7. CASE CancelNothing \/ Crash
    <3>1. ~Saving /\ UNCHANGED st /\ ProcessEnds(0)
      BY <2>7 DEF CancelNothing, Crash, diskVars, Saving, SavesComplete
    <3>2. st'.done = Progress(st'.cur)
      BY <3>1 DEF CountInv, SavedMatches
    <3>3. QED
      BY <3>1, <3>2, CountEnds
  <2>8. CASE Close
    <3>1. CASE st' = NoState /\ ProcessEnds(ready)
      BY <3>1, ProgressStart, CountEnds DEF NoState
    <3>2. CASE st' = EmptyState /\ pc' = "close" /\ UNCHANGED <<bytes_done, currentbyte>>
      BY <3>2, CountEmptied DEF Saving
    <3>3. CASE UNCHANGED st /\ ProcessEnds(ready)
      <4>1. st'.done = Progress(st'.cur)
        BY <2>8, <3>3 DEF Close, CountInv, SavedMatches, Saving
      <4>2. QED
        BY <3>3, <4>1, CountEnds
    <3>4. QED
      BY <2>8, <3>1, <3>2, <3>3 DEF Close
  <2>9. CASE StartDownload \/ PollFails \/ CheckState \/ Tally \/ Relaunch
    <3>1. UNCHANGED <<bytes_done, currentbyte, st>> /\ ~Saving
      BY <2>9 DEF StartDownload, PollFails, CheckState, Tally, Relaunch, diskVars, Saving
    <3>2. ~Saving'
      BY <1>1, <2>9, AdvanceType
         DEF StartDownload, PollFails, CheckState, Tally, Relaunch, Saving
    <3>3. QED
      BY <3>1, <3>2, CountUntouched
  <2>10. CASE PollIdle \/ PollEnd \/ PollLost \/ CheckEnabled \/ Restart
    <3>1. UNCHANGED <<bytes_done, currentbyte, st>> /\ ~Saving
      BY <2>10 DEF PollIdle, PollEnd, Readable, PollLost, CheckEnabled, Restart, diskVars, Saving
    <3>2. ~Saving'
      BY <1>1, <2>10, AdvanceType
         DEF PollIdle, PollEnd, PollLost, CheckEnabled, Restart, Saving
    <3>3. QED
      BY <3>1, <3>2, CountUntouched
  <2>11. CASE \E i \in Conn : SetupThread(i)
    <3>1. UNCHANGED threadFrame
      BY <2>11 DEF SetupThread, Request, ReadHeader, ReadBody, Enable, GiveUp, ClearState, Die
    <3>2. QED
      BY <3>1, CountFramed DEF threadFrame, mainVars, diskVars
  <2>12. CASE UNCHANGED vars
    BY <2>12, CountFramed DEF vars, mainVars, diskVars
  <2>13. QED
    BY <2>1, <2>2, <2>3, <2>4, <2>5, <2>6, <2>7, <2>8, <2>9, <2>10, <2>11, <2>12
       DEF Next, MainThread
<1>3. QED
  BY <1>1, <1>2 DEF CountInv

LEMMA CountAlways == SavesComplete => (Spec => []CountInv)
<1> SUFFICES ASSUME SavesComplete PROVE Spec => []CountInv
  OBVIOUS
<1>1. CountInv /\ [Next]_vars => CountInv'
  BY CountStep
<1>2. QED
  BY <1>1, CountInit, PTL DEF Spec

\* If no kill falls into save_state, bytes_done is in every run, resumed or
\* not, the number of bytes the connections have passed.
THEOREM BytesAreCounted == SavesComplete => (Spec => []CountMatches)
<1>1. CountInv => CountMatches
  BY DEF CountInv
<1>2. QED
  BY <1>1, CountAlways, PTL
-----------------------------------------------------------------------------
(* Ready means whole.  No connection passes the end of its segment, and the *)
(* segments of axel_divide follow each other from 0 to the file's end: a   *)
(* sum that is the file's size leaves none of them short.  This needs a    *)
(* file that the segments, each a byte longer than the quota, do not       *)
(* overrun, and a server that honours start offsets.                       *)

Divided == Supported /\ DivideLoop /\ First(NumConn - 1) <= Size

\* Where segment i ends, and the one before the first.
Ends(i) == IF i < 0 THEN 0 ELSE Last(i) + 1

LEMMA SegmentsFollow ==
  ASSUME Divided
  PROVE  /\ Ends(-1) = 0 /\ Ends(NumConn - 1) = Size
         /\ \A i \in Conn : /\ First(i) = Ends(i - 1) /\ First(i) <= Ends(i)
                           /\ Ends(i) = Last(i) + 1 /\ Ends(i) \in Int /\ Ends(i - 1) \in Int
<1>1. size = Size /\ Size \in Nat /\ NumConn \in Nat \ {0} /\ NumConn - 1 \in Conn
  BY ServerSideAssumption, ConnFacts DEF Divided, size, Conn
<1>2. Quota \in Nat /\ (NumConn = 1 => Quota = Size)
  BY <1>1 DEF Quota
<1>3. \A i \in Conn : i \in Nat /\ i < NumConn /\ (i # 0 => i - 1 \in Conn)
  BY ConnFacts DEF Conn
<1>4. \A i \in Conn : Ends(i) = Last(i) + 1 /\ Ends(i) \in Int
  <2>1. ASSUME NEW i \in Conn PROVE Ends(i) = Last(i) + 1 /\ Ends(i) \in Int
    <3>1. Last(i) \in Int /\ ~(i < 0)
      BY <1>3, SegmentType
    <3>2. QED
      BY <3>1 DEF Ends
  <2>2. QED
    BY <2>1
<1>5. Ends(-1) = 0
  BY DEF Ends
<1>6. Ends(NumConn - 1) = Size
  <2>1. Last(NumConn - 1) = Size - 1
    BY <1>1, <1>2 DEF Last, Divided
  <2>2. QED
    BY <1>1, <1>4, <2>1
<1>7. ASSUME NEW i \in Conn PROVE First(i) = Ends(i - 1)
  <2>1. CASE i = 0
    BY <1>3, <1>5, <2>1 DEF First
  <2>2. CASE i = 1
    BY <1>2, <1>3, <1>4, <2>2 DEF First, Last, Divided
  <2>3. CASE i # 0 /\ i # 1
    <3>1. i - 1 \in Conn /\ i - 1 \in Nat \ {0} /\ i - 1 # NumConn - 1 /\ i \in Nat
      BY <1>1, <1>3, <2>3
    <3>2. (i - 1) * (Quota + 1) = ((i - 1) - 1) * (Quota + 1) + (Quota + 1)
      BY <1>2, <3>1
    <3>3. First(i) = Quota + (i - 1) * (Quota + 1)
      BY <1>2, <3>1 DEF First, Divided
    <3>4. First(i - 1) = Quota + ((i - 1) - 1) * (Quota + 1)
      BY <1>2, <3>1 DEF First, Divided
    <3>5. Last(i - 1) = First(i - 1) + Quota
      BY <3>1 DEF Last, Divided
    <3>6. First(i) \in Int /\ First(i - 1) \in Int
      BY <3>1, SegmentType
    <3>7. First(i) = First(i - 1) + Quota + 1
      <4> DEFINE a == (i - 1) * (Quota + 1)
                 b == ((i - 1) - 1) * (Quota + 1)
      <4>1. a \in Int /\ b \in Int /\ a = b + (Quota + 1)
        BY <1>2, <3>1, <3>2
      <4>2. First(i) = Quota + a /\ First(i - 1) = Quota + b
        BY <3>3, <3>4
      <4> HIDE DEF a, b
      <4>3. QED
        BY <1>2, <4>1, <4>2
    <3>8. QED
      BY <1>2, <1>4, <3>1, <3>5, <3>6, <3>7
  <2>4. QED
    BY <2>1, <2>2, <2>3
<1>8. ASSUME NEW i \in Conn PROVE First(i) <= Ends(i) /\ Ends(i - 1) \in Int
  <2>1. First(i) \in Int /\ Last(i) \in Int
    BY SegmentType
  <2>2. First(i) <= Ends(i)
    <3>1. CASE i = NumConn - 1
      BY <1>6, <3>1 DEF Divided
    <3>2. CASE i # NumConn - 1 /\ i = 0
      BY <1>2, <1>4, <3>2 DEF First, Last
    <3>3. CASE i # NumConn - 1 /\ i # 0
      <4>1. Last(i) = First(i) + Quota
        BY <3>3 DEF Last, Divided
      <4>2. Ends(i) = Last(i) + 1
        BY <1>4
      <4>3. QED
        BY <1>2, <2>1, <4>1, <4>2
    <3>4. QED
      BY <3>1, <3>2, <3>3
  <2>3. QED
    BY <1>7, <2>1, <2>2
<1>9. QED
  BY <1>4, <1>5, <1>6, <1>7, <1>8

InRange(cur) == \A i \in Conn : cur[i] <= Last(i) + 1

\* A sum of the file's size leaves no connection short of its segment's end.
LEMMA FullMeansNoneShort ==
  ASSUME Divided, NEW cur \in [Conn -> Int], InRange(cur), Progress(cur) = Size
  PROVE  \A i \in Conn : cur[i] = Last(i) + 1
<1> SUFFICES ASSUME NEW j \in Conn, cur[j] # Last(j) + 1 PROVE FALSE
  OBVIOUS
<1>1. PICK f : /\ Progress(cur) = f[NumConn - 1]
               /\ \A i \in Index : f[i] = GainStep(cur, f, i)
  BY ProgressEquation
<1>2. \A i \in Index : f[i] \in Int
  BY <1>1, GainType
<1>3. cur[j] \in Int /\ Last(j) \in Int /\ cur[j] <= Last(j) /\ j \in Nat /\ j <= NumConn - 1
  BY SegmentType, ConnFacts DEF InRange
<1> DEFINE Bound(n) == Ends(n) - (IF n >= j THEN 1 ELSE 0)
           Bad == {n \in Index : ~(f[n] <= Bound(n))}
<1>4. ASSUME Bad # {} PROVE FALSE
  <2>1. PICK n \in Bad : \A i \in Bad : n <= i
    <3>1. Bad \in SUBSET Int /\ \A i \in Bad : i >= -1
      BY IndexFacts
    <3> HIDE DEF Bad
    <3>2. QED
      BY <1>4, <3>1, LeastNumber
  <2>2. CASE n = -1
    <3>1. f[n] = 0
      BY <1>1, <2>1, <2>2 DEF GainStep
    <3>2. Bound(n) = 0
      BY <1>3, <2>2, SegmentsFollow
    <3>3. QED
      BY <2>1, <3>1, <3>2
  <2>3. CASE n # -1
    <3>1. n \in Conn /\ n - 1 \in Index /\ n \in Nat /\ n - 1 \notin Bad
      BY <2>1, <2>3, IndexFacts, ConnFacts
    <3>2. f[n - 1] <= Ends(n - 1) - (IF n - 1 >= j THEN 1 ELSE 0)
      BY <3>1
    <3>3. f[n] = f[n - 1] + (cur[n] - First(n))
      BY <1>1, <2>1, <3>1 DEF GainStep
    <3>4. /\ First(n) = Ends(n - 1) /\ Ends(n) = Last(n) + 1
          /\ First(n) \in Int /\ Last(n) \in Int /\ cur[n] \in Int /\ f[n - 1] \in Int
      BY <1>2, <3>1, SegmentsFollow, SegmentType
    <3>5. cur[n] <= Last(n) + 1 /\ (n = j => cur[n] <= Last(n))
      BY <1>3, <3>1 DEF InRange
    <3>6. f[n] <= Ends(n) - (IF n >= j THEN 1 ELSE 0)
      BY <1>3, <3>1, <3>2, <3>3, <3>4, <3>5
    <3>7. QED
      BY <2>1, <3>6
  <2>4. QED
    BY <2>2, <2>3
<1>5. f[NumConn - 1] <= Ends(NumConn - 1) - (IF NumConn - 1 >= j THEN 1 ELSE 0)
  BY <1>4, IndexFacts
<1>6. Ends(NumConn - 1) = Size /\ Size \in Nat /\ NumConn \in Nat
  BY SegmentsFollow, ServerSideAssumption, ConnFacts
<1>7. QED
  BY <1>1, <1>3, <1>5, <1>6

\* Connections that have all passed their segments have passed the file.
LEMMA NoneShortMeansWhole ==
  ASSUME Divided, NEW cur, Claimed(cur), \A i \in Conn : cur[i] = Last(i) + 1
  PROVE  0 .. Size - 1 \subseteq DOMAIN file
<1> SUFFICES ASSUME NEW p \in 0 .. Size - 1 PROVE p \in DOMAIN file
  OBVIOUS
<1> DEFINE Past == {n \in Index : p < Ends(n)}
<1>1. NumConn - 1 \in Past
  BY SegmentsFollow, IndexFacts, ServerSideAssumption
<1>2. PICK n \in Past : \A i \in Past : n <= i
  <2>1. Past \in SUBSET Int /\ \A i \in Past : i >= -1
    BY IndexFacts
  <2> HIDE DEF Past
  <2>2. QED
    BY <1>1, <2>1, LeastNumber
<1>3. n # -1
  BY <1>2, SegmentsFollow
<1>4. n \in Conn /\ n - 1 \in Index /\ n \in Nat /\ n - 1 \notin Past
  BY <1>2, <1>3, IndexFacts, ConnFacts
<1>5. /\ First(n) = Ends(n - 1) /\ Ends(n) = Last(n) + 1 /\ First(n) \in Int /\ Last(n) \in Int
      /\ cur[n] = Last(n) + 1
  BY <1>4, SegmentsFollow, SegmentType
<1>6. p \in First(n) .. cur[n] - 1
  BY <1>2, <1>4, <1>5
<1>7. QED
  BY <1>4, <1>6 DEF Claimed
-----------------------------------------------------------------------------
(* The invariant, which adds what a download that is over can still do. *)

WholeInv ==
  /\ CountInv /\ NoGap
  /\ InRange(currentbyte) /\ InRange(st.cur)
  /\ ready = 1 => pc \in {"do", "exit"}
  /\ ReadyMeansWhole

LEMMA StartInRange == Divided => InRange(Start)
  BY SegmentsFollow, SegmentType DEF Start, InRange

LEMMA WholeInit == Divided /\ Init => WholeInv
<1> SUFFICES ASSUME Divided, Init PROVE WholeInv
  OBVIOUS
<1>1. currentbyte = Start /\ st.cur = Start /\ ready = 0
  BY DEF Init, NoState
<1>2. QED
  BY <1>1, CountInit, NoGapInit, StartInRange DEF WholeInv, ReadyMeansWhole

\* A read never writes past the end of the connection's segment.
LEMMA RangeData ==
  ASSUME WholeInv, PollData
  PROVE  InRange(currentbyte')
<1>1. k \in Conn /\ currentbyte \in [Conn -> Int] /\ InRange(currentbyte) /\ Last(k) \in Int
  BY SegmentType DEF WholeInv, CountInv, TypeOK
<1>2. PICK n \in 1 .. BufferSize :
        currentbyte' = [currentbyte EXCEPT ![k] = @ + (IF Remaining < n THEN Remaining ELSE n)]
  BY DEF PollData
<1>3. currentbyte[k] + (IF Remaining < n THEN Remaining ELSE n) <= Last(k) + 1
  BY <1>1 DEF Remaining
<1>4. QED
  BY <1>1, <1>2, <1>3 DEF InRange

LEMMA RangeSaved ==
  ASSUME WholeInv, SaveField
  PROVE  InRange(st'.cur)
<1>1. st.cur \in [Conn -> Int] /\ InRange(currentbyte) /\ InRange(st.cur)
  BY DEF WholeInv, CountInv, TypeOK, StateFile
<1>2. ASSUME NEW i \in Conn PROVE st'.cur[i] \in {st.cur[i], currentbyte[i]}
  BY <1>1 DEF SaveField, Saved, WholeInv, CountInv, TypeOK, StateFile
<1>3. QED
  BY <1>1, <1>2 DEF InRange

LEMMA RangeStep ==
  ASSUME Divided, WholeInv, [Next]_vars
  PROVE  InRange(currentbyte') /\ InRange(st'.cur)
<1>1. InRange(currentbyte) /\ InRange(st.cur) /\ InRange(Start)
  BY StartInRange DEF WholeInv
<1>2. CASE SaveField
  BY <1>1, <1>2, RangeSaved DEF SaveField, mainVars
<1>3. CASE PollData
  BY <1>1, <1>3, RangeData DEF PollData
<1>4. CASE Open
  BY <1>1, <1>4 DEF Open, diskVars, NoState
<1>5. CASE Close \/ CloseDone \/ CancelNothing \/ Crash \/ Do
  <2>1. currentbyte' \in {currentbyte, Start}
    BY <1>5 DEF Close, CloseDone, CancelNothing, Crash, Do, ProcessEnds
  <2>2. st'.cur \in {st.cur, Start}
    BY <1>5 DEF Close, CloseDone, CancelNothing, Crash, Do, diskVars, NoState, EmptyState
  <2>3. QED
    BY <1>1, <2>1, <2>2
<1>6. CASE StartDownload \/ SaveDone \/ PollIdle \/ PollEnd \/ PollLost \/ PollFails
           \/ CheckEnabled \/ CheckState \/ Restart \/ Tally \/ Relaunch
  BY <1>1, <1>6
     DEF StartDownload, SaveDone, PollIdle, PollEnd, PollLost, PollFails, CheckEnabled,
         CheckState, Restart, Tally, Relaunch, diskVars
<1>7. CASE \E i \in Conn : SetupThread(i)
  <2>1. UNCHANGED threadFrame
    BY <1>7 DEF SetupThread, Request, ReadHeader, ReadBody, Enable, GiveUp, ClearState, Die
  <2>2. QED
    BY <1>1, <2>1 DEF threadFrame, mainVars, diskVars
<1>8. CASE UNCHANGED vars
  BY <1>1, <1>8 DEF vars, mainVars, diskVars
<1>9. QED
  BY <1>2, <1>3, <1>4, <1>5, <1>6, <1>7, <1>8 DEF Next, MainThread

\* Only Tally makes a download ready, and a ready one only ends.
LEMMA ReadyStep ==
  ASSUME Supported, WholeInv, [Next]_vars, ready' = 1
  PROVE  \/ Tally /\ AllDone /\ pc' = "do" /\ UNCHANGED file
         \/ ready = 1 /\ pc' \in {"do", "exit"} /\ UNCHANGED file
<1>1. ready = 1 => pc \in {"do", "exit"}
  BY DEF WholeInv
<1>2. CASE Tally
  BY <1>1, <1>2 DEF Tally, diskVars
<1>3. CASE Close
  BY <1>1, <1>3 DEF Close, ProcessEnds
<1>4. CASE Open \/ StartDownload \/ Do \/ SaveField \/ SaveDone \/ CloseDone
  BY <1>1, <1>4 DEF Open, StartDownload, Do, SaveField, SaveDone, CloseDone, mainVars, ProcessEnds
<1>5. CASE PollIdle \/ PollData \/ PollEnd \/ PollLost \/ PollFails
  BY <1>1, <1>5 DEF PollIdle, PollData, PollEnd, PollLost, PollFails, Readable
<1>6. CASE CheckEnabled \/ CheckState \/ CancelNothing \/ Restart
  BY <1>1, <1>6 DEF CheckEnabled, CheckState, CancelNothing, Restart, ProcessEnds
<1>7. CASE Crash \/ Relaunch
  BY <1>7 DEF Crash, Relaunch, ProcessEnds
<1>8. CASE \E i \in Conn : SetupThread(i)
  <2>1. UNCHANGED threadFrame
    BY <1>8 DEF SetupThread, Request, ReadHeader, ReadBody, Enable, GiveUp, ClearState, Die
  <2>2. QED
    BY <1>1, <2>1 DEF threadFrame, mainVars, diskVars
<1>9. CASE UNCHANGED vars
  BY <1>1, <1>9 DEF vars, mainVars, diskVars
<1>10. QED
  BY <1>2, <1>3, <1>4, <1>5, <1>6, <1>7, <1>8, <1>9 DEF Next, MainThread

LEMMA WholeStep == SavesComplete /\ Divided /\ WholeInv /\ [Next]_vars => WholeInv'
<1> SUFFICES ASSUME SavesComplete, Divided, WholeInv, [Next]_vars PROVE WholeInv'
  OBVIOUS
<1>1. CountInv' /\ NoGap'
  BY CountStep, NoGapStep DEF WholeInv
<1>2. InRange(currentbyte') /\ InRange(st'.cur)
  BY RangeStep
<1>3. ready' = 1 => pc' \in {"do", "exit"}
  BY ReadyStep DEF Divided
<1>4. ASSUME ready' = 1 PROVE 0 .. Size - 1 \subseteq DOMAIN file'
  <2>1. CASE ready = 1 /\ UNCHANGED file
    BY <2>1 DEF WholeInv, ReadyMeansWhole
  <2>2. CASE AllDone /\ UNCHANGED file
    <3>1. currentbyte \in [Conn -> Int] /\ InRange(currentbyte) /\ Claimed(currentbyte)
      BY DEF WholeInv, NoGap, TypeOK
    <3>2. Progress(currentbyte) = Size
      BY <2>2 DEF AllDone, size, Divided, WholeInv, CountInv, CountMatches
    <3>3. 0 .. Size - 1 \subseteq DOMAIN file
      BY <3>1, <3>2, FullMeansNoneShort, NoneShortMeansWhole
    <3>4. QED
      BY <2>2, <3>3
  <2>3. QED
    BY <1>4, <2>1, <2>2, ReadyStep DEF Divided
<1>5. QED
  BY <1>1, <1>2, <1>3, <1>4 DEF WholeInv, ReadyMeansWhole, InRange

\* If no kill falls into save_state and the segments cover the file, a download
\* that ends as ready, resumed or not, has written every byte of it.
THEOREM ReadyIsWhole == SavesComplete /\ Divided => (Spec => []ReadyMeansWhole)
<1> SUFFICES ASSUME SavesComplete, Divided PROVE Spec => []ReadyMeansWhole
  OBVIOUS
<1>1. Init => WholeInv
  BY WholeInit
<1>2. WholeInv /\ [Next]_vars => WholeInv'
  BY WholeStep
<1>3. WholeInv => ReadyMeansWhole
  BY DEF WholeInv
<1>4. QED
  BY <1>1, <1>2, <1>3, PTL DEF Spec
=============================================================================
