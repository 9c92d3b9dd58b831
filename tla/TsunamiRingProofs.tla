-------------------------- MODULE TsunamiRingProofs ---------------------------
(***************************************************************************)
(* Proofs about the Tsunami client's ring buffer, for every number of      *)
(* blocks, every capacity and every fault.                                 *)
(***************************************************************************)
EXTENDS TsunamiRing, TLAPS, FiniteSetTheorems, SequenceTheorems

-----------------------------------------------------------------------------
(* The inductive invariant. *)

\* What the counters and the two flags have to do with each other, and with
\* where the network thread is.
Counters ==
  /\ dataReady = IF countData > 0 THEN 1 ELSE 0
  /\ spaceReady = IF countData + countReserved < Capacity THEN 1 ELSE 0
  /\ countData + countReserved <= Capacity
  /\ countReserved = IF net \in {"fill", "confirm"} THEN 1 ELSE 0

\* The slot chosen is the one after the data, although the disk thread may have
\* moved on since; the slot peeked at is the first one with data.
Positions ==
  /\ net \in {"asleep", "woken", "fill", "confirm"} => next = Slot(countData)
  /\ disk \in {"save", "pop", "ended", "failed"} => head = baseData /\ countData > 0

\* When the network thread is in its loop, and when it is on its way out.
Control ==
  /\ net \in {"receive", "stop", "aborted"} => ~stopping
  /\ net \in {"asleep", "woken", "join", "done"} => stopping
  /\ net = "reserve" /\ ~stopping => spaceReady = 1

RingInv == TypeOK /\ Counters /\ Positions /\ Control

-----------------------------------------------------------------------------
(* Places in the ring. *)

Place(b, n) == IF b + n < Capacity THEN b + n ELSE b + n - Capacity

LEMMA ModSmall == ASSUME NEW c \in Nat \ {0}, NEW a \in 0 .. c - 1 PROVE a % c = a
  OBVIOUS

LEMMA ModOnce ==
  ASSUME NEW c \in Nat \ {0}, NEW a \in c .. 2 * c - 1 PROVE a % c = a - c
  OBVIOUS

\* The remainder wraps at most once.
LEMMA Wraps ==
  ASSUME NEW b \in 0 .. Capacity - 1, NEW n \in 0 .. Capacity
  PROVE  (b + n) % Capacity = Place(b, n) /\ Place(b, n) \in 0 .. Capacity - 1
<1>1. Capacity \in Nat \ {0}
  BY RingAssumption
<1>2. CASE b + n < Capacity
  <2>1. b + n \in 0 .. Capacity - 1
    BY <1>1, <1>2
  <2> QED BY <1>1, <1>2, <2>1, ModSmall DEF Place
<1>3. CASE ~(b + n < Capacity)
  <2>1. b + n \in Capacity .. 2 * Capacity - 1
    BY <1>1, <1>3
  <2>2. b + n - Capacity \in 0 .. Capacity - 1
    BY <1>1, <1>3
  <2> QED BY <1>1, <1>3, <2>1, <2>2, ModOnce DEF Place
<1> QED BY <1>2, <1>3

\* Different places are different slots.
LEMMA Apart ==
  ASSUME NEW b \in 0 .. Capacity - 1, NEW i \in 0 .. Capacity - 1,
         NEW j \in 0 .. Capacity - 1, i # j
  PROVE  Place(b, i) # Place(b, j)
<1>1. Capacity \in Nat \ {0}
  BY RingAssumption
<1> QED BY <1>1 DEF Place

\* After a pop, place n is what was place n + 1.
LEMMA Moves ==
  ASSUME NEW b \in 0 .. Capacity - 1, NEW n \in 0 .. Capacity - 1
  PROVE  /\ (b + 1) % Capacity \in 0 .. Capacity - 1
         /\ Place((b + 1) % Capacity, n) = Place(b, n + 1)
<1>1. Capacity \in Nat \ {0}
  BY RingAssumption
<1>2. (b + 1) % Capacity = Place(b, 1) /\ Place(b, 1) \in 0 .. Capacity - 1
  BY <1>1, Wraps
<1> QED BY <1>1, <1>2 DEF Place

\* A slot number, in terms of places.
LEMMA SlotIsPlace ==
  ASSUME TypeOK, NEW n \in 0 .. Capacity
  PROVE  Slot(n) = Place(baseData, n) /\ Slot(n) \in 0 .. Capacity - 1
BY Wraps DEF TypeOK, Slot

-----------------------------------------------------------------------------
(* The ring invariant is inductive. *)

LEMMA InitRing == Init => RingInv
<1> SUFFICES ASSUME Init PROVE RingInv
  OBVIOUS
<1>1. Capacity \in Nat \ {0} /\ Blocks \in Nat \ {0}
  BY RingAssumption
<1>2. TypeOK
  <2>1. slots \in [0 .. Capacity - 1 -> 0 .. Blocks]
    BY <1>1 DEF Init
  <2>2. datagram \in [block : 0 .. Blocks, type : {"none", "data", "terminate"}]
    BY <1>1 DEF Init
  <2>3. received \subseteq 0 .. Blocks /\ written \subseteq 1 .. Blocks
    BY DEF Init
  <2>4. /\ next \in 0 .. Capacity - 1 /\ head \in 0 .. Capacity - 1
        /\ baseData \in 0 .. Capacity - 1 /\ countData \in 0 .. Capacity
        /\ blocksLeft \in 0 .. Blocks /\ countReserved \in 0 .. 1
    BY <1>1 DEF Init
  <2>5. /\ net = "receive" /\ disk = "peek" /\ stopping = FALSE
        /\ lossless \in {0, 1} /\ dataReady = 0 /\ spaceReady = 1
    BY DEF Init
  <2> QED BY <2>1, <2>2, <2>3, <2>4, <2>5 DEF TypeOK
<1>3. Counters /\ Positions /\ Control
  BY <1>1 DEF Init, Counters, Positions, Control
<1> QED BY <1>2, <1>3 DEF RingInv

LEMMA RingReceive == RingInv /\ Receive => RingInv'
<1> SUFFICES ASSUME RingInv, Receive PROVE RingInv'
  OBVIOUS
<1>1. Blocks \in Nat \ {0}
  BY RingAssumption
<1> USE DEF RingInv
<1>2. TypeOK'
  BY <1>1 DEF Receive, TypeOK, Datagrams, netVars, ringVars
<1>3. Counters' /\ Positions' /\ Control'
  BY DEF Receive, TypeOK, Counters, Positions, Control, Slot, RingFull, netVars, ringVars
<1> QED BY <1>2, <1>3

LEMMA RingWaitForSpace == RingInv /\ WaitForSpace => RingInv'
<1> SUFFICES ASSUME RingInv, WaitForSpace PROVE RingInv'
  OBVIOUS
<1>1. Capacity \in Nat \ {0}
  BY RingAssumption
<1> USE DEF RingInv
<1>2. countReserved = 0 /\ countData \in 0 .. Capacity
  BY DEF WaitForSpace, TypeOK, Counters
<1>3. Slot(countData) \in 0 .. Capacity - 1
  BY <1>2, SlotIsPlace
<1>4. next' = Slot(countData)
  BY <1>2 DEF WaitForSpace, Positions, FreeSlot
<1>5. TypeOK'
  BY <1>3, <1>4 DEF WaitForSpace, TypeOK, ringVars
<1>6. Counters' /\ Positions' /\ Control'
  BY <1>4 DEF WaitForSpace, TypeOK, Counters, Positions, Control, Slot, ringVars
<1> QED BY <1>5, <1>6

LEMMA RingReserve == RingInv /\ Reserve => RingInv'
<1> SUFFICES ASSUME RingInv, Reserve PROVE RingInv'
  OBVIOUS
<1>1. Capacity \in Nat \ {0}
  BY RingAssumption
<1> USE DEF RingInv
<1>2. countReserved = 0 /\ countData \in 0 .. Capacity - 1
  BY <1>1 DEF Reserve, TypeOK, Counters
<1>3. Slot(countData) = Place(baseData, countData) /\ Slot(countData) \in 0 .. Capacity - 1
  BY <1>1, <1>2, SlotIsPlace
<1>4. next' = Slot(countData)
  BY <1>2 DEF Reserve, Positions, FreeSlot
<1>5. (next' + 1) % Capacity = Place(next', 1)
  BY <1>1, <1>3, <1>4, Wraps
<1>6. LastSlotTaken(next') <=> countData + 1 = Capacity
  BY <1>1, <1>2, <1>3, <1>4, <1>5 DEF LastSlotTaken, Place, TypeOK
<1>7. TypeOK'
  BY <1>2, <1>3, <1>4 DEF Reserve, TypeOK
<1>8. Counters'
  BY <1>1, <1>2, <1>6 DEF Reserve, Counters, TypeOK
<1>9. Positions' /\ Control'
  BY <1>4 DEF Reserve, Positions, Control, Slot
<1> QED BY <1>7, <1>8, <1>9

LEMMA RingFill == RingInv /\ Fill => RingInv'
<1> SUFFICES ASSUME RingInv, Fill PROVE RingInv'
  OBVIOUS
<1>1. Blocks \in Nat \ {0}
  BY RingAssumption
<1> USE DEF RingInv
<1>2. TypeOK'
  BY <1>1 DEF Fill, TypeOK, netVars, StopBlock
<1>3. Counters' /\ Positions' /\ Control'
  BY DEF Fill, Counters, Positions, Control, Slot, netVars
<1> QED BY <1>2, <1>3

LEMMA RingConfirm == RingInv /\ Confirm => RingInv'
<1> SUFFICES ASSUME RingInv, Confirm PROVE RingInv'
  OBVIOUS
<1>1. Blocks \in Nat \ {0} /\ Capacity \in Nat \ {0}
  BY RingAssumption
<1> USE DEF RingInv
<1>2. countReserved = 1 /\ countData \in 0 .. Capacity - 1
  BY <1>1 DEF Confirm, Counters, TypeOK
<1>3. TypeOK'
  <2>0. datagram.block \in 0 .. Blocks /\ received \subseteq 0 .. Blocks
    BY DEF TypeOK
  <2>1. received' \subseteq 0 .. Blocks
    BY <2>0 DEF Confirm
  <2>4. blocksLeft' \in 0 .. Blocks
    BY <1>1 DEF Confirm, TypeOK
  <2>2. net' \in {"receive", "stop", "join"} /\ disk' \in {disk, "woken"}
    BY DEF Confirm, Wake
  <2>3. countData' \in 0 .. Capacity /\ countReserved' \in 0 .. 1
    BY <1>1, <1>2 DEF Confirm
  <2> QED BY <2>1, <2>2, <2>3, <2>4 DEF Confirm, TypeOK
<1>4. Counters'
  BY <1>1, <1>2 DEF Confirm, Counters, TypeOK
<1>5. Positions'
  BY <1>1, <1>2 DEF Confirm, Positions, TypeOK, Wake, Slot
<1>6. Control'
  BY DEF Confirm, Control
<1> QED BY <1>3, <1>4, <1>5, <1>6

LEMMA RingOtherNetwork ==
  RingInv /\ (RequestStop \/ Abort \/ Join) => RingInv'
<1> SUFFICES ASSUME RingInv, RequestStop \/ Abort \/ Join PROVE RingInv'
  OBVIOUS
<1>1. Blocks \in Nat \ {0} /\ Capacity \in Nat \ {0}
  BY RingAssumption
<1> USE DEF RingInv
<1>2. TypeOK' /\ Counters' /\ Positions'
  BY DEF RequestStop, Abort, Join, TypeOK, Counters, Positions, Slot, netVars, ringVars
<1>3. Control'
  BY DEF RequestStop, Abort, Join, Control, netVars, ringVars
<1> QED BY <1>2, <1>3

LEMMA RingPeek == RingInv /\ (WaitForData \/ Peek \/ Save) => RingInv'
<1> SUFFICES ASSUME RingInv, WaitForData \/ Peek \/ Save PROVE RingInv'
  OBVIOUS
<1>1. Blocks \in Nat \ {0} /\ Capacity \in Nat \ {0}
  BY RingAssumption
<1> USE DEF RingInv
<1>2. CASE WaitForData
  <2>1. TypeOK' /\ Counters' /\ Positions' /\ Control'
    BY <1>2 DEF WaitForData, TypeOK, Counters, Positions, Control, Slot, netVars, ringVars
  <2> QED BY <2>1
<1>3. CASE Peek
  <2>1. countData > 0
    BY <1>3 DEF Peek, Counters, TypeOK
  <2>2. TypeOK'
    BY <1>3 DEF Peek, TypeOK, netVars, ringVars
  <2>3. Counters' /\ Positions' /\ Control'
    BY <1>3, <2>1 DEF Peek, Counters, Positions, Control, Slot, netVars, ringVars
  <2> QED BY <2>2, <2>3
<1>4. CASE Save
  <2>0. slots[head] \in 0 .. Blocks /\ written \subseteq 1 .. Blocks
    BY DEF TypeOK
  <2>1. written' \subseteq 1 .. Blocks
    <3>1. slots[head] # 0 => slots[head] \in 1 .. Blocks
      BY <1>1, <2>0
    <3> QED BY <1>4, <2>0, <3>1 DEF Save, StopBlock
  <2>2. TypeOK'
    BY <1>4, <2>1 DEF Save, TypeOK, netVars, ringVars
  <2>3. Counters' /\ Positions' /\ Control'
    BY <1>4 DEF Save, Counters, Positions, Control, Slot, netVars, ringVars
  <2> QED BY <2>2, <2>3
<1> QED BY <1>2, <1>3, <1>4

LEMMA RingPop == RingInv /\ Pop => RingInv'
<1> SUFFICES ASSUME RingInv, Pop PROVE RingInv'
  OBVIOUS
<1>1. Blocks \in Nat \ {0} /\ Capacity \in Nat \ {0}
  BY RingAssumption
<1> USE DEF RingInv
<1>2. countData \in 1 .. Capacity
  BY <1>1 DEF Pop, Positions, TypeOK
<1>3. baseData' \in 0 .. Capacity - 1
  BY <1>1, Moves DEF Pop, TypeOK
<1>4. TypeOK'
  <2>1. countData' \in 0 .. Capacity
    BY <1>1, <1>2 DEF Pop
  <2>2. net' \in {net, "woken"} /\ disk' = "peek"
    BY DEF Pop, Wake
  <2>3. dataReady' \in {0, 1} /\ spaceReady' = 1
    BY DEF Pop, TypeOK
  <2> QED BY <1>3, <2>1, <2>2, <2>3 DEF Pop, TypeOK, netVars
<1>5. Slot(countData)' = Slot(countData)
  <2> DEFINE n == countData - 1
  <2>0. n \in 0 .. Capacity - 1 /\ countData' = n /\ n + 1 = countData /\ n \in 0 .. Capacity
    BY <1>1, <1>2 DEF Pop
  <2>1. Slot(countData)' = Place(baseData', n)
    <3>1. Slot(countData)' = (baseData' + n) % Capacity
      BY <2>0 DEF Slot
    <3> HIDE DEF n
    <3> QED BY <1>3, <2>0, <3>1, Wraps
  <2>2. Slot(countData) = Place(baseData, countData)
    BY <1>2, SlotIsPlace
  <2>3. Place(baseData', n) = Place(baseData, countData)
    <3>1. baseData \in 0 .. Capacity - 1 /\ baseData' = (baseData + 1) % Capacity
      BY DEF Pop, TypeOK
    <3> HIDE DEF n
    <3>2. Place(baseData', n) = Place(baseData, n + 1)
      BY <2>0, <3>1, Moves
    <3> QED BY <2>0, <3>2
  <2> QED BY <2>1, <2>2, <2>3
<1>6. Counters'
  BY <1>1, <1>2 DEF Pop, Counters, TypeOK, Wake, netVars
<1>7. Positions'
  BY <1>5 DEF Pop, Positions, Wake, netVars
<1>8. Control'
  BY DEF Pop, Control, Wake, netVars
<1> QED BY <1>4, <1>6, <1>7, <1>8

LEMMA RingStray == RingInv /\ (Stray \/ SpuriousWakeup) => RingInv'
<1> SUFFICES ASSUME RingInv, Stray \/ SpuriousWakeup PROVE RingInv'
  OBVIOUS
<1> USE DEF RingInv
<1>1. TypeOK'
  BY DEF Stray, SpuriousWakeup, TypeOK, netVars, ringVars
<1>2. Counters' /\ Positions' /\ Control'
  BY DEF Stray, SpuriousWakeup, Counters, Positions, Control, Slot, netVars, ringVars
<1> QED BY <1>1, <1>2

LEMMA StepRing == RingInv /\ [Next]_vars => RingInv'
<1> SUFFICES ASSUME RingInv, [Next]_vars PROVE RingInv'
  OBVIOUS
<1>1. CASE UNCHANGED vars
  BY <1>1 DEF vars, netVars, ringVars, RingInv, TypeOK, Counters, Positions, Control, Slot
<1>2. CASE Next
  BY <1>2, RingReceive, RingWaitForSpace, RingReserve, RingFill, RingConfirm,
     RingOtherNetwork, RingPeek, RingPop, RingStray DEF Next, Network, DiskThread
<1> QED BY <1>1, <1>2

LEMMA RingAlways == Spec => []RingInv
BY InitRing, StepRing, PTL DEF Spec

\* The client's state stays well typed: the counters keep within the ring's
\* capacity, and at most one slot is reserved.
THEOREM RingTypeCorrect == Spec => []TypeOK
BY RingAlways, PTL DEF RingInv

\* The network thread waits for space only when it puts in the stop block: no
\* block of its loop makes it wait, so its feedback to the server goes on.
THEOREM FeedbackNeverWaits == Spec => []FeedbackGoesOn
<1>1. RingInv => FeedbackGoesOn
  BY DEF RingInv, Control, FeedbackGoesOn
<1> QED BY <1>1, RingAlways, PTL
-----------------------------------------------------------------------------
(* The disk thread's slot. *)

\* While the disk thread reads its slot without the mutex, the network thread
\* copies its datagram into another one.
THEOREM HeldSlotIsLeftAlone == Spec => HeldSlotIsStable
<1>1. RingInv /\ [Next]_vars => [disk = "save" => slots'[head] = slots[head]]_vars
  <2> SUFFICES ASSUME RingInv, [Next]_vars, disk = "save"
               PROVE  slots'[head] = slots[head]
    OBVIOUS
  <2>1. CASE Fill
    <3>1. /\ head = baseData /\ countData > 0 /\ next = Slot(countData)
          /\ countData \in 0 .. Capacity - 1
      BY <2>1, RingAssumption DEF Fill, RingInv, Positions, Counters, TypeOK
    <3>2. /\ 0 \in 0 .. Capacity - 1 /\ countData \in 0 .. Capacity - 1 /\ countData # 0
          /\ 0 \in 0 .. Capacity /\ countData \in 0 .. Capacity
          /\ baseData \in 0 .. Capacity - 1
      BY <3>1, RingAssumption DEF RingInv, TypeOK
    <3>3. Slot(countData) = Place(baseData, countData) /\ Place(baseData, 0) = baseData
      BY <3>2, SlotIsPlace, RingAssumption DEF RingInv, Place
    <3>4. Place(baseData, 0) # Place(baseData, countData)
      BY <3>2, Apart
    <3>5. next # head
      BY <3>1, <3>3, <3>4
    <3> QED BY <2>1, <3>5 DEF Fill, RingInv, TypeOK
  <2>2. CASE ~Fill
    <3>1. slots' = slots
      BY <2>2 DEF Next, Network, DiskThread, WaitForSpace, Reserve, Confirm, RequestStop,
         Join, Receive, Abort, WaitForData, Peek, Save, Pop, Stray, SpuriousWakeup,
         vars, netVars, ringVars
    <3> QED BY <3>1
  <2> QED BY <2>1, <2>2
<1> QED BY <1>1, RingAlways, PTL DEF Spec, HeldSlotIsStable
-----------------------------------------------------------------------------
(* The blocks in the ring. *)

\* The blocks of the ring, as a set.
Queued == {slots[Slot(i)] : i \in 0 .. countData - 1}

\* A block is put in only if it is not yet received; what is received is on
\* disk or queued; what the disk thread pops, it has written.
Contents ==
  /\ net \in {"reserve", "fill", "confirm"} /\ ~stopping => datagram.block \notin received
  /\ net = "confirm" => slots[next] = IF stopping THEN StopBlock ELSE datagram.block
  /\ disk = "pop" => slots[head] \in written
  /\ received \subseteq written \cup Queued

\* Only the slot after the data is written to.
LEMMA QueueStays ==
  ASSUME RingInv, Fill, NEW i \in 0 .. countData - 1
  PROVE  slots'[Slot(i)] = slots[Slot(i)] /\ Slot(i)' = Slot(i)
<1>1. next = Slot(countData) /\ countData \in 0 .. Capacity - 1
  BY RingAssumption DEF Fill, RingInv, Positions, Counters, TypeOK
<1>2. i \in 0 .. Capacity - 1 /\ i # countData
  BY <1>1, RingAssumption
<1>3. Slot(countData) = Place(baseData, countData) /\ Slot(i) = Place(baseData, i)
  BY <1>1, <1>2, SlotIsPlace, RingAssumption DEF RingInv
<1>4. Slot(i) # next
  BY <1>1, <1>2, <1>3, Apart DEF RingInv, TypeOK
<1>5. Slot(i)' = Slot(i)
  BY DEF Fill, Slot
<1> QED BY <1>4, <1>5 DEF Fill, RingInv, TypeOK

\* A pop moves every block one place forward.
LEMMA QueueShifts ==
  ASSUME RingInv, Pop, NEW i \in 0 .. countData - 2
  PROVE  slots'[Slot(i)'] = slots[Slot(i + 1)]
<1>1. /\ baseData \in 0 .. Capacity - 1 /\ baseData' = (baseData + 1) % Capacity
      /\ countData \in 0 .. Capacity /\ slots' = slots
  BY DEF Pop, RingInv, TypeOK
<1>2. i \in 0 .. Capacity - 1 /\ i \in 0 .. Capacity /\ i + 1 \in 0 .. Capacity
  BY <1>1, RingAssumption
<1>3. baseData' \in 0 .. Capacity - 1 /\ Place(baseData', i) = Place(baseData, i + 1)
  BY <1>1, <1>2, Moves
<1>4. Slot(i)' = Place(baseData', i)
  <2>1. Slot(i)' = (baseData' + i) % Capacity
    BY DEF Slot
  <2> QED BY <1>2, <1>3, <2>1, Wraps
<1>5. Slot(i + 1) = Place(baseData, i + 1)
  BY <1>2, SlotIsPlace DEF RingInv
<1> QED BY <1>1, <1>3, <1>4, <1>5

LEMMA ContentsNetwork ==
  ASSUME RingInv, Contents, Receive \/ WaitForSpace \/ Reserve \/ RequestStop \/ Abort \/ Join
  PROVE  Contents'
<1>1. Queued' = Queued
  BY DEF Receive, WaitForSpace, Reserve, RequestStop, Abort, Join, Queued, Slot, netVars, ringVars
<1>2. /\ received' = received /\ written' = written /\ slots' = slots /\ head' = head
      /\ disk' = disk /\ net' # "confirm"
  BY DEF Receive, WaitForSpace, Reserve, RequestStop, Abort, Join, netVars, ringVars
<1>3. net' \in {"reserve", "fill"} /\ ~stopping' => datagram'.block \notin received
  <2>1. CASE Receive
    BY <2>1 DEF Receive, GotBlock
  <2>2. CASE WaitForSpace \/ Reserve
    BY <2>2 DEF WaitForSpace, Reserve, Contents, RingInv, Control
  <2>3. CASE RequestStop \/ Abort \/ Join
    BY <2>3 DEF RequestStop, Abort, Join, netVars
  <2> QED BY <2>1, <2>2, <2>3
<1> QED BY <1>1, <1>2, <1>3 DEF Contents

LEMMA ContentsFill == ASSUME RingInv, Contents, Fill PROVE Contents'
<1>1. Queued' = Queued
  BY QueueStays DEF Fill, Queued
<1>2. /\ received' = received /\ written' = written /\ disk' = disk /\ head' = head
      /\ datagram' = datagram /\ stopping' = stopping /\ next' = next
  BY DEF Fill, netVars
<1>3. slots'[next] = IF stopping THEN StopBlock ELSE datagram.block
  BY DEF Fill, RingInv, TypeOK
<1>4. disk = "pop" => slots'[head] = slots[head]
  <2> SUFFICES ASSUME disk = "pop" PROVE slots'[head] = slots[head]
    OBVIOUS
  <2>1. head = baseData /\ countData > 0 /\ countData \in 0 .. Capacity /\ baseData \in 0 .. Capacity - 1
    BY DEF RingInv, Positions, TypeOK
  <2>2. 0 \in 0 .. countData - 1 /\ 0 \in 0 .. Capacity
    BY <2>1, RingAssumption
  <2>3. Slot(0) = head
    BY <2>1, <2>2, SlotIsPlace, RingAssumption DEF Place, RingInv
  <2> QED BY <2>2, <2>3, QueueStays
<1> QED BY <1>1, <1>2, <1>3, <1>4 DEF Contents, Fill

LEMMA ContentsConfirm == ASSUME RingInv, Contents, Confirm PROVE Contents'
<1>1. countData \in 0 .. Capacity - 1 /\ countData' = countData + 1 /\ next = Slot(countData)
  BY RingAssumption DEF Confirm, RingInv, Positions, Counters, TypeOK
<1>2. slots' = slots /\ baseData' = baseData /\ written' = written /\ head' = head
  BY DEF Confirm
<1>3. Queued' = Queued \cup {slots[next]}
  <2>1. 0 .. countData' - 1 = (0 .. countData - 1) \cup {countData}
    BY <1>1
  <2>2. \A i : Slot(i)' = Slot(i)
    BY <1>2 DEF Slot
  <2> QED BY <1>1, <1>2, <2>1, <2>2 DEF Queued
<1>4. received' \subseteq received \cup (IF stopping THEN {} ELSE {datagram.block})
  BY DEF Confirm
<1>5. slots[next] = IF stopping THEN StopBlock ELSE datagram.block
  BY DEF Confirm, Contents
<1>6. received' \subseteq written' \cup Queued'
  BY <1>2, <1>3, <1>4, <1>5 DEF Contents
<1>7. disk' = "pop" => disk = "pop"
  BY DEF Confirm, Wake
<1>8. net' \notin {"reserve", "fill", "confirm"}
  BY DEF Confirm
<1> QED BY <1>2, <1>6, <1>7, <1>8 DEF Contents

LEMMA ContentsDisk ==
  ASSUME RingInv, Contents, WaitForData \/ Peek \/ Save \/ Stray \/ SpuriousWakeup
  PROVE  Contents'
<1>1. Queued' = Queued
  BY DEF WaitForData, Peek, Save, Stray, SpuriousWakeup, Queued, Slot, netVars, ringVars
<1>2. /\ received' = received /\ slots' = slots /\ datagram' = datagram
      /\ stopping' = stopping /\ next' = next /\ written \subseteq written'
  BY DEF WaitForData, Peek, Save, Stray, SpuriousWakeup, netVars, ringVars
<1>3. net' \in {"reserve", "fill", "confirm"} => net' = net
  BY DEF WaitForData, Peek, Save, Stray, SpuriousWakeup, netVars
<1>4. disk' = "pop" => slots[head'] \in written'
  BY DEF WaitForData, Peek, Save, Stray, SpuriousWakeup, Contents, netVars
<1> QED BY <1>1, <1>2, <1>3, <1>4 DEF Contents

LEMMA ContentsPop == ASSUME RingInv, Contents, Pop PROVE Contents'
<1>1. /\ countData \in 1 .. Capacity /\ countData' = countData - 1 /\ slots' = slots
      /\ head = baseData /\ baseData \in 0 .. Capacity - 1
  BY RingAssumption DEF Pop, RingInv, Positions, TypeOK
<1>2. Slot(0) = head
  <2>1. 0 \in 0 .. Capacity
    BY RingAssumption
  <2> QED BY <1>1, <2>1, SlotIsPlace, RingAssumption DEF Place, RingInv
<1>3. Queued \subseteq Queued' \cup {slots[head]}
  <2> SUFFICES ASSUME NEW i \in 0 .. countData - 1, i # 0
               PROVE  \E j \in 0 .. countData' - 1 : slots[Slot(i)] = slots'[Slot(j)']
    BY <1>2 DEF Queued
  <2>1. i - 1 \in 0 .. countData - 2 /\ i - 1 \in 0 .. countData' - 1 /\ (i - 1) + 1 = i
    BY <1>1
  <2>2. slots'[Slot(i - 1)'] = slots[Slot((i - 1) + 1)]
    BY <2>1, QueueShifts
  <2> QED BY <2>1, <2>2
<1>4. slots[head] \in written /\ written' = written /\ received' = received
  BY DEF Pop, Contents, netVars
<1>5. received' \subseteq written' \cup Queued'
  BY <1>3, <1>4 DEF Contents
<1>6. /\ disk' # "pop" /\ next' = next /\ datagram' = datagram /\ stopping' = stopping
      /\ (net' \in {"reserve", "fill", "confirm"} => net' = net)
  BY DEF Pop, Wake, netVars
<1> QED BY <1>1, <1>4, <1>5, <1>6 DEF Contents

LEMMA ContentsAlways == Spec => []Contents
<1>1. Init => Contents
  BY DEF Init, Contents
<1>2. RingInv /\ Contents /\ [Next]_vars => Contents'
  <2> SUFFICES ASSUME RingInv, Contents, [Next]_vars PROVE Contents'
    OBVIOUS
  <2>1. CASE UNCHANGED vars
    BY <2>1 DEF vars, netVars, ringVars, Contents, Queued, Slot
  <2>2. CASE Next
    BY <2>2, ContentsNetwork, ContentsFill, ContentsConfirm, ContentsDisk, ContentsPop
       DEF Next, Network, DiskThread
  <2> QED BY <2>1, <2>2
<1> QED BY <1>1, <1>2, RingAlways, PTL DEF Spec

\* Whatever fails, no block that the network thread has marked as received, and
\* will never take again, is lost between the ring and the disk.
THEOREM NothingReceivedIsLost == Spec => []ReceivedIsKept
<1>1. Contents => ReceivedIsKept
  BY DEF Contents, Queued, ReceivedIsKept
<1> QED BY <1>1, ContentsAlways, PTL
-----------------------------------------------------------------------------
(* The ring is a queue. *)

QueueIs ==
  /\ Queue \in Seq(0 .. Blocks) /\ Len(Queue) = countData
  /\ \A i \in 1 .. countData : Queue[i] = slots[Slot(i - 1)]

LEMMA QueueIsSeq == RingInv => QueueIs
<1> SUFFICES ASSUME RingInv PROVE QueueIs
  OBVIOUS
<1>1. countData \in 0 .. Capacity /\ countData \in Nat
  BY RingAssumption DEF RingInv, TypeOK
<1>2. \A i \in 1 .. countData : slots[Slot(i - 1)] \in 0 .. Blocks
  <2> SUFFICES ASSUME NEW i \in 1 .. countData PROVE slots[Slot(i - 1)] \in 0 .. Blocks
    OBVIOUS
  <2>1. i - 1 \in 0 .. Capacity
    BY <1>1, RingAssumption
  <2>2. Slot(i - 1) \in 0 .. Capacity - 1
    BY <2>1, SlotIsPlace DEF RingInv
  <2> QED BY <2>2 DEF RingInv, TypeOK
<1>3. Queue \in [1 .. countData -> 0 .. Blocks]
  BY <1>2 DEF Queue
<1>4. ASSUME NEW q, NEW n \in Nat, q \in [1 .. n -> 0 .. Blocks]
      PROVE  q \in Seq(0 .. Blocks) /\ Len(q) = n
  <2> DEFINE S == 0 .. Blocks
  <2>1. q \in Seq(S)
    <3> HIDE DEF S
    <3>1. q \in [1 .. n -> S]
      BY <1>4 DEF S
    <3>2. q \in UNION {[1 .. m -> S] : m \in Nat}
      BY <3>1
    <3> QED BY <3>2, SeqDef
  <2>2. DOMAIN q = 1 .. n
    BY <1>4
  <2>3. Len(q) \in Nat /\ DOMAIN q = 1 .. Len(q)
    BY <2>1, LenProperties
  <2>4. Len(q) = n
    BY <2>2, <2>3
  <2> QED BY <2>1, <2>4
<1>5. Queue \in Seq(0 .. Blocks) /\ Len(Queue) = countData
  BY <1>1, <1>3, <1>4
<1> QED BY <1>5 DEF Queue, QueueIs

LEMMA NextQueueIsSeq == RingInv' => QueueIs'
BY QueueIsSeq, PTL

\* A confirmed slot is put in at the end of the queue.
LEMMA ConfirmPuts ==
  ASSUME RingInv, RingInv', Confirm
  PROVE  \E x \in 0 .. Blocks : Ring!Put(x)
<1> DEFINE x == slots[next]
<1>1. /\ countData \in 0 .. Capacity - 1 /\ countData' = countData + 1 /\ next = Slot(countData)
      /\ slots' = slots /\ baseData' = baseData
  BY RingAssumption DEF Confirm, RingInv, Positions, Counters, TypeOK
<1>2. x \in 0 .. Blocks
  BY DEF RingInv, TypeOK
<1>3. /\ Queue \in Seq(0 .. Blocks) /\ Len(Queue) = countData
      /\ \A i \in 1 .. countData : Queue[i] = slots[Slot(i - 1)]
  BY QueueIsSeq DEF QueueIs
<1>4. /\ Queue' \in Seq(0 .. Blocks) /\ Len(Queue') = countData'
      /\ \A i \in 1 .. countData' : Queue'[i] = slots'[Slot(i - 1)']
  BY NextQueueIsSeq DEF QueueIs
<1>5. \A n : Slot(n)' = Slot(n)
  BY <1>1 DEF Slot
<1>6. /\ Append(Queue, x) \in Seq(0 .. Blocks) /\ Len(Append(Queue, x)) = countData + 1
      /\ \A i \in 1 .. countData : Append(Queue, x)[i] = Queue[i]
      /\ Append(Queue, x)[countData + 1] = x
  BY <1>2, <1>3, AppendProperties
<1>7. \A i \in 1 .. countData' : Queue'[i] = Append(Queue, x)[i]
  <2> SUFFICES ASSUME NEW i \in 1 .. countData' PROVE Queue'[i] = Append(Queue, x)[i]
    OBVIOUS
  <2>1. Queue'[i] = slots[Slot(i - 1)]
    BY <1>1, <1>4, <1>5
  <2>2. CASE i \in 1 .. countData
    BY <1>3, <1>6, <2>1, <2>2
  <2>3. CASE i = countData + 1
    <3>1. i - 1 = countData
      BY <1>1, <2>3
    <3>2. Queue'[i] = x
      BY <1>1, <2>1, <3>1
    <3> HIDE DEF x
    <3> QED BY <1>6, <2>3, <3>2
  <2>4. i \in 1 .. countData \/ i = countData + 1
    BY <1>1, RingAssumption
  <2> QED BY <2>2, <2>3, <2>4
<1>8. Queue' = Append(Queue, x)
  <2> HIDE DEF x
  <2> QED BY <1>1, <1>4, <1>6, <1>7, SeqEqual
<1>9. Len(Queue) < Capacity
  BY <1>1, <1>3, RingAssumption
<1> QED BY <1>2, <1>8, <1>9 DEF Ring!Put

\* A pop takes the first one.
LEMMA PopTakes ==
  ASSUME RingInv, RingInv', Pop
  PROVE  Ring!Take
<1>1. /\ countData \in 1 .. Capacity /\ countData' = countData - 1
  BY RingAssumption DEF Pop, RingInv, Positions, TypeOK
<1>2. /\ Queue \in Seq(0 .. Blocks) /\ Len(Queue) = countData
      /\ \A i \in 1 .. countData : Queue[i] = slots[Slot(i - 1)]
  BY QueueIsSeq DEF QueueIs
<1>3. /\ Queue' \in Seq(0 .. Blocks) /\ Len(Queue') = countData'
      /\ \A i \in 1 .. countData' : Queue'[i] = slots'[Slot(i - 1)']
  BY NextQueueIsSeq DEF QueueIs
<1>4. Queue # <<>>
  BY <1>1, <1>2
<1>5. /\ Tail(Queue) \in Seq(0 .. Blocks) /\ Len(Tail(Queue)) = countData - 1
      /\ \A i \in 1 .. countData - 1 : Tail(Queue)[i] = Queue[i + 1]
  BY <1>2, <1>4, HeadTailProperties
<1>6. \A i \in 1 .. countData' : Queue'[i] = Tail(Queue)[i]
  <2> SUFFICES ASSUME NEW i \in 1 .. countData' PROVE Queue'[i] = Tail(Queue)[i]
    OBVIOUS
  <2>1. /\ i - 1 \in 0 .. countData - 2 /\ (i - 1) + 1 = i /\ (i + 1) - 1 = i
        /\ i + 1 \in 1 .. countData /\ i \in 1 .. countData - 1
    BY <1>1
  <2>2. slots'[Slot(i - 1)'] = slots[Slot((i - 1) + 1)]
    BY <2>1, QueueShifts
  <2>3. Queue[i + 1] = slots[Slot((i + 1) - 1)]
    BY <1>2, <2>1
  <2> QED BY <1>3, <1>5, <2>1, <2>2, <2>3
<1>7. Queue' = Tail(Queue)
  BY <1>1, <1>3, <1>5, <1>6, SeqEqual
<1> QED BY <1>4, <1>7 DEF Ring!Take

\* Every other step leaves the queue as it is.
LEMMA OthersLeaveQueue ==
  ASSUME RingInv, RingInv', [Next]_vars, ~Confirm, ~Pop
  PROVE  Queue' = Queue
<1>1. CASE Fill
  <2>1. countData' = countData
    BY <1>1 DEF Fill
  <2>2. \A i \in 1 .. countData : slots'[Slot(i - 1)'] = slots[Slot(i - 1)]
    <3> SUFFICES ASSUME NEW i \in 1 .. countData
                 PROVE  slots'[Slot(i - 1)'] = slots[Slot(i - 1)]
      OBVIOUS
    <3>1. i - 1 \in 0 .. countData - 1
      BY DEF RingInv, TypeOK
    <3> QED BY <1>1, <3>1, QueueStays
  <2> QED BY <2>1, <2>2 DEF Queue
<1>2. CASE ~Fill
  <2>1. slots' = slots /\ baseData' = baseData /\ countData' = countData
    BY <1>2 DEF Next, Network, DiskThread, WaitForSpace, Reserve, RequestStop, Join,
       Receive, Abort, WaitForData, Peek, Save, Stray, SpuriousWakeup, vars, netVars, ringVars
  <2> QED BY <2>1 DEF Queue, Slot
<1> QED BY <1>1, <1>2

\* The ring implements the bounded queue: blocks come out once each, in the order
\* they went in, for every interleaving of the two threads.
THEOREM RingIsQueue == Spec => KeepsOrder
<1>1. Init => Ring!Init
  <2> SUFFICES ASSUME Init PROVE Queue = <<>>
    BY DEF Ring!Init
  <2>1. Len(Queue) = 0 /\ Queue \in Seq(0 .. Blocks)
    BY InitRing, QueueIsSeq DEF Init, QueueIs
  <2> QED BY <2>1
<1>2. RingInv /\ RingInv' /\ [Next]_vars => [Ring!Next]_Queue
  BY ConfirmPuts, PopTakes, OthersLeaveQueue DEF Ring!Next
<1> QED BY <1>1, <1>2, RingAlways, PTL DEF Spec, KeepsOrder, Ring!Spec
-----------------------------------------------------------------------------
(* The end of a transfer. *)

\* Unless a failed recvfrom has brought a block 0 in, the stop block is the only
\* block 0, comes last and comes when the network thread has left its loop; the
\* loop is left with nothing to come; blocksLeft counts what is to come.
Ending ==
  /\ disk = "ended" => slots[head] = StopBlock
  /\ 0 \notin received =>
       \A i \in 0 .. countData - 1 :
         slots[Slot(i)] = StopBlock => net \in {"join", "done"} /\ i = countData - 1
  /\ 0 \notin received => blocksLeft + Cardinality(received) = Blocks
  /\ (net = "stop" \/ stopping) /\ lossless = 1 => blocksLeft = 0

LEMMA EndingInit == Init => Ending
<1> SUFFICES ASSUME Init PROVE Ending
  OBVIOUS
<1>1. Cardinality({}) = 0
  BY FS_EmptySet
<1> QED BY <1>1, RingAssumption DEF Init, Ending

\* A block that is taken is counted.
LEMMA EndingConfirm == ASSUME RingInv, Contents, Ending, Confirm PROVE Ending'
<1>1. /\ countData \in 0 .. Capacity - 1 /\ countData' = countData + 1 /\ next = Slot(countData)
      /\ slots' = slots /\ baseData' = baseData /\ head' = head
      /\ stopping' = stopping /\ lossless' = lossless
  BY RingAssumption DEF Confirm, RingInv, Positions, Counters, TypeOK
<1>2. \A n : Slot(n)' = Slot(n)
  BY <1>1 DEF Slot
<1>3. disk' = "ended" => disk = "ended"
  BY DEF Confirm, Wake
<1>4. slots[next] = IF stopping THEN StopBlock ELSE datagram.block
  BY DEF Confirm, Contents
<1>5. \A i \in 0 .. countData' - 1 : i \in 0 .. countData - 1 \/ i = countData
  BY <1>1, RingAssumption
<1>6. CASE stopping
  <2>1. net' = "join" /\ received' = received /\ blocksLeft' = blocksLeft
    BY <1>6 DEF Confirm
  <2>2. 0 \notin received =>
          \A i \in 0 .. countData' - 1 : slots[Slot(i)] = StopBlock => i = countData' - 1
    BY <1>1, <1>5, RingAssumption DEF Ending, Confirm
  <2> QED BY <1>1, <1>2, <1>3, <1>6, <2>1, <2>2 DEF Ending
<1>7. CASE ~stopping
  <2>1. /\ received' = received \cup {datagram.block} /\ net' \in {"receive", "stop"}
        /\ blocksLeft' = IF blocksLeft > 0 THEN blocksLeft - 1 ELSE blocksLeft
        /\ (net' = "stop" /\ lossless = 1 => blocksLeft' = 0)
    BY <1>7 DEF Confirm, MayLeave
  <2>2. 0 \notin received' =>
          \A i \in 0 .. countData' - 1 : slots[Slot(i)] # StopBlock
    BY <1>1, <1>4, <1>5, <1>7, <2>1 DEF Ending, Confirm, StopBlock
  <2>3. 0 \notin received' => blocksLeft' + Cardinality(received') = Blocks
    <3> SUFFICES ASSUME 0 \notin received'
                 PROVE  blocksLeft' + Cardinality(received') = Blocks
      OBVIOUS
    <3>1. received' \subseteq 1 .. Blocks /\ received \subseteq 1 .. Blocks
      <4>1. datagram.block \in 0 .. Blocks /\ received \subseteq 0 .. Blocks
        BY DEF RingInv, TypeOK
      <4>2. \A b \in 0 .. Blocks : b # 0 => b \in 1 .. Blocks
        BY RingAssumption
      <4>3. received \subseteq received' /\ datagram.block \in received'
        BY <2>1
      <4> QED BY <2>1, <4>1, <4>2, <4>3
    <3>2. IsFiniteSet(1 .. Blocks) /\ Cardinality(1 .. Blocks) = Blocks
      BY FS_Interval, RingAssumption
    <3>3. IsFiniteSet(received) /\ IsFiniteSet(received') /\ Cardinality(received') <= Blocks
      BY <3>1, <3>2, FS_Subset
    <3>4. Cardinality(received') = Cardinality(received) + 1
      BY <1>7, <2>1, <3>3, FS_AddElement DEF Contents, Confirm
    <3>5. Cardinality(received) \in Nat
      BY <3>3, FS_CardinalityType
    <3>6. blocksLeft + Cardinality(received) = Blocks
      BY <2>1 DEF Ending
    <3> QED BY <2>1, <3>3, <3>4, <3>5, <3>6, RingAssumption DEF RingInv, TypeOK
  <2> QED BY <1>1, <1>2, <1>3, <1>7, <2>1, <2>2, <2>3 DEF Ending
<1> QED BY <1>6, <1>7

LEMMA EndingFill == ASSUME RingInv, Contents, Ending, Fill PROVE Ending'
<1>1. /\ received' = received /\ blocksLeft' = blocksLeft /\ disk' = disk /\ head' = head
      /\ countData' = countData /\ stopping' = stopping /\ lossless' = lossless
      /\ net = "fill" /\ net' = "confirm"
  BY DEF Fill, netVars
<1>2. \A i \in 0 .. countData - 1 : slots'[Slot(i)'] = slots[Slot(i)]
  BY QueueStays
<1>3. disk = "ended" => slots'[head] = slots[head]
  <2> SUFFICES ASSUME disk = "ended" PROVE slots'[head] = slots[head]
    OBVIOUS
  <2>1. head = baseData /\ countData > 0 /\ countData \in 0 .. Capacity /\ baseData \in 0 .. Capacity - 1
    BY DEF RingInv, Positions, TypeOK
  <2>2. 0 \in 0 .. countData - 1 /\ 0 \in 0 .. Capacity
    BY <2>1, RingAssumption
  <2>3. Slot(0) = head
    BY <2>1, <2>2, SlotIsPlace, RingAssumption DEF Place, RingInv
  <2> QED BY <2>2, <2>3, QueueStays
<1> QED BY <1>1, <1>2, <1>3 DEF Ending

LEMMA EndingPop == ASSUME RingInv, Contents, Ending, Pop PROVE Ending'
<1>1. /\ countData \in 1 .. Capacity /\ countData' = countData - 1
      /\ received' = received /\ blocksLeft' = blocksLeft /\ disk' = "peek"
      /\ stopping' = stopping /\ lossless' = lossless
  BY RingAssumption DEF Pop, RingInv, Positions, TypeOK, netVars
<1>2. net' \in {net, "woken"} /\ (net \in {"join", "done", "stop"} => net' = net)
  BY DEF Pop, Wake
<1>3. \A i \in 0 .. countData' - 1 :
        /\ i \in 0 .. countData - 2 /\ i + 1 \in 0 .. countData - 1
        /\ (i + 1 = countData - 1 => i = countData' - 1)
  BY <1>1
<1>4. \A i \in 0 .. countData' - 1 : slots'[Slot(i)'] = slots[Slot(i + 1)]
  BY <1>3, QueueShifts
<1> QED BY <1>1, <1>2, <1>3, <1>4 DEF Ending

LEMMA EndingOther ==
  ASSUME RingInv, Contents, Ending, [Next]_vars, ~Confirm, ~Fill, ~Pop
  PROVE  Ending'
<1>1. /\ slots' = slots /\ baseData' = baseData /\ countData' = countData
      /\ received' = received /\ blocksLeft' = blocksLeft /\ lossless' = lossless
  BY DEF Next, Network, DiskThread, WaitForSpace, Reserve, RequestStop, Join, Receive, Abort,
     WaitForData, Peek, Save, Stray, SpuriousWakeup, vars, netVars, ringVars
<1>2. \A n : Slot(n)' = Slot(n)
  BY <1>1 DEF Slot
<1>3. disk' = "ended" => slots[head'] = StopBlock
  BY DEF Ending, Next, Network, DiskThread, WaitForSpace, Reserve, RequestStop, Join, Receive,
     Abort, WaitForData, Peek, Save, Stray, SpuriousWakeup, vars, netVars, ringVars
<1>4. net \in {"join", "done"} => net' \in {"join", "done"}
  BY DEF Next, Network, DiskThread, WaitForSpace, Reserve, RequestStop, Join, Receive,
     Abort, WaitForData, Peek, Save, Stray, SpuriousWakeup, vars, netVars, ringVars
<1>5. (net' = "stop" \/ stopping') /\ lossless = 1 => blocksLeft = 0
  BY DEF Ending, Next, Network, DiskThread, WaitForSpace, Reserve, RequestStop, Join, Receive,
     MayLeave, Abort, WaitForData, Peek, Save, Stray, SpuriousWakeup, vars, netVars, ringVars
<1> QED BY <1>1, <1>2, <1>3, <1>4, <1>5 DEF Ending

LEMMA EndingAlways == Spec => []Ending
<1>1. RingInv /\ Contents /\ Ending /\ [Next]_vars => Ending'
  BY EndingConfirm, EndingFill, EndingPop, EndingOther
<1> QED BY <1>1, EndingInit, RingAlways, ContentsAlways, PTL DEF Spec

\* When a lossless transfer ends without a fault, every block of the file has
\* gone through the ring to the disk, those too that were still in the ring when
\* the network thread left its loop.
THEOREM EndMeansWhole == Spec => []EndsWhole
<1>1. RingInv /\ Contents /\ Ending => EndsWhole
  <2> SUFFICES ASSUME RingInv, Contents, Ending,
                      net = "done", lossless = 1, disk = "ended", 0 \notin received
               PROVE  written = 1 .. Blocks
    BY DEF EndsWhole
  <2>1. blocksLeft = 0 /\ Cardinality(received) = Blocks
    <3>1. blocksLeft = 0
      BY DEF RingInv, Control, Ending
    <3>2. blocksLeft + Cardinality(received) = Blocks
      BY DEF Ending
    <3>3. received \subseteq 0 .. Blocks
      BY DEF RingInv, TypeOK
    <3>4. IsFiniteSet(received)
      <4>1. IsFiniteSet(0 .. Blocks)
        BY FS_Interval, RingAssumption
      <4> QED BY <3>3, <4>1, FS_Subset
    <3>5. Cardinality(received) \in Nat
      BY <3>4, FS_CardinalityType
    <3> QED BY <3>1, <3>2, <3>5
  <2>2. received = 1 .. Blocks
    <3>1. received \subseteq 0 .. Blocks
      BY DEF RingInv, TypeOK
    <3>2. received \subseteq 1 .. Blocks
      BY <3>1, RingAssumption
    <3>3. IsFiniteSet(1 .. Blocks) /\ Cardinality(1 .. Blocks) = Blocks
      BY FS_Interval, RingAssumption
    <3> QED BY <2>1, <3>2, <3>3, FS_Subset
  <2>3. Queued = {StopBlock}
    <3>1. head = baseData /\ countData > 0 /\ countData \in 0 .. Capacity /\ baseData \in 0 .. Capacity - 1
      BY DEF RingInv, Positions, TypeOK
    <3>2. 0 \in 0 .. countData - 1 /\ 0 \in 0 .. Capacity
      BY <3>1, RingAssumption
    <3>3. Slot(0) = head
      BY <3>1, <3>2, SlotIsPlace, RingAssumption DEF Place, RingInv
    <3>4. slots[Slot(0)] = StopBlock
      BY <3>3 DEF Ending
    <3>5. countData - 1 = 0
      BY <3>2, <3>4 DEF Ending
    <3>6. 0 .. countData - 1 = {0}
      BY <3>5
    <3> QED BY <3>4, <3>6 DEF Queued
  <2>4. written \subseteq 1 .. Blocks
    BY DEF RingInv, TypeOK
  <2> QED BY <2>2, <2>3, <2>4 DEF Contents, StopBlock
<1> QED BY <1>1, RingAlways, ContentsAlways, EndingAlways, PTL
=============================================================================
