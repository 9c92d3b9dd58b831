----------------------------- MODULE TsunamiRing ------------------------------
(***************************************************************************)
(* The Tsunami client's ring buffer and the two threads that share it: the *)
(* network thread (command_get) puts every new block into the ring, the    *)
(* disk thread (disk_thread) writes the blocks to the file.                *)
(*                                                                         *)
(* A region under the ring's mutex is one step; what lies between two such *)
(* regions - the copy of a datagram into its slot, the write to disk - is  *)
(* a step of its own.  Which datagrams arrive is left open: any block, any *)
(* number of times, in any order.                                          *)
(***************************************************************************)
EXTENDS Integers

CONSTANTS
  Blocks,    \* block_count
  Capacity,  \* MAX_BLOCKS_QUEUED
  Faults     \* what may fail: "recv", "disk", "control"

ASSUME RingAssumption ==
  /\ Blocks \in Nat \ {0}
  /\ Capacity \in Nat \ {0}
  /\ Faults \subseteq {"recv", "disk", "control"}

VARIABLES
  \* The network thread.
  net,         \* where it is: see TypeOK
  datagram,    \* local_datagram: its block number and type
  stopping,    \* has it left the receive loop
  next,        \* the slot ring_reserve has chosen
  received,    \* the bits of xfer->received
  blocksLeft,  \* blocks_left
  lossless,    \* the session's lossless parameter
  \* The disk thread.
  disk,        \* where it is: see TypeOK
  head,        \* the slot ring_peek has returned
  written,     \* blocks of the file that are on disk
  \* The ring.
  slots,       \* the block number in each slot
  baseData, countData, countReserved, dataReady, spaceReady

netVars  == <<datagram, stopping, next, received, blocksLeft, lossless>>
ringVars == <<slots, baseData, countData, countReserved, dataReady, spaceReady>>
vars     == <<net, netVars, disk, head, written, ringVars>>

StopBlock == 0
-----------------------------------------------------------------------------
\* calloc clears the local datagram: its block number is 0 before the first
\* one arrives.
Init ==
  /\ net = "receive" /\ datagram = [block |-> 0, type |-> "none"] /\ stopping = FALSE
  /\ next = 0 /\ received = {} /\ blocksLeft = Blocks /\ lossless \in {0, 1}
  /\ disk = "peek" /\ head = 0 /\ written = {}
  /\ slots = [s \in 0 .. Capacity - 1 |-> 0]
  /\ baseData = 0 /\ countData = 0 /\ countReserved = 0
  /\ dataReady = 0 /\ spaceReady = 1

RingExists == net \notin {"done", "aborted"}

GotBlock(b) == b > Blocks \/ b \in received

\* The last block has the type TERMINATE, unless it is a retransmission.
Datagrams ==
  [block : 1 .. Blocks, type : {"data"}] \cup {[block |-> Blocks, type |-> "terminate"]}
-----------------------------------------------------------------------------
(* The network thread. *)

\* While the ring is full, every datagram is dropped.
RingFullNever == FALSE
RingFull == spaceReady = 0

\* The last datagram ends the loop when no block is missing; in lossy mode also
\* when none is being requested again.
MayLeaveEarly(d, left) == d.type = "terminate"
MayLeave(d, left) == d.type = "terminate" /\ (left = 0 \/ lossless = 0)
MayStay(d, left)  == ~(d.type = "terminate" /\ left = 0)

\* One datagram.  A failed recvfrom leaves the one before in the buffer, which
\* is treated as if it had arrived once more.
Receive ==
  /\ net = "receive"
  /\ datagram' \in Datagrams \cup (IF "recv" \in Faults THEN {datagram} ELSE {})
  /\ \/ RingFull /\ net' = "receive"
     \/ ~RingFull /\ ~GotBlock(datagram'.block) /\ net' = "reserve"
     \/ /\ ~RingFull /\ GotBlock(datagram'.block)
        /\ \/ MayStay(datagram', blocksLeft) /\ net' = "receive"
           \/ MayLeave(datagram', blocksLeft) /\ net' = "stop"
  /\ UNCHANGED <<stopping, next, received, blocksLeft, lossless, disk, head, written, ringVars>>

\* The slot n places after the first one with data.
Slot(n) == (baseData + n) % Capacity

\* ring_reserve chooses the slot before it waits for space.
FreeSlotNoBase == (countData + countReserved) % Capacity
FreeSlot == Slot(countData + countReserved)

WaitForSpace ==
  /\ net \in {"reserve", "woken"} /\ spaceReady = 0
  /\ net' = "asleep"
  /\ next' = IF net = "reserve" THEN FreeSlot ELSE next
  /\ UNCHANGED <<datagram, stopping, received, blocksLeft, lossless, disk, head, written, ringVars>>

LastSlotMissed(n) == n = baseData /\ countData > 0
LastSlotTaken(n) == (n + 1) % Capacity = baseData

Reserve ==
  /\ net \in {"reserve", "woken"} /\ spaceReady = 1
  /\ net' = "fill"
  /\ next' = IF net = "reserve" THEN FreeSlot ELSE next
  /\ countReserved' = countReserved + 1
  /\ spaceReady' = IF LastSlotTaken(next') THEN 0 ELSE spaceReady
  /\ UNCHANGED <<datagram, stopping, received, blocksLeft, lossless, disk, head, written,
                 slots, baseData, countData, dataReady>>

\* The datagram is copied into its slot; the stop block is made there.
Fill ==
  /\ net = "fill"
  /\ net' = "confirm"
  /\ slots' = [slots EXCEPT ![next] = IF stopping THEN StopBlock ELSE datagram.block]
  /\ UNCHANGED <<netVars, disk, head, written, baseData, countData, countReserved, dataReady, spaceReady>>

\* pthread_cond_signal wakes the thread that waits on the condition, if any.
WakeNobody(thread) == thread
Wake(thread) == IF thread = "asleep" THEN "woken" ELSE thread

Confirm ==
  /\ net = "confirm"
  /\ countData' = countData + 1 /\ countReserved' = countReserved - 1
  /\ dataReady' = 1 /\ disk' = Wake(disk)
  /\ \/ /\ stopping /\ net' = "join"
        /\ UNCHANGED <<received, blocksLeft>>
     \/ /\ ~stopping
        /\ received' = received \cup {datagram.block}
        /\ blocksLeft' = IF blocksLeft > 0 THEN blocksLeft - 1 ELSE blocksLeft
        /\ \/ MayStay(datagram, blocksLeft') /\ net' = "receive"
           \/ MayLeave(datagram, blocksLeft') /\ net' = "stop"
  /\ UNCHANGED <<datagram, stopping, next, lossless, head, written, slots, baseData, spaceReady>>

\* The server is told to stop, then a stop block goes into the ring.
RequestStop ==
  /\ net = "stop"
  /\ net' = "reserve" /\ stopping' = TRUE
  /\ UNCHANGED <<datagram, next, received, blocksLeft, lossless, disk, head, written, ringVars>>

\* A request that cannot be sent ends command_get, which destroys the ring.
Abort ==
  /\ "control" \in Faults /\ net \in {"receive", "stop"}
  /\ net' = "aborted"
  /\ UNCHANGED <<netVars, disk, head, written, ringVars>>

Join ==
  /\ net = "join" /\ disk \in {"ended", "failed"}
  /\ net' = "done"
  /\ UNCHANGED <<netVars, disk, head, written, ringVars>>
-----------------------------------------------------------------------------
(* The disk thread. *)

WaitForData ==
  /\ RingExists /\ disk \in {"peek", "woken"} /\ dataReady = 0
  /\ disk' = "asleep"
  /\ UNCHANGED <<net, netVars, head, written, ringVars>>

Peek ==
  /\ RingExists /\ disk \in {"peek", "woken"} /\ dataReady = 1
  /\ disk' = "save" /\ head' = baseData
  /\ UNCHANGED <<net, netVars, written, ringVars>>

\* The block is read from its slot, outside the mutex, and written at its place
\* in the file; the stop block and a failed write end the thread, and leave the
\* slot as it is.
Save ==
  /\ RingExists /\ disk = "save"
  /\ \/ slots[head] = StopBlock /\ disk' = "ended" /\ UNCHANGED written
     \/ slots[head] # StopBlock /\ disk' = "pop" /\ written' = written \cup {slots[head]}
     \/ /\ slots[head] # StopBlock /\ "disk" \in Faults
        /\ disk' = "failed" /\ UNCHANGED written
  /\ UNCHANGED <<net, netVars, head, ringVars>>

\* There is data, as the thread has just peeked at it.
Pop ==
  /\ RingExists /\ disk = "pop" /\ dataReady = 1
  /\ disk' = "peek"
  /\ baseData' = (baseData + 1) % Capacity
  /\ countData' = countData - 1
  /\ dataReady' = IF countData' = 0 THEN 0 ELSE dataReady
  /\ spaceReady' = 1 /\ net' = Wake(net)
  /\ UNCHANGED <<netVars, head, written, slots, countReserved>>

\* After an abort the thread still uses the ring that is no more.
Stray ==
  /\ net = "aborted" /\ disk \notin {"ended", "failed", "stray"}
  /\ disk' = "stray"
  /\ UNCHANGED <<net, netVars, head, written, ringVars>>

\* pthread_cond_wait may return without a signal.
SpuriousWakeup ==
  /\ \/ net = "asleep" /\ net' = "woken" /\ UNCHANGED disk
     \/ disk = "asleep" /\ RingExists /\ disk' = "woken" /\ UNCHANGED net
  /\ UNCHANGED <<netVars, head, written, ringVars>>
-----------------------------------------------------------------------------
Network == WaitForSpace \/ Reserve \/ Fill \/ Confirm \/ RequestStop \/ Join
DiskThread == WaitForData \/ Peek \/ Save \/ Pop

Next == Network \/ Receive \/ Abort \/ DiskThread \/ Stray \/ SpuriousWakeup

Spec == Init /\ [][Next]_vars

\* Both threads run on, and the server sends a missing block, and the last one,
\* until it is taken.
Arrives(b, type) == Receive /\ datagram' = [block |-> b, type |-> type] /\ ~RingFull

FairSpec ==
  /\ Spec
  /\ WF_vars(Network) /\ WF_vars(DiskThread)
  /\ \A b \in 1 .. Blocks : SF_vars(Arrives(b, "data"))
  /\ SF_vars(Arrives(Blocks, "terminate"))
-----------------------------------------------------------------------------
(* Properties. *)

TypeOK ==
  /\ net \in {"receive", "reserve", "asleep", "woken", "fill", "confirm",
              "stop", "join", "done", "aborted"}
  /\ datagram \in [block : 0 .. Blocks, type : {"none", "data", "terminate"}]
  /\ stopping \in BOOLEAN /\ lossless \in {0, 1}
  /\ next \in 0 .. Capacity - 1
  /\ received \subseteq 0 .. Blocks /\ blocksLeft \in 0 .. Blocks
  /\ disk \in {"peek", "asleep", "woken", "save", "pop", "ended", "failed", "stray"}
  /\ head \in 0 .. Capacity - 1 /\ written \subseteq 1 .. Blocks
  /\ slots \in [0 .. Capacity - 1 -> 0 .. Blocks]
  /\ baseData \in 0 .. Capacity - 1
  /\ countData \in 0 .. Capacity /\ countReserved \in 0 .. 1
  /\ dataReady \in {0, 1} /\ spaceReady \in {0, 1}

\* The blocks waiting in the ring, in the order they will be written.
Queue == [i \in 1 .. countData |-> slots[Slot(i - 1)]]

Ring == INSTANCE BoundedQueue WITH Item <- 0 .. Blocks, queue <- Queue

\* The ring is a queue: whatever the order of the threads' steps, blocks come
\* out once each, as they went in, and never more than Capacity are held.
KeepsOrder == Ring!Spec

\* Every block marked as received is on disk or still in the ring; the network
\* thread may therefore refuse to take it again.
ReceivedIsKept ==
  received \subseteq written \cup {slots[Slot(i)] : i \in 0 .. countData - 1}

\* The disk thread reads its slot without the mutex: nobody writes to the slot
\* in the meantime.
HeldSlotIsStable == [][disk = "save" => slots'[head] = slots[head]]_vars

\* "don't let disk-I/O freeze stop feedback": the network thread never waits for
\* space while it is in its loop, although it gives up the mutex between asking
\* whether the ring is full and reserving a slot.
FeedbackGoesOn == net = "asleep" => stopping

\* A lossless transfer that ends, with no fault on its way, has the whole file
\* on disk, the blocks included that were in the ring when the loop ended.
EndsWhole ==
  net = "done" /\ lossless = 1 /\ disk = "ended" /\ 0 \notin received => written = 1 .. Blocks

\* Both threads end, unless the disk thread gave up or the transfer was aborted;
\* no wakeup is lost.
Ends == <>(net = "done" \/ net = "aborted" \/ disk = "failed" \/ 0 \in received)
=============================================================================
