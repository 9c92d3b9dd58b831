--------------------------- MODULE TsunamiTransfer ----------------------------
(***************************************************************************)
(* One file transfer of the Tsunami protocol.  The server blasts numbered  *)
(* blocks over UDP; the client (command_get) finds the gaps and asks for   *)
(* them over TCP, and when it asks for too much it sends the server back   *)
(* to an earlier block instead.                                            *)
(*                                                                         *)
(* Datagrams are lost, duplicated and reordered; requests arrive late but  *)
(* in order.  The ring buffer behind the client is TsunamiRing; here it is *)
(* full or not, as it likes.  Error-rate reports only change how fast the  *)
(* server sends and are left out, as are failures of the sockets.          *)
(***************************************************************************)
EXTENDS Integers, Sequences, FiniteSets

CONSTANTS
  Blocks,             \* block_count
  MaxRetransmission,  \* MAX_RETRANSMISSION_BUFFER: so many requests are too many
  MaxTable,           \* the table of requests never grows beyond this
  OnWire,             \* on_wire_estimate
  Window,             \* bound: most blocks the time window of losswindow_ms holds
  MaxRequests         \* bound: with that many unread requests the client waits,
                      \* and the server reads one before it sends on

ASSUME TransferAssumption ==
  /\ Blocks \in Nat \ {0}
  /\ MaxRetransmission \in Nat \ {0}
  /\ MaxTable \in Nat \ {0}
  /\ OnWire \in 0 .. Blocks
  /\ Window \in Nat
  /\ MaxRequests \in Nat \ {0}

VARIABLES
  mode,      \* lossless; lossy (no window); or lossy within a time window
  client,    \* "get": in the receive loop; "stopped": has asked for the end
  received,  \* the bits of xfer->received
  rx,        \* the client's requests: see TypeOK
  ctl,       \* requests on their way to the server
  wire,      \* datagrams on their way to the client
  server,    \* "sending"; "stopped" when asked to; "gone" without a heartbeat
  block      \* xfer->block: the block the server sent last

vars == <<mode, client, received, rx, ctl, wire, server, block>>

Lower(a, b) == IF a < b THEN a ELSE b

Original       == "O"
Terminate      == "X"
Retransmission == "R"
Datagram == [block : 1 .. Blocks - 1, type : {Original, Retransmission}]
              \cup [block : {Blocks}, type : {Terminate}]
Request  == [type : {"retransmit", "restart", "stop"}, block : 0 .. Blocks]

Init ==
  /\ mode \in {"lossless", "lossy", "window"}
  /\ client = "get" /\ received = {}
  /\ rx = [table |-> <<>>, next |-> 1, gapless |-> 0,
           pending |-> FALSE, lastidx |-> 0, wireclear |-> 0, forgotten |-> {}]
  /\ ctl = <<>> /\ wire = {}
  /\ server = "sending" /\ block = 0
-----------------------------------------------------------------------------
(* The server's loop. *)

\* No request is there yet: the next block, and at the end the last one again.
Transmit ==
  /\ server = "sending" /\ Len(ctl) < MaxRequests
  /\ block' = Lower(block + 1, Blocks)
  /\ wire' = wire \cup {[block |-> block',
                         type |-> IF block' = Blocks THEN Terminate ELSE Original]}
  /\ UNCHANGED <<mode, client, received, rx, ctl, server>>

\* A restart sets the block sent last, so the next one sent is its successor.
Serve ==
  /\ server = "sending" /\ ctl # <<>>
  /\ ctl' = Tail(ctl)
  /\ LET request == Head(ctl)
     IN \/ /\ request.type = "stop" /\ server' = "stopped"
           /\ UNCHANGED <<wire, block>>
        \/ /\ request.type = "restart"
           /\ block' = IF request.block = 0 THEN block ELSE request.block
           /\ UNCHANGED <<wire, server>>
        \/ /\ request.type = "retransmit"
           /\ wire' = wire \cup {[block |-> request.block, type |-> Retransmission]}
           /\ UNCHANGED <<block, server>>
  /\ UNCHANGED <<mode, client, received, rx>>

\* hb_timeout has passed since the last request the server read.
HeartbeatLost ==
  /\ server = "sending"
  /\ server' = "gone"
  /\ UNCHANGED <<mode, client, received, rx, ctl, wire, block>>

Lose(d) ==
  /\ d \in wire
  /\ wire' = wire \ {d}
  /\ UNCHANGED <<mode, client, received, rx, ctl, server, block>>
-----------------------------------------------------------------------------
(* The client's requests: operators from one value of rx to the next, where *)
(* got is what has been received.                                          *)

Room(r) == MaxTable - Len(r.table)

\* The entries of s, in order, but for those in drop.
Compacted(s, drop) ==
  LET kept[i \in 0 .. Len(s)] ==
        IF i = 0 THEN <<>>
        ELSE IF s[i] \in drop THEN kept[i - 1] ELSE Append(kept[i - 1], s[i])
  IN kept[Len(s)]

MissingBlocks(got, from, to) ==
  Compacted([i \in 1 .. (IF from <= to THEN to - from + 1 ELSE 0) |-> from + i - 1], got)

\* ttp_request_retransmit for each block of a range.  At the table's limit a
\* request is dropped silently; forgotten only records that.
Requested(r, got, from, to) ==
  LET new  == MissingBlocks(got, from, to)
      kept == Lower(Len(new), Room(r))
  IN [r EXCEPT !.table = @ \o SubSeq(new, 1, kept),
               !.forgotten = @ \cup {new[i] : i \in kept + 1 .. Len(new)}]

Outstanding(r, got) == Compacted(r.table, got \cup {0})
TooMany(r, got) == Len(Outstanding(r, got)) >= MaxRetransmission

RestartAtNext(r) == Lower(Blocks, r.next)
RestartAt(r) == Lower(Blocks, r.gapless + 1)

\* ttp_repeat_retransmit: what it leaves behind, and what it sends.
Repeated(r, got) ==
  IF ~TooMany(r, got)
    THEN [r EXCEPT !.table = Outstanding(r, got)]
    ELSE LET last == r.table[Len(r.table)]
         IN [r EXCEPT !.table = <<>>, !.next = RestartAt(r), !.pending = TRUE,
                      !.lastidx = last, !.wireclear = Lower(Blocks, last + OnWire),
                      !.forgotten = {}]

Sent(r, got) ==
  IF TooMany(r, got)
    THEN << [type |-> "restart", block |-> RestartAt(r)] >>
    ELSE LET wanted == Outstanding(r, got)
         IN [i \in 1 .. Len(wanted) |-> [type |-> "retransmit", block |-> wanted[i]]]

\* The first block asked for again in window mode: what fits into the window at
\* the measured rate, but nothing up to gapless - unless gapless is ahead of the
\* block, when the difference wraps around.
Earliest(r, d) ==
  {e \in 0 .. d.block : d.block - e <= Window /\ (r.gapless <= d.block => r.gapless <= e)}

\* The requests for a gap before datagram d: the possible values of rx.
GapQueued(r, d, got) ==
  IF d.block <= r.next
    THEN {r}
    ELSE CASE mode = "lossless" -> {Requested(r, got, r.next, d.block - 1)}
           [] mode = "lossy"    -> {[r EXCEPT !.gapless = d.block]}
           [] mode = "window"   -> {[Requested(r, got, e, d.block - 1)
                                       EXCEPT !.next = e, !.gapless = e] : e \in Earliest(r, d)}

GaplessShifted(g, got) ==
  CHOOSE h \in g .. Blocks : g + 2 .. h + 1 \subseteq got /\ (h = Blocks \/ h + 2 \notin got)

\* The end of the run of received blocks that follows g.
GaplessFrom(g, got) ==
  CHOOSE h \in g .. Blocks : g + 1 .. h \subseteq got /\ (h = Blocks \/ h + 1 \notin got)

\* (mutant) the last block moves next on as an original does.
AdvancedPast(r, d, got) ==
  [r EXCEPT !.gapless = GaplessFrom(r.gapless, got),
            !.next = d.block + 1,
            !.pending = @ /\ d.block + 1 < r.lastidx]

Advanced(r, d, got) ==
  LET next == IF d.type = Original THEN d.block + 1 ELSE r.next
  IN [r EXCEPT !.gapless = GaplessFrom(r.gapless, got),
               !.next = next,
               !.pending = @ /\ next < r.lastidx]
-----------------------------------------------------------------------------
(* The client's receive loop. *)

\* send_stats: now and then the requests are repeated.
SendStats(r, got, sent) ==
  \/ rx' = r /\ ctl' = ctl \o sent
  \/ rx' = Repeated(r, got) /\ ctl' = ctl \o sent \o Sent(r, got)

\* A datagram read from the socket; the network may deliver it once more.
Read(d) ==
  /\ client = "get" /\ Len(ctl) < MaxRequests
  /\ d \in wire /\ wire' \in {wire, wire \ {d}}
  /\ UNCHANGED <<mode, server, block>>

\* The ring is full, or the block is of no use.
Ignore(d) ==
  /\ Read(d)
  /\ SendStats(rx, received, <<>>)
  /\ UNCHANGED <<client, received>>

Useful(d) == d.block \notin received \/ d.type = Terminate \/ rx.pending

StillOnWireAll(d) == rx.pending /\ d.block > rx.lastidx /\ d.block <= rx.wireclear

\* "avoid re-triggering on blocks still down the wire before server reacts"
StillOnWire(d) ==
  rx.pending /\ d.type # Terminate /\ d.block > rx.lastidx /\ d.block <= rx.wireclear

LeavesOneShort(r, got) == Cardinality(got) >= Blocks - 1
Leaves(r, got) ==
  Cardinality(got) = Blocks \/ (mode # "lossless" /\ r.table = <<>> /\ ~r.pending)

\* The last block: the transfer is over, or all that is missing is asked for.
AtEnd(r, got) ==
  \/ /\ Leaves(r, got)
     /\ client' = "stopped" /\ rx' = r
     /\ ctl' = Append(ctl, [type |-> "stop", block |-> 0])
  \/ /\ ~Leaves(r, got) /\ UNCHANGED client
     /\ LET asked == Requested(r, got, r.gapless + 1, Blocks - 1)
        IN SendStats(Repeated(asked, got), got, Sent(asked, got))

Handle(d) ==
  /\ Read(d) /\ Useful(d)
  /\ received' = received \cup {d.block}
  /\ \/ /\ StillOnWire(d)
        /\ SendStats(rx, received', <<>>) /\ UNCHANGED client
     \/ /\ ~StillOnWire(d)
        /\ \E queued \in GapQueued(rx, d, received') :
             LET r == Advanced(queued, d, received')
             IN \/ d.type # Terminate /\ SendStats(r, received', <<>>) /\ UNCHANGED client
                \/ d.type = Terminate /\ AtEnd(r, received')
-----------------------------------------------------------------------------
Next ==
  \/ Transmit \/ Serve \/ HeartbeatLost
  \/ \E d \in wire : Lose(d) \/ Ignore(d) \/ Handle(d)

Spec == Init /\ [][Next]_vars

Arrives(b) == \E d \in wire : d.block = b /\ Handle(d)

\* The server's loop goes on, requests arrive, the disk thread empties the ring,
\* and a block that is sent again and again arrives in the end.
FairSpec ==
  /\ Spec
  /\ SF_vars(Transmit) /\ WF_vars(Serve)
  /\ \A b \in 1 .. Blocks : SF_vars(Arrives(b))
-----------------------------------------------------------------------------
(* Properties. *)

TypeOK ==
  /\ mode \in {"lossless", "lossy", "window"}
  /\ client \in {"get", "stopped"}
  /\ received \subseteq 1 .. Blocks
  /\ rx \in [table : Seq(0 .. Blocks - 1), next : 0 .. Blocks, gapless : 0 .. Blocks,
             pending : BOOLEAN, lastidx : 0 .. Blocks - 1, wireclear : 0 .. Blocks,
             forgotten : SUBSET (0 .. Blocks - 1)]
  /\ Len(rx.table) <= MaxTable
  /\ ctl \in Seq(Request) /\ wire \subseteq Datagram
  /\ server \in {"sending", "stopped", "gone"}
  /\ block \in 0 .. Blocks

\* Lossless mode: gapless_to_block, from which a restart goes on and from which
\* the end block's requests start, has no missing block below it.
GaplessIsWhole == mode = "lossless" => 1 .. rx.gapless \subseteq received

\* Lossless mode: a missing block the client has passed is on the list, through
\* every repetition, restart and reordering; only the table's limit loses it.
MissingIsRequested ==
  mode = "lossless" =>
    1 .. rx.next - 1 \subseteq
      received \cup {rx.table[i] : i \in DOMAIN rx.table} \cup rx.forgotten

Promise == INSTANCE FileTransfer WITH
  lossless <- mode = "lossless", have <- received, over <- client = "stopped"

\* A lossless transfer never ends with a block missing, and takes none later.
KeepsPromise == Promise!Spec

RestartUnderWay == \E i \in DOMAIN ctl : ctl[i].type = "restart"

\* Whatever is lost, duplicated or reordered, the transfer ends on both sides,
\* unless the server gives up or the client asks for restarts for ever: a gap
\* that a restart leaves behind and that is as large as the limit of requests
\* brings about the same restart again, which never sends the first block of it.
Ends ==
  []<>RestartUnderWay \/ <>(server = "gone" \/ (client = "stopped" /\ server = "stopped"))
=============================================================================
