--------------------------------- MODULE Urft ---------------------------------
(***************************************************************************)
(* The stop-and-wait upload over UDP: UrftClient sends a file descriptor,  *)
(* the file piece by piece and a FIN; UrftServer appends the pieces to its *)
(* file and answers every packet.  Both wait one second for an answer and  *)
(* send their last packet again; the network loses, duplicates and         *)
(* reorders.                                                               *)
(*                                                                         *)
(* A packet is its start and end fields and its payload; a byte is its     *)
(* position in the client's file, counted from 1.                          *)
(***************************************************************************)
EXTENDS Integers

CONSTANTS
  Size,      \* filesize
  MaxSize,   \* MAX_SIZE: payload bytes of one packet
  IntMax,    \* Integer.MAX_VALUE: bookmark is an int
  FinTries,  \* how often the client sends its FIN: 20
  DiskFails  \* may writePayload fail

ASSUME UrftAssumption ==
  /\ Size \in Nat
  /\ MaxSize \in Nat \ {0}
  /\ IntMax \in Nat /\ MaxSize <= IntMax
  /\ FinTries \in Nat /\ FinTries > 1
  /\ DiskFails \in BOOLEAN

VARIABLES
  phase,     \* client: "fd", "data", "fin" or "done"
  bookmark,  \* client: position before the piece it is sending
  offset,    \* client: how far it has read its file
  lastSent,  \* client: the packet it repeats
  tries,     \* client: the counter of the FIN cycle
  sphase,    \* server: "fd", "data", "fin" or "done"
  stored,    \* server: size of its file
  disk,      \* server: the byte at each position of its file
  lastAck,   \* server: the packet it repeats
  toServer, toClient  \* packets in flight

clientVars == <<phase, bookmark, offset, lastSent, tries>>
serverVars == <<sphase, stored, disk, lastAck>>
vars == <<clientVars, serverVars, toServer, toClient>>
-----------------------------------------------------------------------------
(* Packets. *)

\* Java's int arithmetic, for results at most one wrap away.
ToInt(x) == IF x > IntMax THEN x - 2 * (IntMax + 1)
            ELSE IF x < -(IntMax + 1) THEN x + 2 * (IntMax + 1)
            ELSE x

NoData == [p \in 1 .. 0 |-> 0]

Packet(s, e, n, data) == [start |-> s, end |-> e, length |-> n, payload |-> data]
Ack(m) == Packet(m.start, m.end, 0, NoData)
Fin    == Packet(-1, -1, 0, NoData)

\* The descriptor's start is minus the length of its text, its end is 0.
Descriptor == Packet(-1, 0, 0, NoData)

\* The packet of the next piece: n bytes read at offset o, or none at the end
\* of the file, where read() returns -1.
Piece(b, o) ==
  LET n == IF o + MaxSize <= Size THEN MaxSize ELSE Size - o
      r == IF n = 0 THEN -1 ELSE n
  IN Packet(b, ToInt(b + r), n, [j \in 1 .. n |-> o + j])

-----------------------------------------------------------------------------
Init ==
  /\ phase = "fd" /\ bookmark = 0 /\ offset = 0 /\ lastSent = Descriptor /\ tries = 0
  /\ sphase = "fd" /\ stored = 0 /\ disk = NoData /\ lastAck = Fin
  /\ toServer = {Descriptor} /\ toClient = {}

\* The network hands over m, and may keep a copy to hand it over again.
FromClient(m) == m \in toServer /\ toServer' \in {toServer, toServer \ {m}}

\* A reply to the client: what it sends next is added to what is left.
Turn(m, next) ==
  /\ m \in toClient
  /\ toClient' \in {toClient, toClient \ {m}}
  /\ lastSent' = next
  /\ toServer' = toServer \cup {next}
-----------------------------------------------------------------------------
(* The client. *)

\* The traffic loop goes on with the next piece, or the FIN cycle begins;
\* e is lastReceived.end, b the bookmark.
SendingOneMore(e) == e <= Size
Sending(e) == e < Size

GoOn(m, e, b) ==
  \/ /\ Sending(e)
     /\ phase' = "data" /\ bookmark' = b
     /\ offset' = offset + Piece(b, offset).length
     /\ Turn(m, Piece(b, offset))
     /\ UNCHANGED tries
  \/ /\ ~Sending(e)
     /\ phase' = "fin" /\ bookmark' = b
     /\ tries' = 0
     /\ Turn(m, Fin)
     /\ UNCHANGED offset

\* Any packet ends the wait for the descriptor's answer; lastReceived.end is
\* still 0.
DescriptorAnswered(m) ==
  /\ phase = "fd"
  /\ GoOn(m, 0, bookmark)
  /\ UNCHANGED serverVars

AcceptedAny(m) == TRUE
Accepted(m) == m.end >= lastSent.end

\* The bookmark moves on unless the read had hit the end of the file.
PieceAnswered(m) ==
  /\ phase = "data" /\ Accepted(m)
  /\ GoOn(m, m.end,
          IF bookmark < Size /\ lastSent.length > 0
            THEN ToInt(bookmark + lastSent.length) ELSE bookmark)
  /\ UNCHANGED serverVars

\* A late answer to an earlier packet makes the client repeat its last one.
LateAnswer(m) ==
  /\ phase = "data" /\ ~Accepted(m)
  /\ Turn(m, lastSent)
  /\ UNCHANGED <<phase, bookmark, offset, tries, serverVars>>

\* In the FIN cycle, a packet that is no FIN sets the counter back, and the
\* loop then counts it up.
FinAnswered(m) ==
  /\ phase = "fin"
  /\ \/ /\ m.end # -1
        /\ tries' = 1
        /\ Turn(m, Fin)
        /\ UNCHANGED phase
     \/ /\ m.end = -1
        /\ m \in toClient /\ toClient' = toClient \ {m}
        /\ phase' = "done"
        /\ UNCHANGED <<tries, lastSent, toServer>>
  /\ UNCHANGED <<bookmark, offset, serverVars>>

LastTryOneMore == tries = FinTries
LastTry == tries + 1 = FinTries

\* One second without an answer.
ClientTimeout ==
  /\ \/ phase \in {"fd", "data"} /\ toServer' = toServer \cup {lastSent}
        /\ UNCHANGED <<phase, tries>>
     \/ /\ phase = "fin" /\ tries' = tries + 1
        /\ \/ LastTry /\ phase' = "done" /\ UNCHANGED toServer
           \/ ~LastTry /\ toServer' = toServer \cup {lastSent} /\ UNCHANGED phase
  /\ UNCHANGED <<bookmark, offset, lastSent, toClient, serverVars>>
-----------------------------------------------------------------------------
(* The server. *)

Reply(m) == lastAck' = m /\ toClient' = toClient \cup {m}

\* The first packet names the file: it is created, empty.
Open(m) ==
  /\ sphase = "fd" /\ FromClient(m)
  /\ sphase' = "data" /\ stored' = 0 /\ disk' = NoData
  /\ Reply(Ack(m))
  /\ UNCHANGED clientVars

FreshAny(m) == m.end > 0 /\ m.length > 0
Fresh(m) == m.end > 0 /\ m.end > stored /\ m.length > 0

\* The payload, all of it unless the disk fails, is appended; the answer does
\* not depend on that.
Receive(m) ==
  /\ sphase = "data" /\ FromClient(m) /\ m.end # -1
  /\ \E n \in 0 .. m.length :
       /\ n = m.length \/ DiskFails
       /\ IF Fresh(m)
            THEN /\ stored' = stored + n
                 /\ disk' = [p \in 1 .. stored + n |->
                               IF p <= stored THEN disk[p] ELSE m.payload[p - stored]]
            ELSE UNCHANGED <<stored, disk>>
  /\ Reply(Ack(m))
  /\ UNCHANGED <<sphase, clientVars>>

\* A FIN ends the traffic loop; in the FIN cycle every packet is answered with
\* a FIN.
ReceiveFin(m) ==
  /\ FromClient(m)
  /\ sphase = "fin" \/ (sphase = "data" /\ m.end = -1)
  /\ sphase' = "fin"
  /\ Reply(Fin)
  /\ UNCHANGED <<stored, disk, clientVars>>

\* One second without a packet: the answer is repeated, the FIN cycle ends.
ServerTimeout ==
  /\ \/ sphase = "data" /\ toClient' = toClient \cup {lastAck} /\ UNCHANGED sphase
     \/ sphase = "fin" /\ sphase' = "done" /\ UNCHANGED toClient
  /\ UNCHANGED <<stored, disk, lastAck, toServer, clientVars>>
-----------------------------------------------------------------------------
Lose ==
  /\ \/ \E m \in toServer : toServer' = toServer \ {m} /\ UNCHANGED toClient
     \/ \E m \in toClient : toClient' = toClient \ {m} /\ UNCHANGED toServer
  /\ UNCHANGED <<clientVars, serverVars>>

ClientReceives(m) ==
  DescriptorAnswered(m) \/ PieceAnswered(m) \/ LateAnswer(m) \/ FinAnswered(m)
ServerReceives(m) == Open(m) \/ Receive(m) \/ ReceiveFin(m)

Next ==
  \/ ClientTimeout \/ ServerTimeout \/ Lose
  \/ \E m \in toClient : ClientReceives(m)
  \/ \E m \in toServer : ServerReceives(m)

Spec == Init /\ [][Next]_vars

\* The server receives what the client is repeating; the client receives an
\* answer it waits for, and in the end the last copy of every late one.
ServerHears == \E m \in toServer : m = lastSent /\ ServerReceives(m)
ClientHears == \E m \in toClient :
  DescriptorAnswered(m) \/ PieceAnswered(m) \/ (FinAnswered(m) /\ m.end = -1)
LateOnesEnd == \E m \in toClient : FinAnswered(m) /\ m \notin toClient'

\* The clocks run, and a packet sent again and again is received at last.
FairSpec ==
  /\ Spec
  /\ WF_vars(ClientTimeout) /\ WF_vars(ServerTimeout)
  /\ SF_vars(ServerHears) /\ SF_vars(ClientHears) /\ SF_vars(LateOnesEnd)
-----------------------------------------------------------------------------
(* Properties. *)

WellFormed(m) ==
  /\ m.start \in Int /\ m.end \in Int /\ m.length \in Nat
  /\ m.payload \in [1 .. m.length -> Nat]

TypeOK ==
  /\ phase \in {"fd", "data", "fin", "done"}
  /\ sphase \in {"fd", "data", "fin", "done"}
  /\ bookmark \in Int /\ offset \in 0 .. Size /\ tries \in 0 .. FinTries
  /\ stored \in Nat /\ disk \in [1 .. stored -> Nat]
  /\ \A m \in toServer \cup toClient \cup {lastSent, lastAck} : WellFormed(m)

\* Appending is right although pieces arrive twice, late and out of order: the
\* server's file is always a beginning of the client's.
InOrder == stored <= Size /\ \A p \in 1 .. stored : disk[p] = p

\* The client never counts a piece as delivered that the server has not stored.
ConfirmedIsStored == bookmark <= stored

\* When the client turns to its FIN cycle, the server has the whole file.
FinMeansWhole == phase \in {"fin", "done"} => stored = Size

Promise == INSTANCE Upload WITH confirmed <- bookmark, over <- phase \in {"fin", "done"}

\* The protocol keeps the promise of an upload.
KeepsPromise == Promise!Spec

\* The client ends, and the server too if its FIN reached the client in time;
\* the server that never hears a FIN waits for ever.
Ends == <>[](phase = "done" /\ (tries < FinTries => sphase = "done"))
=============================================================================
