------------------------------ MODULE UrftProofs ------------------------------
(***************************************************************************)
(* Theorems about the stop-and-wait upload: types for every file and disk; *)
(* and for a file that an int can count and a disk that does not fail, the *)
(* order of the stored pieces, what an answer proves to the client, and    *)
(* that the protocol implements the abstract upload.                       *)
(***************************************************************************)
EXTENDS Urft, TLAPS

Sound == Size <= IntMax /\ ~DiskFails

\* The packets the client sends: one without data, or a piece of its file.
Sent(m) ==
  \/ m.start = -1 /\ m.end \in {-1, 0} /\ m.length = 0 /\ m.payload = NoData
  \/ m.start \in 0 .. Size - 1 /\ m = Piece(m.start, m.start)

\* A piece in flight is stored already, or it is the very next one.
Packeted ==
  /\ \A m \in toServer \cup {lastSent} :
       Sent(m) /\ (m.end <= stored \/ m.start = stored) /\ m.start <= bookmark
  /\ \A m \in toClient \cup {lastAck} : WellFormed(m) /\ m.end <= stored

\* Where the client is, and so what the server may have.
Progressed ==
  /\ phase = "fd" =>
       /\ bookmark = 0 /\ offset = 0 /\ stored = 0 /\ lastSent = Descriptor
       /\ toServer \subseteq {Descriptor}
  /\ phase = "data" =>
       /\ bookmark \in 0 .. Size - 1 /\ lastSent = Piece(bookmark, bookmark)
       /\ offset = lastSent.end /\ stored \in {bookmark, offset}
  /\ phase \in {"fin", "done"} => bookmark = Size /\ stored = Size
  /\ phase = "fin" => tries < FinTries
  /\ sphase = "fd" => phase = "fd" /\ toClient = {}

UrftInv == TypeOK /\ InOrder /\ Packeted /\ Progressed
-----------------------------------------------------------------------------
(* Packets. *)

\* An int that did not overflow is itself.
LEMMA ToIntFact ==
  ASSUME NEW x \in -1 .. IntMax PROVE ToInt(x) = x
  BY UrftAssumption DEF ToInt

\* Within the file, read() returns a piece that ends where the next one starts.
LEMMA PieceFacts ==
  ASSUME Sound, NEW b \in 0 .. Size - 1
  PROVE  /\ Piece(b, b).start = b /\ Piece(b, b).length \in Nat \ {0}
         /\ Piece(b, b).end = b + Piece(b, b).length
         /\ Piece(b, b).end \in b + 1 .. Size
         /\ Piece(b, b).payload = [j \in 1 .. Piece(b, b).length |-> b + j]
<1> DEFINE n == IF b + MaxSize <= Size THEN MaxSize ELSE Size - b
<1>1. n \in Nat \ {0} /\ b + n \in b + 1 .. Size
  BY UrftAssumption
<1>2. ToInt(b + n) = b + n
  <2>1. b + n \in -1 .. IntMax
    BY <1>1, UrftAssumption DEF Sound
  <2>2. QED
    BY <2>1, ToIntFact
<1>3. Piece(b, b) = Packet(b, b + n, n, [j \in 1 .. n |-> b + j])
  BY <1>1, <1>2 DEF Piece
<1>4. QED
  BY <1>1, <1>3 DEF Packet

LEMMA SentFacts ==
  ASSUME Sound, NEW m, Sent(m)
  PROVE  /\ WellFormed(m) /\ m.end \in -1 .. Size
         /\ \/ m.end \in {-1, 0} /\ m.length = 0
            \/ /\ m.start \in 0 .. Size - 1 /\ m.length \in Nat \ {0}
               /\ m.end = m.start + m.length
               /\ m.payload = [j \in 1 .. m.length |-> m.start + j]
<1>1. CASE m.start = -1 /\ m.end \in {-1, 0} /\ m.length = 0 /\ m.payload = NoData
  BY <1>1, UrftAssumption DEF WellFormed, NoData
<1>2. CASE m.start \in 0 .. Size - 1 /\ m = Piece(m.start, m.start)
  <2>1. /\ m.length \in Nat \ {0} /\ m.end = m.start + m.length
        /\ m.end \in m.start + 1 .. Size
        /\ m.payload = [j \in 1 .. m.length |-> m.start + j]
    BY <1>2, PieceFacts
  <2>2. QED
    BY <1>2, <2>1, UrftAssumption DEF WellFormed
<1>3. QED
  BY <1>1, <1>2 DEF Sent

LEMMA SentLength ==
  ASSUME Sound, NEW m, Sent(m), m.end > 0
  PROVE  m.length > 0
<1>1. PICK b \in 0 .. Size - 1 : m = Piece(b, b)
  BY DEF Sent
<1>2. Piece(b, b).length \in Nat \ {0}
  BY PieceFacts
<1>3. QED
  BY <1>1, <1>2

LEMMA EmptyPackets ==
  /\ Sent(Fin) /\ Sent(Descriptor) /\ Fin.end = -1 /\ Descriptor.end = 0
  /\ Fin.start = -1 /\ Descriptor.start = -1
  /\ WellFormed(Fin) /\ WellFormed(Descriptor)
  /\ \A m : WellFormed(m) => WellFormed(Ack(m)) /\ Ack(m).end = m.end
  BY DEF Sent, Fin, Descriptor, Packet, NoData, WellFormed, Ack
-----------------------------------------------------------------------------
LEMMA UrftInit == Sound /\ Init => UrftInv
<1> SUFFICES ASSUME Sound, Init PROVE UrftInv
  OBVIOUS
<1>1. stored = 0 /\ disk = NoData /\ toServer = {Descriptor} /\ toClient = {}
      /\ lastSent = Descriptor /\ lastAck = Fin /\ bookmark = 0
  BY DEF Init
<1>2. TypeOK
  BY <1>1, EmptyPackets, UrftAssumption DEF Init, TypeOK, NoData
<1>3. InOrder
  BY <1>1, UrftAssumption DEF InOrder
<1>4. Packeted
  BY <1>1, EmptyPackets DEF Packeted
<1>5. Progressed
  BY <1>1 DEF Init, Progressed
<1>6. QED
  BY <1>2, <1>3, <1>4, <1>5 DEF UrftInv

\* When the answers reach as far as the server's file and the client's reading,
\* going on sends the next piece, or the file is whole.
LEMMA GoOnStep ==
  ASSUME Sound, UrftInv, NEW m, NEW e \in 0 .. Size, GoOn(m, e, e), UNCHANGED serverVars,
         offset = e, stored = e, bookmark <= e, sphase # "fd"
  PROVE  UrftInv'
<1>1. /\ UNCHANGED <<sphase, stored, disk, lastAck>> /\ toClient' \subseteq toClient
      /\ toServer' = toServer \cup {lastSent'} /\ bookmark' = e
  BY DEF GoOn, Turn, serverVars
<1>2. bookmark \in Int /\ e \in Int /\ UNCHANGED disk /\ InOrder'
  BY <1>1 DEF UrftInv, TypeOK, InOrder
<1>3. CASE Sending(e)
  <2>1. e \in 0 .. Size - 1
    BY <1>3, UrftAssumption DEF Sending
  <2>2. /\ phase' = "data" /\ lastSent' = Piece(e, e) /\ tries' = tries
        /\ offset' = e + Piece(e, e).length
    BY <1>3 DEF GoOn, Turn
  <2>3. Sent(lastSent') /\ lastSent'.start = e /\ offset' = lastSent'.end /\ offset' \in 0 .. Size
    <3>1. /\ Piece(e, e).start = e /\ Piece(e, e).end = e + Piece(e, e).length
          /\ Piece(e, e).end \in e + 1 .. Size
      BY <2>1, PieceFacts
    <3>2. Sent(Piece(e, e))
      BY <2>1, <3>1 DEF Sent
    <3>3. QED
      BY <2>1, <2>2, <3>1, <3>2
  <2>4. Packeted'
    <3>1. ASSUME NEW q \in toServer
          PROVE  Sent(q) /\ (q.end <= stored \/ q.start = stored) /\ q.start <= e
      <4>1. Sent(q) /\ (q.end <= stored \/ q.start = stored) /\ q.start <= bookmark
        BY DEF UrftInv, Packeted
      <4>2. q.start \in Int
        BY <4>1, SentFacts DEF WellFormed
      <4>3. QED
        BY <1>2, <4>1, <4>2
    <3>2. QED
      BY <1>1, <2>3, <3>1 DEF UrftInv, Packeted
  <2>5. TypeOK'
    <3>1. \A q \in toServer' \cup {lastSent'} : WellFormed(q)
      BY <1>1, <2>3, SentFacts DEF UrftInv, Packeted
    <3>2. QED
      BY <1>1, <2>2, <2>3, <3>1 DEF UrftInv, TypeOK
  <2>6. Progressed'
    BY <1>1, <2>1, <2>2, <2>3 DEF Progressed
  <2>7. QED
    BY <1>2, <2>4, <2>5, <2>6 DEF UrftInv
<1>4. CASE ~Sending(e)
  <2>1. e = Size
    BY <1>4, UrftAssumption DEF Sending
  <2>2. phase' = "fin" /\ lastSent' = Fin /\ tries' = 0 /\ offset' = offset
    BY <1>4 DEF GoOn, Turn
  <2>3. Packeted'
    <3>1. ASSUME NEW q \in toServer
          PROVE  Sent(q) /\ (q.end <= stored \/ q.start = stored) /\ q.start <= e
      <4>1. Sent(q) /\ (q.end <= stored \/ q.start = stored) /\ q.start <= bookmark
        BY DEF UrftInv, Packeted
      <4>2. q.start \in Int
        BY <4>1, SentFacts DEF WellFormed
      <4>3. QED
        BY <1>2, <4>1, <4>2
    <3>2. Sent(Fin) /\ Fin.end <= stored /\ Fin.start <= e
      BY EmptyPackets
    <3>3. QED
      BY <1>1, <2>2, <3>1, <3>2 DEF UrftInv, Packeted
  <2>4. TypeOK'
    BY <1>1, <2>2, EmptyPackets, UrftAssumption DEF UrftInv, TypeOK
  <2>5. Progressed'
    BY <1>1, <2>1, <2>2, UrftAssumption DEF Progressed
  <2>6. QED
    BY <1>2, <2>3, <2>4, <2>5 DEF UrftInv
<1>5. QED
  BY <1>3, <1>4

\* An accepted answer proves that the piece is stored.
LEMMA AnsweredStep ==
  ASSUME Sound, UrftInv, NEW m \in toClient, DescriptorAnswered(m) \/ PieceAnswered(m)
  PROVE  UrftInv'
<1>1. sphase # "fd" /\ m.end <= stored /\ m.end \in Int
  BY DEF UrftInv, Progressed, Packeted, WellFormed
<1>2. CASE DescriptorAnswered(m)
  <2>1. bookmark = 0 /\ offset = 0 /\ stored = 0 /\ GoOn(m, 0, 0) /\ UNCHANGED serverVars
    BY <1>2 DEF DescriptorAnswered, UrftInv, Progressed
  <2>2. 0 \in 0 .. Size
    BY UrftAssumption
  <2>3. QED
    BY <1>1, <2>1, <2>2, GoOnStep
<1>3. CASE PieceAnswered(m)
  <2>1. /\ bookmark \in 0 .. Size - 1 /\ lastSent = Piece(bookmark, bookmark)
        /\ offset = lastSent.end /\ stored \in {bookmark, offset}
    BY <1>3 DEF PieceAnswered, UrftInv, Progressed
  <2>2. /\ lastSent.length \in Nat \ {0} /\ lastSent.end = bookmark + lastSent.length
        /\ lastSent.end \in bookmark + 1 .. Size
    BY <2>1, PieceFacts
  <2>3. m.end >= lastSent.end
    BY <1>3 DEF PieceAnswered, Accepted
  <2>4. stored = offset /\ m.end = offset /\ offset \in 0 .. Size /\ bookmark <= offset
    BY <1>1, <2>1, <2>2, <2>3, UrftAssumption
  <2>5. ToInt(bookmark + lastSent.length) = offset
    <3>1. offset \in -1 .. IntMax
      BY <2>4, UrftAssumption DEF Sound
    <3>2. QED
      BY <2>1, <2>2, <3>1, ToIntFact
  <2>6. GoOn(m, offset, offset) /\ UNCHANGED serverVars
    <3>1. (IF bookmark < Size /\ lastSent.length > 0
             THEN ToInt(bookmark + lastSent.length) ELSE bookmark) = offset
      BY <2>1, <2>2, <2>5, UrftAssumption
    <3>2. QED
      BY <1>3, <2>4, <3>1 DEF PieceAnswered
  <2>7. QED
    BY <1>1, <2>4, <2>6, GoOnStep
<1>4. QED
  BY <1>2, <1>3

\* The steps that send again, lose, or end without new data.
LEMMA RepeatStep ==
  ASSUME Sound, UrftInv,
         ClientTimeout \/ ServerTimeout \/ Lose
           \/ \E m \in toClient : LateAnswer(m) \/ FinAnswered(m)
  PROVE  UrftInv'
<1>1. /\ UNCHANGED <<stored, disk, bookmark, offset, lastAck>>
      /\ lastSent' \in {lastSent, Fin}
      /\ toServer' \subseteq toServer \cup {lastSent'}
      /\ toClient' \subseteq toClient \cup {lastAck}
  BY DEF ClientTimeout, ServerTimeout, Lose, LateAnswer, FinAnswered, Turn, clientVars, serverVars
<1>2. Packeted'
  <2>1. bookmark \in Nat /\ stored \in Nat
    BY UrftAssumption DEF UrftInv, TypeOK, Progressed
  <2>2. Sent(Fin) /\ Fin.end <= stored /\ Fin.start <= bookmark
    BY <2>1, EmptyPackets
  <2>3. QED
    BY <1>1, <2>2 DEF UrftInv, Packeted
<1>3. TypeOK'
  <2>1. tries' \in 0 .. FinTries
    BY UrftAssumption DEF ClientTimeout, ServerTimeout, Lose, LateAnswer, FinAnswered, UrftInv,
       TypeOK, Progressed, LastTry, clientVars
  <2>2. phase' \in {"fd", "data", "fin", "done"} /\ sphase' \in {"fd", "data", "fin", "done"}
    BY DEF ClientTimeout, ServerTimeout, Lose, LateAnswer, FinAnswered, UrftInv,
       TypeOK, clientVars, serverVars
  <2>3. \A q \in toServer' \cup toClient' \cup {lastSent', lastAck'} : WellFormed(q)
    BY <1>1, EmptyPackets DEF UrftInv, TypeOK
  <2>4. QED
    BY <1>1, <2>1, <2>2, <2>3 DEF UrftInv, TypeOK
<1>4. Progressed'
  <2>0. phase' = "fin" => tries' < FinTries
    BY UrftAssumption DEF ClientTimeout, ServerTimeout, Lose, LateAnswer, FinAnswered, UrftInv,
       TypeOK, Progressed, LastTry, clientVars
  <2>1. CASE UNCHANGED <<phase, lastSent>> /\ UNCHANGED sphase
    <3>1. sphase = "fd" => toClient' = {}
      BY <2>1 DEF ClientTimeout, ServerTimeout, Lose, LateAnswer, FinAnswered, Turn, UrftInv,
         Progressed
    <3>2. QED
      BY <1>1, <2>0, <2>1, <3>1 DEF UrftInv, Progressed
  <2>2. CASE phase \in {"fin", "done"} /\ phase' \in {"fin", "done"} /\ UNCHANGED sphase
    BY <1>1, <2>0, <2>2 DEF UrftInv, Progressed
  <2>3. CASE UNCHANGED <<phase, lastSent>> /\ sphase' = "done"
    BY <1>1, <2>0, <2>3 DEF UrftInv, Progressed
  <2>4. QED
    BY <2>1, <2>2, <2>3 DEF ClientTimeout, ServerTimeout, Lose, LateAnswer, FinAnswered, Turn,
       clientVars, serverVars
<1>5. InOrder'
  BY <1>1 DEF UrftInv, InOrder
<1>6. QED
  BY <1>2, <1>3, <1>4, <1>5 DEF UrftInv
-----------------------------------------------------------------------------
(* The server. *)

LEMMA OpenStep ==
  ASSUME Sound, UrftInv, NEW m \in toServer, Open(m)
  PROVE  UrftInv'
<1>1. /\ phase = "fd" /\ bookmark = 0 /\ stored = 0 /\ m = Descriptor
      /\ toServer' \subseteq toServer /\ UNCHANGED clientVars
      /\ sphase' = "data" /\ stored' = 0 /\ disk' = NoData
      /\ lastAck' = Ack(m) /\ toClient' = toClient \cup {Ack(m)}
  BY DEF Open, FromClient, Reply, UrftInv, Progressed
<1>2. WellFormed(Ack(m)) /\ Ack(m).end = 0
  BY <1>1, EmptyPackets
<1>3. TypeOK'
  BY <1>1, <1>2 DEF UrftInv, TypeOK, clientVars, NoData
<1>4. InOrder'
  BY <1>1, UrftAssumption DEF InOrder
<1>5. Packeted'
  BY <1>1, <1>2 DEF UrftInv, Packeted, clientVars
<1>6. Progressed'
  BY <1>1 DEF UrftInv, Progressed, clientVars
<1>7. QED
  BY <1>3, <1>4, <1>5, <1>6 DEF UrftInv

\* A fresh piece is the next one, and it is the one the client is sending.
LEMMA FreshFacts ==
  ASSUME Sound, UrftInv, NEW m \in toServer, sphase = "data", Fresh(m)
  PROVE  /\ m.start = stored /\ m.length \in Nat \ {0} /\ stored \in Nat
         /\ m.end = stored + m.length /\ m.end <= Size
         /\ m.payload = [j \in 1 .. m.length |-> stored + j]
         /\ phase = "data" /\ stored = bookmark /\ m = lastSent
<1>1. /\ Sent(m) /\ m.start = stored /\ m.start <= bookmark /\ stored \in Nat
  BY DEF Fresh, UrftInv, TypeOK, Packeted, WellFormed
<1>2. /\ m.start \in 0 .. Size - 1 /\ m.length \in Nat \ {0}
      /\ m.end = m.start + m.length /\ m.end \in -1 .. Size
      /\ m.payload = [j \in 1 .. m.length |-> m.start + j]
      /\ m = Piece(m.start, m.start)
  BY <1>1, SentFacts DEF Fresh, Sent
<1>3. phase = "data"
  <2>1. phase # "fd"
    BY <1>2, EmptyPackets DEF UrftInv, Progressed
  <2>2. phase \notin {"fin", "done"}
    BY <1>1, <1>2, UrftAssumption DEF UrftInv, Progressed
  <2>3. QED
    BY <2>1, <2>2 DEF UrftInv, TypeOK
<1>4. bookmark \in 0 .. Size - 1 /\ lastSent = Piece(bookmark, bookmark) /\ stored \in {bookmark, lastSent.end}
  BY <1>3 DEF UrftInv, Progressed
<1>5. lastSent.end \in bookmark + 1 .. Size
  BY <1>4, PieceFacts
<1>6. stored = bookmark
  BY <1>1, <1>4, <1>5
<1>7. QED
  BY <1>1, <1>2, <1>3, <1>4, <1>6

LEMMA ReceiveStep ==
  ASSUME Sound, UrftInv, NEW m \in toServer, Receive(m)
  PROVE  UrftInv'
<1>1. /\ sphase = "data" /\ toServer' \subseteq toServer /\ UNCHANGED <<sphase, clientVars>>
      /\ lastAck' = Ack(m) /\ toClient' = toClient \cup {Ack(m)}
      /\ WellFormed(Ack(m)) /\ Ack(m).end = m.end
  BY EmptyPackets DEF Receive, FromClient, Reply, UrftInv, TypeOK
<1>2. /\ Sent(m) /\ (m.end <= stored \/ m.start = stored) /\ m.end \in -1 .. Size /\ m.length \in Nat
      /\ stored \in Nat
  BY SentFacts DEF UrftInv, Packeted, WellFormed, TypeOK
<1>3. CASE Fresh(m)
  <2>1. /\ m.start = stored /\ m.length \in Nat \ {0} /\ stored \in Nat
        /\ m.end = stored + m.length /\ m.end <= Size
        /\ m.payload = [j \in 1 .. m.length |-> stored + j]
        /\ phase = "data" /\ stored = bookmark /\ m = lastSent
    BY <1>1, <1>3, FreshFacts
  <2>2. /\ stored' = m.end
        /\ disk' = [p \in 1 .. m.end |-> IF p <= stored THEN disk[p] ELSE m.payload[p - stored]]
    BY <1>3, <2>1 DEF Receive, Sound
  <2>3. InOrder'
    <3>1. ASSUME NEW p \in 1 .. m.end PROVE disk'[p] = p
      <4>1. CASE p <= stored
        BY <2>1, <2>2, <4>1 DEF UrftInv, InOrder
      <4>2. CASE p > stored
        <5>1. p - stored \in 1 .. m.length
          BY <2>1, <4>2
        <5>2. QED
          BY <2>1, <2>2, <4>2, <5>1
      <4>3. QED
        BY <2>1, <4>1, <4>2
    <3>2. QED
      BY <2>1, <2>2, <3>1 DEF InOrder
  <2>4. Packeted'
    <3>1. ASSUME NEW q \in toServer \cup {lastSent}
          PROVE  Sent(q) /\ q.end <= stored' /\ q.start <= bookmark
      <4>0. Sent(q) /\ (q.end <= stored \/ q.start = stored) /\ q.start <= bookmark
        BY DEF UrftInv, Packeted
      <4>1. q.end \in Int
        BY <4>0, SentFacts DEF WellFormed
      <4>2. CASE q.end <= stored
        BY <2>1, <2>2, <4>0, <4>1, <4>2
      <4>3. CASE q.start = stored
        <5>1. q = Piece(stored, stored) /\ m = Piece(stored, stored)
          BY <1>2, <2>1, <4>0, <4>3 DEF Sent
        <5>2. QED
          BY <2>1, <2>2, <4>0, <5>1
      <4>4. QED
        BY <4>0, <4>2, <4>3
    <3>2. ASSUME NEW q \in toClient \cup {Ack(m)} PROVE WellFormed(q) /\ q.end <= stored'
      <4>1. CASE q = Ack(m)
        BY <1>1, <2>1, <2>2, <4>1
      <4>2. CASE q \in toClient
        <5>1. WellFormed(q) /\ q.end <= stored /\ q.end \in Int
          BY <4>2 DEF UrftInv, Packeted, WellFormed
        <5>2. QED
          BY <2>1, <2>2, <5>1
      <4>3. QED
        BY <4>1, <4>2
    <3>3. QED
      BY <1>1, <3>1, <3>2 DEF Packeted, clientVars
  <2>5. TypeOK'
    <3>1. disk' \in [1 .. stored' -> Nat]
      <4>1. disk' = [p \in 1 .. stored' |-> disk'[p]]
        BY <2>2
      <4>2. ASSUME NEW p \in 1 .. stored' PROVE disk'[p] \in Nat
        <5>1. disk'[p] = p
          BY <2>3 DEF InOrder
        <5>2. stored' \in Nat
          BY <2>1, <2>2
        <5>3. QED
          BY <5>1, <5>2
      <4>3. QED
        BY <4>1, <4>2
    <3>2. QED
      BY <1>1, <2>1, <2>2, <3>1 DEF UrftInv, TypeOK, clientVars
  <2>6. Progressed'
    BY <1>1, <2>1, <2>2 DEF UrftInv, Progressed, clientVars
  <2>7. QED
    BY <2>3, <2>4, <2>5, <2>6 DEF UrftInv
<1>4. CASE ~Fresh(m)
  <2>1. UNCHANGED <<stored, disk>>
    BY <1>4 DEF Receive
  <2>2. m.end <= stored
    <3>1. m.end > 0 => m.length > 0
      BY <1>2, SentLength
    <3>2. QED
      BY <1>2, <1>4, <3>1 DEF Fresh
  <2>3. TypeOK' /\ InOrder' /\ Packeted' /\ Progressed'
    BY <1>1, <2>1, <2>2 DEF UrftInv, TypeOK, InOrder, Packeted, Progressed, clientVars
  <2>4. QED
    BY <2>3 DEF UrftInv
<1>5. QED
  BY <1>3, <1>4

LEMMA ReceiveFinStep ==
  ASSUME Sound, UrftInv, NEW m \in toServer, ReceiveFin(m)
  PROVE  UrftInv'
<1>1. /\ sphase \in {"data", "fin"} /\ sphase' = "fin" /\ toServer' \subseteq toServer
      /\ UNCHANGED <<stored, disk, clientVars>>
      /\ lastAck' = Fin /\ toClient' = toClient \cup {Fin}
  BY DEF ReceiveFin, FromClient, Reply
<1>2. stored \in Nat
  BY DEF UrftInv, TypeOK
<1>3. TypeOK' /\ InOrder' /\ Packeted' /\ Progressed'
  BY <1>1, <1>2, EmptyPackets DEF UrftInv, TypeOK, InOrder, Packeted, Progressed, clientVars
<1>4. QED
  BY <1>3 DEF UrftInv

LEMMA UrftStep == Sound /\ UrftInv /\ [Next]_vars => UrftInv'
<1> SUFFICES ASSUME Sound, UrftInv, [Next]_vars PROVE UrftInv'
  OBVIOUS
<1>1. CASE \E m \in toClient : DescriptorAnswered(m) \/ PieceAnswered(m)
  BY <1>1, AnsweredStep
<1>2. CASE ClientTimeout \/ ServerTimeout \/ Lose
             \/ \E m \in toClient : LateAnswer(m) \/ FinAnswered(m)
  BY <1>2, RepeatStep
<1>3. CASE \E m \in toServer : ServerReceives(m)
  BY <1>3, OpenStep, ReceiveStep, ReceiveFinStep DEF ServerReceives
<1>4. CASE UNCHANGED vars
  BY <1>4 DEF vars, clientVars, serverVars, UrftInv, TypeOK, InOrder, Packeted, Progressed
<1>5. QED
  BY <1>1, <1>2, <1>3, <1>4 DEF Next, ClientReceives

LEMMA UrftAlways == Sound => (Spec => []UrftInv)
<1> SUFFICES ASSUME Sound PROVE Spec => []UrftInv
  OBVIOUS
<1>1. Init => UrftInv
  BY UrftInit
<1>2. UrftInv /\ [Next]_vars => UrftInv'
  BY UrftStep
<1>3. QED
  BY <1>1, <1>2, PTL DEF Spec
-----------------------------------------------------------------------------
(* Types, for files that an int cannot count and disks that fail, too. *)

TypeInv == TypeOK /\ (phase = "fin" => tries < FinTries)

LEMMA TypeInit == Init => TypeInv
  BY EmptyPackets, UrftAssumption DEF Init, TypeInv, TypeOK, NoData

LEMMA ToIntType == ASSUME NEW x \in Int PROVE ToInt(x) \in Int
  BY UrftAssumption DEF ToInt

\* Whatever the bookmark, read() returns part of what is left of the file.
LEMMA PieceType ==
  ASSUME NEW b \in Int, NEW o \in 0 .. Size
  PROVE  WellFormed(Piece(b, o)) /\ o + Piece(b, o).length \in 0 .. Size
<1> DEFINE n == IF o + MaxSize <= Size THEN MaxSize ELSE Size - o
           r == IF n = 0 THEN -1 ELSE n
<1>1. n \in Nat /\ o + n \in 0 .. Size /\ r \in Int
  BY UrftAssumption
<1>2. ToInt(b + r) \in Int
  BY <1>1, ToIntType
<1>3. Piece(b, o) = Packet(b, ToInt(b + r), n, [j \in 1 .. n |-> o + j])
  BY DEF Piece
<1>4. [j \in 1 .. n |-> o + j] \in [1 .. n -> Nat]
  BY <1>1, UrftAssumption
<1> HIDE DEF n, r
<1>5. QED
  BY <1>1, <1>2, <1>3, <1>4 DEF Packet, WellFormed

\* The steps of the client that go on to the next piece or to the FIN cycle.
LEMMA GoOnType ==
  ASSUME TypeInv, NEW m, NEW e, NEW b \in Int, GoOn(m, e, b), UNCHANGED serverVars
  PROVE  TypeInv'
<1>1. /\ UNCHANGED <<sphase, stored, disk, lastAck>> /\ toClient' \subseteq toClient
      /\ toServer' = toServer \cup {lastSent'} /\ bookmark' = b
  BY DEF GoOn, Turn, serverVars
<1>2. CASE Sending(e)
  <2>1. /\ phase' = "data" /\ lastSent' = Piece(b, offset) /\ tries' = tries
        /\ offset' = offset + Piece(b, offset).length
    BY <1>2 DEF GoOn, Turn
  <2>2. WellFormed(lastSent') /\ offset' \in 0 .. Size
    BY <2>1, PieceType DEF TypeInv, TypeOK
  <2>3. QED
    BY <1>1, <2>1, <2>2 DEF TypeInv, TypeOK
<1>3. CASE ~Sending(e)
  <2>1. phase' = "fin" /\ lastSent' = Fin /\ tries' = 0 /\ offset' = offset
    BY <1>3 DEF GoOn, Turn
  <2>2. QED
    BY <1>1, <2>1, EmptyPackets, UrftAssumption DEF TypeInv, TypeOK
<1>4. QED
  BY <1>2, <1>3

LEMMA AnsweredType ==
  ASSUME TypeInv, NEW m \in toClient, DescriptorAnswered(m) \/ PieceAnswered(m)
  PROVE  TypeInv'
<1>1. bookmark \in Int /\ lastSent.length \in Int
  BY DEF TypeInv, TypeOK, WellFormed
<1>2. CASE DescriptorAnswered(m)
  BY <1>1, <1>2, GoOnType DEF DescriptorAnswered
<1>3. CASE PieceAnswered(m)
  <2>1. (IF bookmark < Size /\ lastSent.length > 0
           THEN ToInt(bookmark + lastSent.length) ELSE bookmark) \in Int
    BY <1>1, ToIntType
  <2>2. QED
    BY <1>3, <2>1, GoOnType DEF PieceAnswered
<1>4. QED
  BY <1>2, <1>3

LEMMA RepeatType ==
  ASSUME TypeInv,
         ClientTimeout \/ ServerTimeout \/ Lose
           \/ \E m \in toClient : LateAnswer(m) \/ FinAnswered(m)
  PROVE  TypeInv'
<1>1. /\ UNCHANGED <<stored, disk, bookmark, offset, lastAck>>
      /\ lastSent' \in {lastSent, Fin}
      /\ toServer' \subseteq toServer \cup {lastSent'}
      /\ toClient' \subseteq toClient \cup {lastAck}
  BY DEF ClientTimeout, ServerTimeout, Lose, LateAnswer, FinAnswered, Turn, clientVars, serverVars
<1>2. tries' \in 0 .. FinTries /\ (phase' = "fin" => tries' < FinTries)
  BY UrftAssumption DEF ClientTimeout, ServerTimeout, Lose, LateAnswer, FinAnswered, TypeInv,
     TypeOK, LastTry, clientVars
<1>3. phase' \in {"fd", "data", "fin", "done"} /\ sphase' \in {"fd", "data", "fin", "done"}
  BY DEF ClientTimeout, ServerTimeout, Lose, LateAnswer, FinAnswered, TypeInv,
     TypeOK, clientVars, serverVars
<1>4. \A q \in toServer' \cup toClient' \cup {lastSent', lastAck'} : WellFormed(q)
  BY <1>1, EmptyPackets DEF TypeInv, TypeOK
<1>5. QED
  BY <1>1, <1>2, <1>3, <1>4 DEF TypeInv, TypeOK

\* The server stores as much of the payload as the disk takes.
LEMMA ReceiveType ==
  ASSUME TypeInv, NEW m \in toServer, Receive(m)
  PROVE  TypeInv'
<1>1. /\ toServer' \subseteq toServer /\ UNCHANGED <<sphase, clientVars>>
      /\ lastAck' = Ack(m) /\ toClient' = toClient \cup {Ack(m)}
      /\ WellFormed(m) /\ WellFormed(Ack(m))
  BY EmptyPackets DEF Receive, FromClient, Reply, TypeInv, TypeOK
<1>2. PICK n \in 0 .. m.length :
        IF Fresh(m)
          THEN /\ stored' = stored + n
               /\ disk' = [p \in 1 .. stored + n |->
                             IF p <= stored THEN disk[p] ELSE m.payload[p - stored]]
          ELSE UNCHANGED <<stored, disk>>
  BY DEF Receive
<1>3. /\ stored \in Nat /\ disk \in [1 .. stored -> Nat]
      /\ m.length \in Nat /\ m.payload \in [1 .. m.length -> Nat] /\ n \in Nat
  BY <1>1 DEF TypeInv, TypeOK, WellFormed
<1>4. stored' \in Nat /\ disk' \in [1 .. stored' -> Nat]
  <2>1. CASE Fresh(m)
    <3>1. stored' = stored + n
      BY <1>2, <2>1
    <3>2. disk' = [p \in 1 .. stored + n |->
                     IF p <= stored THEN disk[p] ELSE m.payload[p - stored]]
      BY <1>2, <2>1
    <3>3. ASSUME NEW p \in 1 .. stored + n
          PROVE  (IF p <= stored THEN disk[p] ELSE m.payload[p - stored]) \in Nat
      <4>1. CASE p <= stored
        BY <1>3, <4>1
      <4>2. CASE ~(p <= stored)
        <5>1. p - stored \in 1 .. m.length
          BY <1>3, <4>2
        <5>2. QED
          BY <1>3, <4>2, <5>1
      <4>3. QED
        BY <4>1, <4>2
    <3>4. disk' \in [1 .. stored + n -> Nat]
      BY <3>2, <3>3
    <3>5. stored + n \in Nat
      BY <1>3
    <3>6. QED
      BY <3>1, <3>4, <3>5
  <2>2. CASE ~Fresh(m)
    BY <1>2, <1>3, <2>2
  <2>3. QED
    BY <2>1, <2>2
<1>5. QED
  BY <1>1, <1>4 DEF TypeInv, TypeOK, clientVars

LEMMA TypeStep == TypeInv /\ [Next]_vars => TypeInv'
<1> SUFFICES ASSUME TypeInv, [Next]_vars PROVE TypeInv'
  OBVIOUS
<1>1. CASE ClientTimeout \/ ServerTimeout \/ Lose
             \/ \E m \in toClient : LateAnswer(m) \/ FinAnswered(m)
  BY <1>1, RepeatType
<1>2. CASE \E m \in toClient : DescriptorAnswered(m) \/ PieceAnswered(m)
  BY <1>2, AnsweredType
<1>3. CASE \E m \in toServer : Open(m) \/ ReceiveFin(m)
  <2>1. PICK m \in toServer : Open(m) \/ ReceiveFin(m)
    BY <1>3
  <2>2. WellFormed(Ack(m)) /\ WellFormed(Fin)
    BY EmptyPackets DEF TypeInv, TypeOK
  <2>3. CASE Open(m)
    BY <2>2, <2>3 DEF Open, FromClient, Reply, TypeInv, TypeOK, clientVars, NoData
  <2>4. CASE ReceiveFin(m)
    BY <2>2, <2>4 DEF ReceiveFin, FromClient, Reply, TypeInv, TypeOK, clientVars
  <2>5. QED
    BY <2>1, <2>3, <2>4
<1>4. CASE \E m \in toServer : Receive(m)
  BY <1>4, ReceiveType
<1>5. CASE UNCHANGED vars
  BY <1>5 DEF vars, clientVars, serverVars, TypeInv, TypeOK
<1>6. QED
  BY <1>1, <1>2, <1>3, <1>4, <1>5 DEF Next, ClientReceives, ServerReceives

\* Client, server and packets in flight keep their types, also when bookmark
\* wraps and when a write fails halfway.
THEOREM UrftTypeCorrect == Spec => []TypeOK
<1>1. TypeInv => TypeOK
  BY DEF TypeInv
<1>2. QED
  BY <1>1, TypeInit, TypeStep, PTL DEF Spec
-----------------------------------------------------------------------------
(* The order of the pieces. *)

\* Whatever is lost, repeated, duplicated or late: the server's file is a
\* beginning of the client's.
THEOREM StoredInOrder == Sound => (Spec => []InOrder)
<1> SUFFICES ASSUME Sound PROVE Spec => []InOrder
  OBVIOUS
<1>1. Spec => []UrftInv
  BY UrftAlways
<1>2. UrftInv => InOrder
  BY DEF UrftInv
<1>3. QED
  BY <1>1, <1>2, PTL

LEMMA ConfirmedFact == Sound /\ UrftInv => ConfirmedIsStored
<1> SUFFICES ASSUME Sound, UrftInv PROVE bookmark <= stored
  BY DEF ConfirmedIsStored
<1>1. CASE phase = "data"
  <2>1. bookmark \in 0 .. Size - 1 /\ stored \in {bookmark, Piece(bookmark, bookmark).end}
    BY <1>1 DEF UrftInv, Progressed
  <2>2. Piece(bookmark, bookmark).end \in bookmark + 1 .. Size
    BY <2>1, PieceFacts
  <2>3. QED
    BY <2>1, <2>2
<1>2. CASE phase # "data"
  BY <1>2, UrftAssumption DEF UrftInv, Progressed, TypeOK
<1>3. QED
  BY <1>1, <1>2

\* An accepted answer proves to the client that the piece is stored.
THEOREM AnswerProves == Sound => (Spec => []ConfirmedIsStored)
<1> SUFFICES ASSUME Sound PROVE Spec => []ConfirmedIsStored
  OBVIOUS
<1>1. Spec => []UrftInv
  BY UrftAlways
<1>2. UrftInv => ConfirmedIsStored
  BY ConfirmedFact
<1>3. QED
  BY <1>1, <1>2, PTL

\* The client begins its FIN cycle only when the server has the whole file.
THEOREM FinAfterWhole == Sound => (Spec => []FinMeansWhole)
<1> SUFFICES ASSUME Sound PROVE Spec => []FinMeansWhole
  OBVIOUS
<1>1. Spec => []UrftInv
  BY UrftAlways
<1>2. UrftInv => FinMeansWhole
  BY DEF UrftInv, Progressed, FinMeansWhole
<1>3. QED
  BY <1>1, <1>2, PTL
-----------------------------------------------------------------------------
(* The protocol implements the abstract upload. *)

LEMMA PromiseInit == Init => Promise!Init
  BY DEF Init, Promise!Init, NoData

\* A step of the protocol is the storing of a piece, the client's learning of
\* one, or nothing the abstract upload sees.
LEMMA PromiseStep ==
  ASSUME Sound, UrftInv, UrftInv', ConfirmedIsStored, ConfirmedIsStored', [Next]_vars
  PROVE  [Promise!Next]_(Promise!vars)
<1> DEFINE over == phase \in {"fin", "done"}
<1>0. /\ ConfirmedIsStored /\ ConfirmedIsStored' /\ stored \in Nat /\ bookmark \in Int
      /\ \A p \in 1 .. stored' : disk'[p] = p
      /\ disk' = [p \in 1 .. stored' |-> disk'[p]]
      /\ stored' <= Size /\ disk \in [1 .. stored -> Nat]
  BY DEF UrftInv, TypeOK, InOrder
<1>1. CASE UNCHANGED <<stored, disk, bookmark, over>>
  BY <1>1 DEF Promise!vars
<1>2. CASE \E m \in toClient : DescriptorAnswered(m) \/ PieceAnswered(m)
  <2>1. UNCHANGED <<stored, disk>> /\ phase \in {"fd", "data"}
        /\ phase' \in {"data", "fin"}
    BY <1>2 DEF DescriptorAnswered, PieceAnswered, GoOn, serverVars
  <2>2. bookmark <= bookmark' /\ bookmark' \in Int
    <3>1. CASE phase = "fd"
      BY <2>1, <3>1, UrftAssumption DEF UrftInv, Progressed
    <3>2. CASE phase = "data"
      <4>1. PICK m \in toClient : PieceAnswered(m)
        BY <1>2, <3>2 DEF DescriptorAnswered
      <4>2. /\ bookmark \in 0 .. Size - 1 /\ lastSent = Piece(bookmark, bookmark)
        BY <3>2 DEF UrftInv, Progressed
      <4>3. /\ lastSent.length \in Nat \ {0} /\ lastSent.end = bookmark + lastSent.length
            /\ lastSent.end \in bookmark + 1 .. Size
        BY <4>2, PieceFacts
      <4>4. bookmark + lastSent.length \in -1 .. IntMax
        BY <4>2, <4>3, UrftAssumption DEF Sound
      <4>5. ToInt(bookmark + lastSent.length) = bookmark + lastSent.length
        BY <4>4, ToIntFact
      <4>6. bookmark' = bookmark + lastSent.length
        BY <4>1, <4>2, <4>3, <4>5, UrftAssumption DEF PieceAnswered, GoOn
      <4>7. QED
        BY <4>2, <4>3, <4>6
    <3>3. QED
      BY <2>1, <3>1, <3>2
  <2>3. bookmark' \in bookmark .. stored
    BY <1>0, <2>1, <2>2 DEF ConfirmedIsStored
  <2>4. phase' = "fin" <=> bookmark' = Size
    BY <2>1, UrftAssumption DEF UrftInv, Progressed
  <2>5. Promise!Confirm
    BY <2>1, <2>3, <2>4 DEF Promise!Confirm
  <2>6. QED
    BY <2>5 DEF Promise!Next
<1>3. CASE \E m \in toServer : Receive(m) /\ Fresh(m)
  <2>1. PICK m \in toServer : Receive(m) /\ Fresh(m)
    BY <1>3
  <2>2. stored' = stored + m.length /\ m.length \in Nat \ {0} /\ UNCHANGED clientVars
    BY <2>1, FreshFacts DEF Receive, Sound
  <2>3. stored' \in stored + 1 .. Size /\ disk' = [p \in 1 .. stored' |-> p]
    BY <1>0, <2>2
  <2>4. Promise!Store
    BY <2>2, <2>3 DEF Promise!Store, clientVars
  <2>5. QED
    BY <2>4 DEF Promise!Next
<1>4. CASE \E m \in toServer : Open(m)
  <2>1. stored = 0 /\ stored' = 0 /\ disk' = NoData /\ UNCHANGED clientVars
    BY <1>4 DEF Open, UrftInv, Progressed
  <2>2. disk = NoData
    BY <1>0, <2>1 DEF NoData
  <2>3. QED
    BY <1>1, <2>1, <2>2 DEF clientVars
<1>5. CASE ClientTimeout \/ ServerTimeout \/ Lose \/ (\E m \in toClient : LateAnswer(m) \/ FinAnswered(m))
             \/ \E m \in toServer : ReceiveFin(m) \/ (Receive(m) /\ ~Fresh(m))
  <2>1. UNCHANGED <<stored, disk, bookmark, over>>
    BY <1>5 DEF ClientTimeout, ServerTimeout, Lose, LateAnswer, FinAnswered, ReceiveFin, Receive,
       clientVars, serverVars
  <2>2. QED
    BY <1>1, <2>1
<1>6. CASE UNCHANGED vars
  BY <1>1, <1>6 DEF vars, clientVars, serverVars
<1>7. QED
  BY <1>2, <1>3, <1>4, <1>5, <1>6 DEF Next, ClientReceives, ServerReceives

\* The stop-and-wait protocol keeps the promise of an upload: the file grows in
\* order, the client learns of it only afterwards, and stops only at the end.
THEOREM ImplementsUpload == Sound => (Spec => KeepsPromise)
<1> SUFFICES ASSUME Sound PROVE Spec => KeepsPromise
  OBVIOUS
<1>1. Init => Promise!Init
  BY PromiseInit
<1>2. UrftInv /\ UrftInv' /\ ConfirmedIsStored /\ ConfirmedIsStored' /\ [Next]_vars
        => [Promise!Next]_(Promise!vars)
  BY PromiseStep
<1>3. Spec => []UrftInv /\ []ConfirmedIsStored
  BY UrftAlways, AnswerProves
<1>4. QED
  BY <1>1, <1>2, <1>3, PTL DEF Spec, KeepsPromise, Promise!Spec
=============================================================================
