---------------------------- MODULE PieceCountProofs ----------------------------
(***************************************************************************)
(* The TCP upload that counts calls of recv, for every buffer and file size: *)
(* if TCP fills the buffer in each call, the calls are enough.              *)
(***************************************************************************)
EXTENDS PieceCount, SequenceTheorems, TLAPS

Sane == Buffer \in Nat \ {0} /\ Sizes \subseteq Nat

\* Bytes are a run of places.
LEMMA BytesFacts ==
  ASSUME NEW a \in Nat, NEW b \in Nat, a <= b + 1
  PROVE  /\ Bytes(a, b) \in Seq(Nat) /\ Len(Bytes(a, b)) = b - a + 1
         /\ DOMAIN Bytes(a, b) = 1 .. b - a + 1
         /\ \A i \in 1 .. b - a + 1 : Bytes(a, b)[i] = a + i - 1
<1>1. b - a + 1 \in Nat /\ \A i \in 1 .. b - a + 1 : a + i - 1 \in Nat
  OBVIOUS
<1>2. QED
  BY <1>1, SeqDef, LenProperties DEF Bytes

LEMMA BytesJoin ==
  ASSUME NEW a \in Nat, NEW b \in Nat, NEW c \in Nat, a <= b + 1, b <= c
  PROVE  Bytes(a, b) \o Bytes(b + 1, c) = Bytes(a, c)
<1>1. /\ Bytes(a, b) \in Seq(Nat) /\ Len(Bytes(a, b)) = b - a + 1
      /\ \A i \in 1 .. b - a + 1 : Bytes(a, b)[i] = a + i - 1
  BY BytesFacts
<1>2. /\ Bytes(b + 1, c) \in Seq(Nat) /\ Len(Bytes(b + 1, c)) = c - b
      /\ \A i \in 1 .. c - b : Bytes(b + 1, c)[i] = b + i
  <2>1. b + 1 \in Nat /\ c - (b + 1) + 1 = c - b /\ b + 1 <= c + 1
    OBVIOUS
  <2>2. /\ Bytes(b + 1, c) \in Seq(Nat) /\ Len(Bytes(b + 1, c)) = c - (b + 1) + 1
        /\ \A i \in 1 .. c - (b + 1) + 1 : Bytes(b + 1, c)[i] = (b + 1) + i - 1
    BY <2>1, BytesFacts, Zenon
  <2>3. QED
    BY <2>1, <2>2
<1>3. /\ Bytes(a, c) \in Seq(Nat) /\ Len(Bytes(a, c)) = c - a + 1
      /\ \A i \in 1 .. c - a + 1 : Bytes(a, c)[i] = a + i - 1
  <2>1. a <= c + 1
    OBVIOUS
  <2>2. QED
    BY <2>1, BytesFacts, Zenon
<1> DEFINE s == Bytes(a, b)
           t == Bytes(b + 1, c)
           u == Bytes(a, c)
<1>4. /\ s \in Seq(Nat) /\ Len(s) = b - a + 1 /\ t \in Seq(Nat) /\ Len(t) = c - b
      /\ u \in Seq(Nat) /\ Len(u) = c - a + 1
  BY <1>1, <1>2, <1>3
<1> HIDE DEF s, t, u
<1>5. /\ s \o t \in Seq(Nat) /\ Len(s \o t) = Len(s) + Len(t)
      /\ \A i \in 1 .. Len(s) + Len(t) :
           (s \o t)[i] = IF i <= Len(s) THEN s[i] ELSE t[i - Len(s)]
  BY <1>4, ConcatProperties
<1>6. Len(s) + Len(t) = c - a + 1
  BY <1>4
<1>7. ASSUME NEW i \in 1 .. Len(s) + Len(t) PROVE (s \o t)[i] = u[i]
  <2>1. i \in 1 .. c - a + 1 /\ u[i] = a + i - 1
    BY <1>3, <1>6 DEF u
  <2>2. CASE i <= Len(s)
    <3>1. i \in 1 .. b - a + 1
      BY <1>4, <2>1, <2>2
    <3>2. s[i] = a + i - 1
      BY <1>1, <3>1 DEF s
    <3>3. QED
      BY <1>5, <2>1, <2>2, <3>2
  <2>3. CASE ~(i <= Len(s))
    <3>1. i - Len(s) \in 1 .. c - b /\ b + (i - Len(s)) = a + i - 1
      BY <1>4, <2>1, <2>3
    <3>2. t[i - Len(s)] = b + (i - Len(s))
      BY <1>2, <3>1 DEF t
    <3>3. QED
      BY <1>5, <2>1, <2>3, <3>1, <3>2
  <2>4. QED
    BY <2>2, <2>3
<1>8. s \o t = u
  BY <1>4, <1>5, <1>6, <1>7, SeqEqual
<1>9. QED
  BY <1>8 DEF s, t, u

LEMMA BytesNext ==
  ASSUME NEW a \in Nat, NEW b \in Nat, NEW c \in Nat, NEW d \in Nat, d = b + 1, a <= d, b <= c
  PROVE  Bytes(a, b) \o Bytes(d, c) = Bytes(a, c)
  BY BytesJoin

\* A stream that begins with the header, when the header is taken from it.
LEMMA HeaderTaken ==
  ASSUME NEW m \in Nat, NEW t \in Seq(Nat)
  PROVE  LET s == [i \in 1 .. m |-> 0] \o t
         IN  SubSeq(s, m + 1, Len(s)) = t
<1> DEFINE h == [i \in 1 .. m |-> 0]
           s == h \o t
<1>1. h \in Seq(Nat) /\ Len(h) = m
  BY SeqDef, LenProperties
<1> HIDE DEF h
<1>2. /\ s \in Seq(Nat) /\ Len(s) = m + Len(t)
      /\ \A i \in 1 .. m + Len(t) : s[i] = IF i <= m THEN h[i] ELSE t[i - m]
  BY <1>1, ConcatProperties
<1> HIDE DEF s
<1>3. \A i \in m + 1 .. Len(s) : s[i] \in Nat
  BY <1>2
<1> DEFINE u == SubSeq(s, m + 1, Len(s))
<1>4. /\ u \in Seq(Nat) /\ Len(u) = (IF m + 1 <= Len(s) THEN Len(s) - (m + 1) + 1 ELSE 0)
      /\ \A i \in 1 .. Len(s) - (m + 1) + 1 : u[i] = s[m + 1 + i - 1]
  BY <1>2, <1>3, SubSeqProperties
<1> HIDE DEF u
<1>5. Len(u) = Len(t)
  BY <1>2, <1>4
<1>6. ASSUME NEW i \in 1 .. Len(u) PROVE u[i] = t[i]
  <2>1. i \in 1 .. Len(s) - (m + 1) + 1 /\ m + 1 + i - 1 = m + i
    BY <1>2, <1>5
  <2>2. u[i] = s[m + i]
    BY <1>4, <2>1
  <2>3. m + i \in 1 .. m + Len(t) /\ ~(m + i <= m) /\ (m + i) - m = i
    BY <1>5
  <2>4. QED
    BY <1>2, <2>2, <2>3
<1>7. u = t
  BY <1>4, <1>5, <1>6, SeqEqual
<1>8. QED
  BY <1>7 DEF u, s, h
-----------------------------------------------------------------------------
(* The invariant.  As long as no call came back short, the server has a      *)
(* beginning of the file, the stream holds what was sent of the rest, and    *)
(* the calls made filled the buffer, all or all but the last.               *)

Header == [i \in 1 .. Buffer |-> 0]
Top    == IF sender > size THEN size ELSE sender - 1   \* the last byte sent

Called(f) ==
  \/ f + left * Buffer = Calls(size) * Buffer
  \/ f = size /\ sender = Closed

Begun(f) ==
  /\ f \in 0 .. Top /\ file = Bytes(1, f) /\ stream = Bytes(f + 1, Top)
  /\ Called(f)

PieceInv ==
  /\ size \in Nat /\ sender \in 0 .. size + 2 /\ left \in Int /\ short \in BOOLEAN
  /\ receiver \in {"header", "piece", "ended", "crashed"}
  /\ sender = 0 => stream = <<>> /\ receiver # "piece" /\ (receiver = "header" \/ short)
  /\ receiver = "header" =>
       /\ file = <<>>
       /\ sender > 0 => stream = Header \o Bytes(1, Top)
  /\ receiver # "header" /\ ~short => left \in Nat /\ \E f \in Nat : Begun(f)
  /\ receiver = "ended" /\ ~short => left = 0

LEMMA CallsFacts ==
  ASSUME Sane, NEW s \in Nat
  PROVE  Calls(s) \in Nat /\ s < Calls(s) * Buffer
<1>1. s \div Buffer \in Nat /\ s % Buffer \in 0 .. Buffer - 1
      /\ s = Buffer * (s \div Buffer) + (s % Buffer)
  BY DEF Sane
<1> DEFINE d == s \div Buffer
           r == s % Buffer
<1>2. Calls(s) = d + 1
  BY DEF Calls
<1>3. d \in Nat /\ r \in Int /\ r < Buffer /\ s = Buffer * d + r /\ Buffer \in Nat
  BY <1>1 DEF Sane
<1> HIDE DEF d, r
<1>4. (d + 1) * Buffer = Buffer * d + Buffer
  BY <1>3
<1>5. QED
  BY <1>2, <1>3, <1>4

LEMMA PieceInit == Sane /\ Init => PieceInv
<1> SUFFICES ASSUME Sane, Init PROVE PieceInv
  OBVIOUS
<1>1. size \in Nat /\ sender = 0 /\ sender \in 0 .. size + 2 /\ left = 0
  BY DEF Sane, Init
<1>2. receiver = "header" /\ stream = <<>> /\ file = <<>> /\ short = FALSE
  BY DEF Init
<1>3. short \in BOOLEAN /\ ~(sender > 0) /\ left \in Int
  <2>1. short \in BOOLEAN
    BY <1>2, Zenon
  <2>2. ~(sender > 0) /\ left \in Int
    BY <1>1
  <2>3. QED
    BY <2>1, <2>2, Zenon
<1>4. QED
  BY <1>1, <1>2, <1>3, Zenon DEF PieceInv

LEMMA TopFacts ==
  ASSUME PieceInv, sender > 0
  PROVE  Top \in Nat /\ Top <= size /\ (sender > size => Top = size)
  BY DEF PieceInv, Top

\* The client goes on: what it sends continues the stream.
LEMMA PieceClient ==
  ASSUME Sane, PieceInv, Client
  PROVE  PieceInv'
<1>1. /\ size \in Nat /\ sender \in 0 .. size + 2 /\ Buffer \in Nat \ {0}
      /\ UNCHANGED <<size, receiver, left, file, short>>
  BY DEF PieceInv, Sane, Client, SendHeader, SendPiece, Close
<1>2. CASE SendHeader
  <2>1. /\ sender = 0 /\ sender' = 1 /\ stream' = Header
        /\ receiver # "header" => short /\ receiver # "piece"
        /\ receiver = "header" => file = <<>>
    BY <1>2 DEF SendHeader, Header, PieceInv
  <2>2. Top' = 0
    BY <1>1, <2>1 DEF Top
  <2>3. Bytes(1, 0) = <<>> /\ Header \o <<>> = Header
    <3>1. Header \in Seq(Nat)
      BY <1>1, SeqDef DEF Header
    <3>2. QED
      BY <3>1, ConcatEmptySeq DEF Bytes
  <2>4. sender' \in 0 .. size' + 2
    BY <1>1, <2>1
  <2>5. stream' = Header' \o Bytes(1, Top')
    BY <2>1, <2>2, <2>3 DEF Header
  <2>6. QED
    BY <1>1, <2>1, <2>4, <2>5 DEF PieceInv
<1>3. CASE SendPiece
  <2> DEFINE end == IF sender + Buffer > size THEN size ELSE sender + Buffer - 1
  <2>1. /\ sender \in 1 .. size /\ sender' = end + 1 /\ stream' = stream \o Bytes(sender, end)
    BY <1>3 DEF SendPiece
  <2>2. end \in Nat /\ sender <= end + 1 /\ sender <= end /\ end <= size
    BY <1>1, <2>1
  <2> HIDE DEF end
  <2>3. Top = sender - 1 /\ Top' = end /\ Top + 1 = sender /\ Top \in Nat
    BY <1>1, <2>1, <2>2 DEF Top
  <2>4. sender' \in 0 .. size' + 2 /\ sender' # 0 /\ sender' # size + 2 /\ sender # size + 2
    BY <1>1, <2>1, <2>2
  <2>5. CASE receiver = "header"
    <3>1. stream = Header \o Bytes(1, Top) /\ file = <<>>
      BY <2>1, <2>5 DEF PieceInv
    <3>2. Bytes(1, Top) \o Bytes(sender, end) = Bytes(1, end)
      <4>1. Top \in Nat /\ end \in Nat /\ sender = Top + 1 /\ 1 <= sender /\ Top <= end
        BY <1>1, <2>1, <2>2, <2>3
      <4>2. \A b, c, d \in Nat :
              d = b + 1 /\ 1 <= d /\ b <= c => Bytes(1, b) \o Bytes(d, c) = Bytes(1, c)
        BY BytesNext
      <4>3. \A c, d \in Nat :
              d = Top + 1 /\ 1 <= d /\ Top <= c => Bytes(1, Top) \o Bytes(d, c) = Bytes(1, c)
        BY <4>1, <4>2
      <4>4. QED
        BY <1>1, <4>1, <4>3
    <3>3. Header \in Seq(Nat) /\ Bytes(1, Top) \in Seq(Nat) /\ Bytes(sender, end) \in Seq(Nat)
      BY <1>1, <2>1, <2>2, <2>3, SeqDef, BytesFacts DEF Header
    <3>4. stream' = Header \o Bytes(1, end)
      <4>1. (Header \o Bytes(1, Top)) \o Bytes(sender, end)
              = Header \o (Bytes(1, Top) \o Bytes(sender, end))
        BY <3>3, ConcatAssociative
      <4>2. QED
        BY <2>1, <3>1, <3>2, <4>1, Zenon
    <3>5. stream' = Header' \o Bytes(1, Top')
      BY <2>3, <3>4 DEF Header
    <3>6. QED
      BY <1>1, <2>4, <2>5, <3>1, <3>5 DEF PieceInv
  <2>6. CASE receiver # "header"
    <3>1. ASSUME ~short PROVE \E f \in Nat : Begun(f)'
      <4>1. PICK f \in Nat : Begun(f)
        BY <2>6, <3>1 DEF PieceInv
      <4>2. f <= Top /\ file = Bytes(1, f) /\ stream = Bytes(f + 1, Top) /\ Called(f)
        BY <4>1 DEF Begun
      <4>3. f + 1 \in Nat /\ f + 1 <= Top + 1 /\ Top <= end
        BY <2>2, <2>3, <4>2
      <4>4. stream' = Bytes(f + 1, end)
        <5>1. f + 1 \in Nat /\ Top \in Nat /\ end \in Nat /\ sender = Top + 1
              /\ f + 1 <= sender /\ Top <= end
          BY <1>1, <2>1, <2>2, <2>3, <4>3
        <5>2. Bytes(f + 1, Top) \o Bytes(sender, end) = Bytes(f + 1, end)
          <6>1. ASSUME NEW a \in Nat, a <= sender
                PROVE  Bytes(a, Top) \o Bytes(sender, end) = Bytes(a, end)
            <7>1. Top \in Nat /\ end \in Nat /\ sender = Top + 1 /\ Top <= end
              BY <5>1
            <7>2. ASSUME NEW b \in Nat, NEW c \in Nat, NEW d \in Nat,
                         d = b + 1, a <= d, b <= c
                  PROVE  Bytes(a, b) \o Bytes(d, c) = Bytes(a, c)
              <8>1. a \in Nat
                BY <6>1
              <8>2. QED
                BY <7>2, <8>1, BytesJoin
            <7>3. ASSUME NEW c \in Nat, NEW d \in Nat, d = Top + 1, a <= d, Top <= c
                  PROVE  Bytes(a, Top) \o Bytes(d, c) = Bytes(a, c)
              BY <7>1, <7>2, <7>3
            <7>4. sender \in Nat
              BY <1>1, <7>1
            <7>5. QED
              BY <6>1, <7>1, <7>3, <7>4
          <6>2. QED
            BY <5>1, <6>1, Zenon
        <5>3. QED
          BY <2>1, <4>2, <5>2, Zenon
      <4>5. Called(f)'
        BY <1>1, <2>4, <4>2 DEF Called, Closed, Calls
      <4>6. f \in 0 .. end
        BY <2>2, <2>3, <4>2
      <4>7. Begun(f)'
        BY <1>1, <2>3, <4>2, <4>4, <4>5, <4>6 DEF Begun
      <4>8. QED
        BY <4>7
    <3>2. QED
      BY <1>1, <2>4, <2>6, <3>1 DEF PieceInv
  <2>7. QED
    BY <2>5, <2>6
<1>4. CASE Close
  <2>1. sender = size + 1 /\ sender' = size + 2 /\ UNCHANGED stream
    BY <1>4 DEF Close, Closed
  <2>2. Top' = Top /\ Header' = Header
    BY <1>1, <2>1 DEF Top, Header
  <2>3. sender' \in 0 .. size' + 2 /\ sender' > 0 /\ sender > 0
    BY <1>1, <2>1
  <2>4. ASSUME NEW f \in Nat, Begun(f) PROVE Begun(f)'
    BY <1>1, <2>1, <2>2, <2>4 DEF Begun, Called, Closed, Calls
  <2>5. QED
    BY <1>1, <2>1, <2>2, <2>3, <2>4 DEF PieceInv
<1>5. QED
  BY <1>2, <1>3, <1>4 DEF Client

\* A recv that took the whole header leaves the stream at the file's first byte.
LEMMA PieceHeader ==
  ASSUME Sane, PieceInv, RecvHeader
  PROVE  PieceInv'
<1>1. /\ receiver = "header" /\ receiver' = "piece"
      /\ left' \in IF short' THEN Endless .. Calls(size) + 1 ELSE {Calls(size)}
      /\ UNCHANGED <<size, sender, file>>
  BY DEF RecvHeader
<1>2. PICK n \in 1 .. Buffer : Received(n) /\ short' = (n < Buffer)
  BY DEF RecvHeader
<1>3. size \in Nat /\ sender \in 0 .. size + 2 /\ Buffer \in Nat \ {0} /\ file = <<>>
  BY <1>1 DEF PieceInv, Sane
<1>4. sender # 0
  BY <1>2 DEF Received, PieceInv
<1>5. stream = Header \o Bytes(1, Top) /\ Top \in Nat
  BY <1>1, <1>3, <1>4, TopFacts DEF PieceInv
<1>6. Top' = Top
  BY <1>1 DEF Top
<1>7. ASSUME ~short' PROVE Begun(0)'
  <2>1. n = Buffer /\ stream' = SubSeq(stream, Buffer + 1, Len(stream))
    <3>1. ~(n < Buffer)
      BY <1>2, <1>7, Zenon
    <3>2. n = Buffer
      BY <1>3, <3>1
    <3>3. stream' = SubSeq(stream, n + 1, Len(stream))
      BY <1>2 DEF Received
    <3>4. QED
      BY <3>2, <3>3, Zenon
  <2>2. Bytes(1, Top) \in Seq(Nat)
    BY <1>5, BytesFacts
  <2>3. stream' = Bytes(1, Top)
    BY <1>3, <1>5, <2>1, <2>2, HeaderTaken DEF Header
  <2>4. Bytes(1, 0) = <<>>
    BY DEF Bytes
  <2>5. Called(0)'
    <3>1. Calls(size) * Buffer \in Nat
      BY <1>3, CallsFacts
    <3>2. left' = Calls(size)
      BY <1>1, <1>7
    <3>3. QED
      BY <1>1, <3>1, <3>2 DEF Called, Calls
  <2>6. QED
    BY <1>1, <1>3, <1>5, <1>6, <2>3, <2>4, <2>5 DEF Begun
<1>8. short' \in BOOLEAN
  BY <1>2
<1>9. left' \in Int /\ (~short' => left' \in Nat)
  <2>1. Calls(size) \in Nat
    BY <1>3, CallsFacts
  <2>2. CASE short'
    BY <1>1, <2>1, <2>2 DEF Endless
  <2>3. CASE ~short'
    BY <1>1, <2>1, <2>3
  <2>4. QED
    BY <2>2, <2>3
<1>10. ~short' => \E f \in Nat : Begun(f)'
  BY <1>7
<1>11. QED
  BY <1>1, <1>3, <1>4, <1>8, <1>9, <1>10 DEF PieceInv

\* A recv that filled the buffer is a full call; one that emptied a closed stream
\* is the last.
LEMMA PieceTaken ==
  ASSUME Sane, PieceInv, RecvPiece
  PROVE  PieceInv'
<1>1. /\ receiver = "piece" /\ left # 0
      /\ left' = IF left = Endless THEN left ELSE left - 1
      /\ UNCHANGED <<size, sender, receiver>>
  BY DEF RecvPiece
<1>2. PICK n \in 0 .. Buffer :
        /\ Received(n) /\ file' = file \o SubSeq(stream, 1, n)
        /\ short' = (short \/ (n < Buffer /\ (stream' # <<>> \/ sender # Closed)))
  BY DEF RecvPiece
<1>3. /\ size \in Nat /\ sender \in 0 .. size + 2 /\ sender > 0 /\ Buffer \in Nat \ {0}
      /\ left \in Int /\ short \in BOOLEAN /\ n \in Nat /\ n <= Buffer
      /\ ~short => left \in Nat
  BY <1>1, <1>2 DEF PieceInv, Sane
<1>4. left' \in Int /\ short' \in BOOLEAN
  BY <1>1, <1>2, <1>3
<1>5. Top \in Nat /\ Top <= size /\ (sender > size => Top = size) /\ Top' = Top
  BY <1>1, <1>3, TopFacts DEF Top
<1>6. ASSUME ~short' PROVE left' \in Nat /\ \E f \in Nat : Begun(f)'
  <2>1. ~short /\ (n < Buffer => stream' = <<>> /\ sender = Closed)
    BY <1>2, <1>3, <1>6
  <2>2. left \in Nat /\ left' = left - 1 /\ left' \in Nat
    BY <1>1, <1>3, <2>1 DEF Endless
  <2>3. PICK f \in Nat : Begun(f)
    BY <1>1, <2>1 DEF PieceInv
  <2>4. f <= Top /\ file = Bytes(1, f) /\ stream = Bytes(f + 1, Top) /\ Called(f)
    BY <1>5, <2>3 DEF Begun
  <2>5. Len(stream) = Top - f
    <3>1. f + 1 \in Nat /\ f + 1 <= Top + 1 /\ Top - (f + 1) + 1 = Top - f
      BY <1>5, <2>4
    <3>2. QED
      BY <1>5, <2>4, <3>1, BytesFacts
  <2>6. n <= Top - f /\ stream' = SubSeq(stream, n + 1, Len(stream))
    BY <1>2, <2>5 DEF Received
  <2>7. /\ f + 1 \in Nat /\ f + 1 + n <= Top + 1 /\ f + n \in Nat /\ f + n <= Top
        /\ (f + 1) + n - 1 = f + n /\ (f + 1) + n = (f + n) + 1
    BY <1>3, <1>5, <2>6
  <2>8. SubSeq(stream, 1, n) = Bytes(f + 1, f + n) /\ stream' = Bytes((f + n) + 1, Top)
    <3>1. /\ SubSeq(Bytes(f + 1, Top), 1, n) = Bytes(f + 1, f + n)
          /\ SubSeq(Bytes(f + 1, Top), n + 1, Len(Bytes(f + 1, Top))) = Bytes((f + n) + 1, Top)
      <4>1. (f + n) + 1 = (f + 1) + n /\ f + n = ((f + n) + 1) - 1 /\ (f + n) + 1 <= Top + 1
        BY <1>3, <1>5, <2>7
      <4>2. QED
        <5>1. ASSUME NEW a \in Nat, NEW d \in Nat, NEW e \in Nat,
                     d = a + n, e = d - 1, d <= Top + 1
              PROVE  /\ SubSeq(Bytes(a, Top), 1, n) = Bytes(a, e)
                     /\ SubSeq(Bytes(a, Top), n + 1, Len(Bytes(a, Top))) = Bytes(d, Top)
          <6>1. Top \in Nat /\ n \in Nat
            BY <1>3, <1>5
          <6>2. ASSUME NEW b \in Nat, d <= b + 1
                PROVE  /\ SubSeq(Bytes(a, b), 1, n) = Bytes(a, e)
                       /\ SubSeq(Bytes(a, b), n + 1, Len(Bytes(a, b))) = Bytes(d, b)
            <7>1. a <= b + 1
              BY <5>1, <6>1, <6>2
            <7>2. Len(Bytes(a, b)) = b - a + 1
              BY <7>1, BytesFacts
            <7>3. SubSeq(Bytes(a, b), 1, n) = Bytes(a, e)
              BY <5>1, <6>1, <6>2, <7>2 DEF Bytes
            <7>4. SubSeq(Bytes(a, b), n + 1, b - a + 1) = Bytes(d, b)
              BY <5>1, <6>1, <6>2, <7>2 DEF Bytes
            <7>5. QED
              BY <7>2, <7>3, <7>4
          <6>3. QED
            BY <5>1, <6>1, <6>2
        <5>2. f + 1 \in Nat /\ (f + n) + 1 \in Nat /\ f + n \in Nat
          BY <2>7
        <5>3. QED
          BY <2>7, <4>1, <5>1, <5>2, Zenon
    <3>2. QED
      BY <2>4, <2>6, <3>1, Zenon
  <2>9. file' = Bytes(1, f + n)
    <3>1. 1 <= f + 1 /\ f <= f + n
      BY <1>3, <2>3
    <3>2. Bytes(1, f) \o Bytes(f + 1, f + n) = Bytes(1, f + n)
      <4>1. f \in Nat /\ f + n \in Nat /\ 1 \in Nat
        BY <2>3, <2>7
      <4>2. QED
        BY <3>1, <4>1, BytesJoin
    <3>3. QED
      BY <1>2, <2>4, <2>8, <3>2, Zenon
  <2>10. Called(f + n)'
    <3>1. CASE n < Buffer
      <4>1. Bytes((f + n) + 1, Top) = <<>> /\ sender = size + 2
        BY <2>1, <2>8, <3>1 DEF Closed
      <4>2. Len(Bytes((f + n) + 1, Top)) = Top - ((f + n) + 1) + 1
        <5>1. (f + n) + 1 \in Nat /\ (f + n) + 1 <= Top + 1
          BY <1>5, <2>7
        <5>2. QED
          BY <1>5, <5>1, BytesFacts, Zenon
      <4>3. Top = f + n /\ Top = size
        BY <1>3, <1>5, <2>7, <4>1, <4>2
      <4>4. QED
        BY <1>1, <4>1, <4>3 DEF Called, Closed
    <3>2. CASE n = Buffer
      <4>1. ~(f = size)
        BY <1>3, <1>5, <2>6, <3>2
      <4>2. f + left * Buffer = Calls(size) * Buffer
        BY <2>4, <4>1 DEF Called
      <4>3. (left - 1) * Buffer = left * Buffer - Buffer
        BY <1>3, <2>2
      <4>4. (f + Buffer) + (left - 1) * Buffer = f + left * Buffer
        <5> DEFINE a == left * Buffer
                   b == (left - 1) * Buffer
        <5>1. a \in Int /\ b = a - Buffer
          BY <1>3, <2>2, <4>3
        <5> HIDE DEF a, b
        <5>2. (f + Buffer) + b = f + a
          BY <1>3, <5>1
        <5>3. QED
          BY <5>2 DEF a, b
      <4>5. QED
        BY <1>1, <2>2, <3>2, <4>2, <4>4 DEF Called, Calls
    <3>3. QED
      BY <1>3, <3>1, <3>2
  <2>11. f + n \in 0 .. Top
    BY <1>5, <2>7
  <2>12. Begun(f + n)'
    BY <1>5, <2>8, <2>9, <2>10, <2>11 DEF Begun
  <2>13. QED
    BY <2>7, <2>12, <2>2
<1>7. QED
  BY <1>1, <1>3, <1>4, <1>6 DEF PieceInv

LEMMA PieceStep == Sane /\ PieceInv /\ [Next]_vars => PieceInv'
<1> SUFFICES ASSUME Sane, PieceInv, [Next]_vars PROVE PieceInv'
  OBVIOUS
<1>1. CASE Finish \/ Break \/ UNCHANGED vars
  <2>1. /\ UNCHANGED <<size, sender, stream, left, file>>
        /\ short' = short \/ (receiver = "header" /\ short' = TRUE)
        /\ \/ receiver' = receiver
           \/ receiver = "piece" /\ receiver' \in {"ended", "crashed"}
           \/ receiver = "header" /\ short' = TRUE /\ receiver' \in {"ended", "crashed"}
        /\ receiver' = "ended" /\ receiver # "ended" => left = 0 \/ short'
    BY <1>1 DEF Finish, Break, vars
  <2>2. Top' = Top /\ Header' = Header
    BY <2>1 DEF Top, Header
  <2>3. ASSUME NEW f \in Nat, Begun(f) PROVE Begun(f)'
    BY <2>1, <2>2, <2>3 DEF Begun, Called, Closed, Calls
  <2>4. short' \in BOOLEAN /\ (short => short')
    <3>1. short' = short \/ short' = TRUE
      BY <2>1
    <3>2. short \in BOOLEAN
      BY DEF PieceInv
    <3>3. CASE short' = short
      BY <3>2, <3>3, Zenon
    <3>4. CASE short' = TRUE
      BY <3>4, Zenon
    <3>5. QED
      BY <3>1, <3>3, <3>4
  <2>5. sender = 0 => receiver' # "piece" /\ (receiver' = "header" \/ short')
    BY <2>1, <2>4 DEF PieceInv
  <2>6. receiver' = "header" => receiver = "header"
    BY <2>1
  <2>7. receiver' # "header" /\ ~short' => left \in Nat /\ \E f \in Nat : Begun(f)'
    <3>1. receiver' # "header" /\ ~short' => receiver # "header" /\ ~short
      BY <2>1, <2>4
    <3>2. QED
      BY <2>3, <3>1 DEF PieceInv
  <2>8. receiver' = "ended" /\ ~short' => left = 0
    BY <2>1, <2>4 DEF PieceInv
  <2>9. receiver' \in {"header", "piece", "ended", "crashed"}
    BY <2>1 DEF PieceInv
  <2>10. QED
    BY <2>1, <2>2, <2>4, <2>5, <2>6, <2>7, <2>8, <2>9 DEF PieceInv
<1>2. QED
  BY <1>1, PieceClient, PieceHeader, PieceTaken DEF Next, Server

\* What the invariant says of a server that has made its calls.
LEMMA PieceEnough == Sane /\ PieceInv => FullCallsSuffice
<1> SUFFICES ASSUME Sane, PieceInv, receiver = "ended", ~short PROVE file = Bytes(1, size)
  BY DEF FullCallsSuffice
<1>1. PICK f \in Nat : Begun(f)
  BY DEF PieceInv
<1>2. left = 0 /\ size \in Nat /\ sender > 0 /\ Buffer \in Nat
  BY DEF PieceInv, Sane
<1>3. f <= size /\ file = Bytes(1, f) /\ Called(f)
  BY <1>1, <1>2, TopFacts DEF Begun
<1>4. f = size
  <2>1. size < Calls(size) * Buffer /\ 0 * Buffer = 0
    BY <1>2, CallsFacts
  <2>2. QED
    BY <1>2, <1>3, <2>1 DEF Called
<1>5. QED
  BY <1>3, <1>4

\* With a buffer that TCP fills in each call, file_size / BUF_SIZE + 1 calls of
\* recv are enough for the whole file, for every size and every buffer.
THEOREM CallsAreEnough == Sane => (Init /\ [][Next]_vars => []FullCallsSuffice)
<1> SUFFICES ASSUME Sane PROVE Init /\ [][Next]_vars => []FullCallsSuffice
  OBVIOUS
<1>1. Init => PieceInv
  BY PieceInit
<1>2. PieceInv /\ [Next]_vars => PieceInv'
  BY PieceStep
<1>3. QED
  BY <1>1, <1>2, PieceEnough, PTL
-----------------------------------------------------------------------------
(* The types. *)

CountTyped ==
  /\ size \in Nat /\ sender \in 0 .. size + 2 /\ left \in Endless .. Calls(size) + 1
  /\ short \in BOOLEAN
  /\ receiver \in {"header", "piece", "ended", "crashed"}
  /\ file \in Seq(0 .. size) /\ stream \in Seq(0 .. size)

LEMMA CountTypedInit == Sane /\ Init => CountTyped
<1> SUFFICES ASSUME Sane, Init PROVE CountTyped
  OBVIOUS
<1>1. size \in Nat /\ sender = 0 /\ stream = <<>> /\ receiver = "header" /\ left = 0 /\ file = <<>>
  BY DEF Init, Sane
<1>2. Calls(size) \in Nat
  BY <1>1, CallsFacts
<1>3. short \in BOOLEAN
  BY DEF Init
<1>4. QED
  BY <1>1, <1>2, <1>3 DEF CountTyped, Endless

\* What recv leaves of the stream, and what it takes.
LEMMA StreamParts ==
  ASSUME NEW S, stream \in Seq(S), NEW n \in Nat, n <= Len(stream)
  PROVE  SubSeq(stream, 1, n) \in Seq(S) /\ SubSeq(stream, n + 1, Len(stream)) \in Seq(S)
<1>1. Len(stream) \in Nat /\ \A i \in 1 .. Len(stream) : stream[i] \in S
  BY LenProperties, ElementOfSeq
<1>2. \A m \in Int, k \in Int : (\A i \in m .. k : stream[i] \in S) => SubSeq(stream, m, k) \in Seq(S)
  BY SubSeqProperties
<1>3. /\ 1 \in Int /\ n \in Int /\ n + 1 \in Int /\ Len(stream) \in Int
      /\ \A i \in 1 .. n : stream[i] \in S
      /\ \A i \in n + 1 .. Len(stream) : stream[i] \in S
  BY <1>1
<1>4. QED
  BY <1>2, <1>3

LEMMA CountTypedStep == Sane /\ CountTyped /\ [Next]_vars => CountTyped'
<1> SUFFICES ASSUME Sane, CountTyped, [Next]_vars PROVE CountTyped'
  OBVIOUS
<1>1. Buffer \in Nat \ {0} /\ size \in Nat /\ Calls(size) \in Nat
  BY CallsFacts DEF Sane, CountTyped
<1>2. size' = size /\ Calls(size)' = Calls(size)
  BY DEF Next, Client, Server, SendHeader, SendPiece, Close, RecvHeader, RecvPiece, Finish, Break,
     vars, Calls
<1>3. CASE SendHeader
  <2>1. stream' \in Seq(0 .. size)
    <3>1. \A i \in 1 .. Buffer : 0 \in 0 .. size
      BY <1>1
    <3>2. QED
      BY <1>1, <1>3, <3>1, SeqDef DEF SendHeader
  <2>2. QED
    BY <1>1, <1>2, <1>3, <2>1 DEF SendHeader, CountTyped
<1>4. CASE SendPiece
  <2>1. PICK end \in 0 .. size : /\ sender <= end /\ sender \in 1 .. size /\ sender' = end + 1
                                 /\ stream' = stream \o Bytes(sender, end)
    <3>1. /\ sender \in 1 .. size
          /\ LET end == IF sender + Buffer > size THEN size ELSE sender + Buffer - 1
             IN  sender' = end + 1 /\ stream' = stream \o Bytes(sender, end)
      BY <1>4 DEF SendPiece
    <3>2. PICK end \in Int : end = IF sender + Buffer > size THEN size ELSE sender + Buffer - 1
      BY <1>1, <3>1
    <3>3. end \in 0 .. size /\ sender <= end
      BY <1>1, <3>1, <3>2
    <3>4. sender' = end + 1 /\ stream' = stream \o Bytes(sender, end)
      BY <3>1, <3>2
    <3>5. QED
      BY <3>1, <3>3, <3>4
  <2>2. Bytes(sender, end) \in Seq(0 .. size)
    <3>1. PICK n \in Nat : n = end - sender + 1
      BY <2>1
    <3>2. \A i \in 1 .. n : sender + i - 1 \in 0 .. size
      BY <1>1, <2>1, <3>1
    <3>3. Bytes(sender, end) = [i \in 1 .. n |-> sender + i - 1]
      BY <3>1 DEF Bytes
    <3>4. Bytes(sender, end) \in [1 .. n -> 0 .. size]
      BY <3>2, <3>3
    <3>5. QED
      BY <3>1, <3>4, SeqDef
  <2>3. stream' \in Seq(0 .. size)
    BY <2>1, <2>2, ConcatProperties DEF CountTyped
  <2>4. sender' \in 0 .. size + 2
    BY <1>1, <2>1
  <2>5. QED
    BY <1>2, <1>4, <2>3, <2>4 DEF SendPiece, CountTyped
<1>5. CASE Close
  BY <1>1, <1>2, <1>5 DEF Close, Closed, CountTyped
<1>6. CASE RecvHeader
  <2>1. PICK n \in Nat : Received(n) /\ short' = (n < Buffer)
    BY <1>6 DEF RecvHeader
  <2>2. stream' \in Seq(0 .. size)
    BY <2>1, StreamParts DEF Received, CountTyped
  <2>3. short' \in BOOLEAN
    BY <2>1
  <2>4. left' \in Endless .. Calls(size) + 1
    BY <1>1, <1>6 DEF RecvHeader, Endless
  <2>5. QED
    BY <1>1, <1>2, <1>6, <2>2, <2>3, <2>4 DEF RecvHeader, CountTyped
<1>7. CASE RecvPiece
  <2>1. PICK n \in Nat :
          /\ Received(n) /\ file' = file \o SubSeq(stream, 1, n)
          /\ short' = (short \/ (n < Buffer /\ (stream' # <<>> \/ sender # Closed)))
    BY <1>7 DEF RecvPiece
  <2>2. stream' \in Seq(0 .. size) /\ SubSeq(stream, 1, n) \in Seq(0 .. size)
    BY <2>1, StreamParts DEF Received, CountTyped
  <2>3. file' \in Seq(0 .. size)
    BY <2>1, <2>2, ConcatProperties DEF CountTyped
  <2>4. short' \in BOOLEAN
    BY <2>1
  <2>5. left' \in Endless .. Calls(size) + 1
    BY <1>1, <1>7 DEF RecvPiece, CountTyped, Endless
  <2>6. QED
    BY <1>1, <1>2, <1>7, <2>2, <2>3, <2>4, <2>5 DEF RecvPiece, CountTyped
<1>8. CASE Finish
  BY <1>2, <1>8 DEF Finish, CountTyped
<1>9. CASE Break
  BY <1>2, <1>9 DEF Break, CountTyped
<1>10. CASE UNCHANGED vars
  BY <1>2, <1>10 DEF vars, CountTyped
<1>11. QED
  BY <1>3, <1>4, <1>5, <1>6, <1>7, <1>8, <1>9, <1>10 DEF Next, Client, Server

LEMMA CountTypeOK == CountTyped => TypeOK
<1> SUFFICES ASSUME CountTyped PROVE TypeOK
  OBVIOUS
<1>1. file \in Seq(0 .. size) /\ stream \in Seq(0 .. size)
  BY DEF CountTyped
<1>2. /\ \A i \in DOMAIN file : file[i] \in 0 .. size
      /\ \A i \in DOMAIN stream : stream[i] \in 0 .. size
  BY <1>1, ElementOfSeq, LenProperties
<1>3. QED
  BY <1>2 DEF CountTyped, TypeOK, Closed

\* The variables of the upload that counts calls have their types.
THEOREM CountTypeCorrect == Sane => (Init /\ [][Next]_vars => []TypeOK)
<1> SUFFICES ASSUME Sane PROVE Init /\ [][Next]_vars => []TypeOK
  OBVIOUS
<1>1. Init => CountTyped
  BY CountTypedInit
<1>2. CountTyped /\ [Next]_vars => CountTyped'
  BY CountTypedStep
<1>3. QED
  BY <1>1, <1>2, CountTypeOK, PTL
=============================================================================
