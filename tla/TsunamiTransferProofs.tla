------------------------ MODULE TsunamiTransferProofs -------------------------
(***************************************************************************)
(* Proofs about the Tsunami transfer, for every number of blocks, table    *)
(* size, estimate and window, and for every loss, duplication and          *)
(* reordering: the types, what gapless_to_block claims, that no missing    *)
(* block is forgotten, and that a transfer keeps the promise of            *)
(* FileTransfer.                                                           *)
(*                                                                         *)
(* The operators on rx come first, each with a lemma that says what it     *)
(* preserves; then the invariant and its step, one action at a time.       *)
(***************************************************************************)
EXTENDS TsunamiTransfer, FiniteSetTheorems, SequenceTheorems, TLAPS

\* A non-empty set of natural numbers has a least element.
LEMMA LeastElement ==
  ASSUME NEW A \in SUBSET Nat, A # {}
  PROVE  \E h \in A : \A i \in A : h <= i
<1> DEFINE R == OpToRel(<, Nat)
<1>1. \E h \in A : \A i \in A : ~(<<i, h>> \in R)
  <2> HIDE DEF R
  <2>1. IsWellFoundedOn(R, Nat)
    BY NatLessThanWellFounded DEF R
  <2>2. QED
    BY <2>1, WFMin
<1>2. \E h \in A : \A i \in A : ~(i < h)
  BY <1>1 DEF OpToRel
<1>3. QED
  BY <1>2
-----------------------------------------------------------------------------
(* Compacting a sequence. *)

CompactStep(s, drop, f, i) ==
  IF i = 0 THEN <<>>
  ELSE IF s[i] \in drop THEN f[i - 1] ELSE Append(f[i - 1], s[i])

\* The recursive function of Compacted exists and follows its equation.
LEMMA CompactedEquation ==
  ASSUME NEW S, NEW s \in Seq(S), NEW drop
  PROVE  \E f : /\ Compacted(s, drop) = f[Len(s)]
                /\ \A i \in 0 .. Len(s) : f[i] = CompactStep(s, drop, f, i)
<1> DEFINE Solves(f, n) == f = [i \in 0 .. n |-> CompactStep(s, drop, f, i)]
           Unsolved == {n \in 0 .. Len(s) : ~\E f : Solves(f, n)}
<1>1. Unsolved = {}
  <2>1. SUFFICES ASSUME Unsolved # {} PROVE FALSE
    OBVIOUS
  <2>2. PICK n \in Unsolved : \A i \in Unsolved : n <= i
    <3>1. Unsolved \in SUBSET Nat
      OBVIOUS
    <3> HIDE DEF Unsolved
    <3>2. QED
      BY <2>1, <3>1, LeastElement
  <2>3. CASE n = 0
    <3>1. Solves([i \in 0 .. 0 |-> <<>>], 0)
      BY DEF CompactStep
    <3>2. QED
      BY <2>3, <3>1
  <2>4. CASE n # 0
    <3>1. n \in Nat /\ n - 1 \in 0 .. Len(s) /\ n - 1 \notin Unsolved
      BY <2>2, <2>4
    <3>2. PICK f : Solves(f, n - 1)
      BY <3>1
    <3> DEFINE g == [i \in 0 .. n |-> IF i = n THEN CompactStep(s, drop, f, n) ELSE f[i]]
    <3>3. ASSUME NEW i \in 0 .. n PROVE g[i] = CompactStep(s, drop, g, i)
      <4>1. i # 0 => i - 1 \in 0 .. n - 1 /\ g[i - 1] = f[i - 1]
        BY <3>1
      <4>2. ASSUME i # n PROVE f[i] = CompactStep(s, drop, f, i)
        <5>1. i \in 0 .. n - 1
          BY <3>1, <4>2
        <5>2. f = [k \in 0 .. n - 1 |-> CompactStep(s, drop, f, k)]
          BY <3>2, Zenon
        <5> HIDE DEF Solves
        <5>3. QED
          BY <5>1, <5>2, Zenon
      <4>3. g[i] = CompactStep(s, drop, f, i)
        BY <4>2, Zenon
      <4>4. QED
        BY <4>1, <4>3 DEF CompactStep
    <3>4. Solves(g, n)
      BY <3>3
    <3>5. QED
      BY <3>4
  <2>5. QED
    BY <2>3, <2>4
<1>2. PICK f : Solves(f, Len(s))
  BY <1>1
<1> DEFINE h == CHOOSE f1 : Solves(f1, Len(s))
<1>3. Solves(h, Len(s))
  BY <1>2, Zenon
<1>4. Compacted(s, drop) = h[Len(s)]
  BY Zenon DEF Compacted, CompactStep
<1>5. QED
  BY <1>3, <1>4

Entries(s) == {s[i] : i \in DOMAIN s}

LEMMA AppendEntries ==
  ASSUME NEW S, NEW s \in Seq(S), NEW e \in S
  PROVE  Entries(Append(s, e)) = Entries(s) \cup {e}
<1>1. \A i \in 1 .. Len(s) : Append(s, e)[i] = s[i]
  OBVIOUS
<1>2. Append(s, e)[Len(s) + 1] = e /\ DOMAIN Append(s, e) = 1 .. Len(s) + 1
  OBVIOUS
<1>3. QED
  BY <1>1, <1>2 DEF Entries

\* Compacting removes the entries in drop and nothing else.
LEMMA CompactedKeeps ==
  ASSUME NEW S, NEW s \in Seq(S), NEW drop
  PROVE  /\ Compacted(s, drop) \in Seq(S \ drop)
         /\ Len(Compacted(s, drop)) <= Len(s)
         /\ Entries(Compacted(s, drop)) = Entries(s) \ drop
<1>1. PICK f : /\ Compacted(s, drop) = f[Len(s)]
               /\ \A i \in 0 .. Len(s) : f[i] = CompactStep(s, drop, f, i)
  BY CompactedEquation
<1> DEFINE Good(i) == /\ f[i] \in Seq(S \ drop)
                      /\ Len(f[i]) <= i
                      /\ Entries(f[i]) = {s[j] : j \in 1 .. i} \ drop
           Bad == {i \in 0 .. Len(s) : ~Good(i)}
<1>2. Good(0)
  <2>1. f[0] = <<>>
    BY <1>1 DEF CompactStep
  <2>2. QED
    BY <2>1 DEF Entries
<1>3. ASSUME NEW i \in 1 .. Len(s), Good(i - 1) PROVE Good(i)
  <2>1. /\ s[i] \in S /\ i - 1 \in Nat /\ i - 1 + 1 = i
        /\ {s[j] : j \in 1 .. i} = {s[j] : j \in 1 .. i - 1} \cup {s[i]}
    OBVIOUS
  <2>2. f[i] = IF s[i] \in drop THEN f[i - 1] ELSE Append(f[i - 1], s[i])
    BY <1>1 DEF CompactStep
  <2>3. CASE s[i] \in drop
    BY <1>3, <2>1, <2>2, <2>3
  <2>4. CASE s[i] \notin drop
    <3>1. f[i] = Append(f[i - 1], s[i]) /\ s[i] \in S \ drop
      BY <2>1, <2>2, <2>4
    <3>2. f[i] \in Seq(S \ drop) /\ Len(f[i]) <= i
      BY <1>3, <2>1, <3>1
    <3>3. Entries(f[i]) = Entries(f[i - 1]) \cup {s[i]}
      BY <1>3, <3>1, AppendEntries
    <3>4. QED
      BY <1>3, <2>1, <2>4, <3>2, <3>3
  <2>5. QED
    BY <2>3, <2>4
<1>4. Bad = {}
  <2>1. SUFFICES ASSUME Bad # {} PROVE FALSE
    OBVIOUS
  <2>2. PICK i \in Bad : \A k \in Bad : i <= k
    <3>1. Bad \in SUBSET Nat
      OBVIOUS
    <3> HIDE DEF Bad
    <3>2. QED
      BY <2>1, <3>1, LeastElement
  <2> HIDE DEF Good
  <2>3. i # 0 => i \in 1 .. Len(s) /\ i - 1 \in 0 .. Len(s) /\ i - 1 \notin Bad
    BY <2>2
  <2>4. i # 0 => Good(i - 1)
    BY <2>3
  <2>5. QED
    BY <1>2, <1>3, <2>2, <2>3, <2>4
<1>5. Good(Len(s))
  BY <1>4
<1>6. QED
  BY <1>1, <1>5 DEF Entries
-----------------------------------------------------------------------------
(* The operators on rx. *)

RxType ==
  [table : Seq(0 .. Blocks - 1), next : 0 .. Blocks, gapless : 0 .. Blocks,
   pending : BOOLEAN, lastidx : 0 .. Blocks - 1, wireclear : 0 .. Blocks,
   forgotten : SUBSET (0 .. Blocks - 1)]

RxOK(r) == r \in RxType /\ Len(r.table) <= MaxTable

Listed(r) == Entries(r.table) \cup r.forgotten

\* What r claims of the blocks in got, in lossless mode.
Honest(r, got) ==
  mode = "lossless" =>
    1 .. r.gapless \subseteq got /\ 1 .. r.next - 1 \subseteq got \cup Listed(r)

\* The missing blocks of a range are exactly that.
LEMMA MissingBlocksOK ==
  ASSUME NEW got, NEW from \in 0 .. Blocks + 1, NEW to \in 0 .. Blocks - 1
  PROVE  /\ MissingBlocks(got, from, to) \in Seq(0 .. Blocks - 1)
         /\ Entries(MissingBlocks(got, from, to)) = (from .. to) \ got
<1> DEFINE n == IF from <= to THEN to - from + 1 ELSE 0
           range == [i \in 1 .. n |-> from + i - 1]
<1>1. n \in Nat /\ range \in Seq(0 .. Blocks - 1) /\ DOMAIN range = 1 .. n
  BY TransferAssumption
<1>2. Entries(range) = from .. to
  <2>1. ASSUME NEW b \in from .. to PROVE b - from + 1 \in 1 .. n /\ range[b - from + 1] = b
    BY <2>1, TransferAssumption
  <2>2. ASSUME NEW i \in 1 .. n PROVE range[i] \in from .. to
    BY <2>2, TransferAssumption
  <2>3. QED
    BY <1>1, <2>1, <2>2 DEF Entries
<1>3. MissingBlocks(got, from, to) = Compacted(range, got)
  BY DEF MissingBlocks
<1> HIDE DEF range
<1>4. /\ Compacted(range, got) \in Seq((0 .. Blocks - 1) \ got)
      /\ Entries(Compacted(range, got)) = Entries(range) \ got
  BY <1>1, CompactedKeeps
<1>5. Compacted(range, got) \in Seq(0 .. Blocks - 1)
  <2>1. (0 .. Blocks - 1) \ got \subseteq 0 .. Blocks - 1
    OBVIOUS
  <2>2. QED
    BY <1>4, <2>1, TransferAssumption, SeqMonotonic
<1>6. QED
  BY <1>2, <1>3, <1>4, <1>5

\* A request for a range is on the list or recorded as forgotten.
LEMMA RequestedOK ==
  ASSUME NEW r, RxOK(r), NEW got, NEW from \in 0 .. Blocks + 1, NEW to \in 0 .. Blocks - 1
  PROVE  LET q == Requested(r, got, from, to)
         IN /\ RxOK(q)
            /\ q.gapless = r.gapless /\ q.next = r.next
            /\ Listed(q) = Listed(r) \cup ((from .. to) \ got)
<1> DEFINE new == MissingBlocks(got, from, to)
           kept == Lower(Len(new), Room(r))
           t == r.table \o SubSeq(new, 1, kept)
           f == r.forgotten \cup {new[i] : i \in kept + 1 .. Len(new)}
           Q(t1, f1) == [r EXCEPT !.table = t1, !.forgotten = f1]
<1>1. new \in Seq(0 .. Blocks - 1) /\ Entries(new) = (from .. to) \ got
  BY MissingBlocksOK
<1>2. Requested(r, got, from, to) = Q(t, f)
  BY Zenon DEF Requested
<1> HIDE DEF new
<1>3. r.table \in Seq(0 .. Blocks - 1) /\ r.forgotten \subseteq 0 .. Blocks - 1
  BY DEF RxOK, RxType
<1>4. kept \in 0 .. Len(new) /\ Len(r.table) + kept <= MaxTable
  BY <1>1, <1>3, TransferAssumption DEF RxOK, Lower, Room
<1> HIDE DEF kept
<1>5. /\ t \in Seq(0 .. Blocks - 1) /\ Len(t) = Len(r.table) + kept
      /\ Entries(t) = Entries(r.table) \cup {new[i] : i \in 1 .. kept}
  <2>1. SubSeq(new, 1, kept) \in Seq(0 .. Blocks - 1) /\ Len(SubSeq(new, 1, kept)) = kept
    <3>1. \A i \in 1 .. kept : new[i] \in 0 .. Blocks - 1
      BY <1>1, <1>4, TransferAssumption, ElementOfSeq
    <3>2. QED
      BY <1>1, <1>4, <3>1, SubSeqProperties
  <2>2. \A i \in 1 .. kept : SubSeq(new, 1, kept)[i] = new[i]
    BY <1>1, <1>4
  <2>3. t \in Seq(0 .. Blocks - 1) /\ Len(t) = Len(r.table) + kept
    BY <1>3, <2>1
  <2>4. \A i \in 1 .. Len(r.table) : t[i] = r.table[i]
    BY <1>3, <2>1
  <2>5. \A i \in 1 .. kept : t[Len(r.table) + i] = new[i]
    BY <1>3, <2>1, <2>2
  <2> HIDE DEF t
  <2>6. \A j \in 1 .. Len(t) :
          j \in 1 .. Len(r.table) \/ \E i \in 1 .. kept : j = Len(r.table) + i
    <3>1. ASSUME NEW j \in 1 .. Len(t), j \notin 1 .. Len(r.table)
          PROVE  j - Len(r.table) \in 1 .. kept /\ j = Len(r.table) + (j - Len(r.table))
      BY <1>3, <1>4, <2>3, <3>1
    <3>2. QED
      BY <3>1
  <2>7. \A i \in 1 .. kept : Len(r.table) + i \in 1 .. Len(t)
    BY <1>3, <1>4, <2>3
  <2>8. 1 .. Len(r.table) \subseteq 1 .. Len(t)
    BY <1>3, <1>4, <2>3
  <2>9. DOMAIN t = 1 .. Len(t) /\ DOMAIN r.table = 1 .. Len(r.table)
    BY <1>3, <2>3
  <2>10. Entries(t) \subseteq Entries(r.table) \cup {new[i] : i \in 1 .. kept}
    <3>1. SUFFICES ASSUME NEW j \in 1 .. Len(t)
                   PROVE  t[j] \in Entries(r.table) \cup {new[i] : i \in 1 .. kept}
      BY <2>9 DEF Entries
    <3>2. QED
      BY <2>4, <2>5, <2>6, <2>9 DEF Entries
  <2>11. Entries(r.table) \subseteq Entries(t)
    BY <2>4, <2>8, <2>9 DEF Entries
  <2>12. {new[i] : i \in 1 .. kept} \subseteq Entries(t)
    BY <2>5, <2>7, <2>9 DEF Entries
  <2>13. QED
    BY <2>3, <2>10, <2>11, <2>12
<1>6. Entries(new) = {new[i] : i \in 1 .. kept} \cup {new[i] : i \in kept + 1 .. Len(new)}
  BY <1>1, <1>4 DEF Entries
<1>7. f \subseteq 0 .. Blocks - 1
  <2>1. \A i \in kept + 1 .. Len(new) : new[i] \in 0 .. Blocks - 1
    BY <1>1, <1>4, TransferAssumption, ElementOfSeq
  <2>2. QED
    BY <1>3, <2>1
<1> HIDE DEF t, f
<1>8. \A t1 \in Seq(0 .. Blocks - 1) : \A f1 \in SUBSET (0 .. Blocks - 1) :
        /\ Q(t1, f1) \in RxType /\ Q(t1, f1).table = t1 /\ Q(t1, f1).forgotten = f1
        /\ Q(t1, f1).gapless = r.gapless /\ Q(t1, f1).next = r.next
  BY DEF RxOK, RxType
<1> HIDE DEF Q
<1>9. /\ Q(t, f) \in RxType /\ Q(t, f).table = t /\ Q(t, f).forgotten = f
      /\ Q(t, f).gapless = r.gapless /\ Q(t, f).next = r.next
  BY <1>5, <1>7, <1>8
<1>10. Listed(Q(t, f)) = Listed(r) \cup Entries(new)
  BY <1>5, <1>6, <1>9 DEF Listed, f
<1>11. QED
  BY <1>1, <1>2, <1>4, <1>5, <1>9, <1>10 DEF RxOK

LEMMA OutstandingOK ==
  ASSUME NEW r, RxOK(r), NEW got
  PROVE  /\ Outstanding(r, got) \in Seq(1 .. Blocks - 1)
         /\ Len(Outstanding(r, got)) <= Len(r.table)
         /\ Entries(Outstanding(r, got)) = Entries(r.table) \ (got \cup {0})
<1> DEFINE wanted == Compacted(r.table, got \cup {0})
<1>1. /\ wanted \in Seq((0 .. Blocks - 1) \ (got \cup {0})) /\ Len(wanted) <= Len(r.table)
      /\ Entries(wanted) = Entries(r.table) \ (got \cup {0})
  BY CompactedKeeps DEF RxOK, RxType
<1> HIDE DEF wanted
<1>2. wanted \in Seq(1 .. Blocks - 1)
  <2>1. (0 .. Blocks - 1) \ (got \cup {0}) \subseteq 1 .. Blocks - 1
    BY TransferAssumption
  <2>2. QED
    BY <1>1, <2>1, TransferAssumption, SeqMonotonic
<1>3. QED
  BY <1>1, <1>2 DEF wanted, Outstanding

\* Repeating keeps what is missing on the list, and a restart needs no list:
\* everything below its block has been received.
LEMMA RepeatedOK ==
  ASSUME NEW r, RxOK(r), NEW got, Honest(r, got)
  PROVE  RxOK(Repeated(r, got)) /\ Honest(Repeated(r, got), got)
<1> DEFINE wanted == Outstanding(r, got)
           At == RestartAt(r)
           last == r.table[Len(r.table)]
           clear == Lower(Blocks, last + OnWire)
           A == [r EXCEPT !.table = wanted]
           Restarted(n, l, c) == [r EXCEPT !.table = <<>>, !.next = n, !.pending = TRUE,
                                           !.lastidx = l, !.wireclear = c, !.forgotten = {}]
           B == Restarted(At, last, clear)
<1>1. /\ wanted \in Seq(1 .. Blocks - 1) /\ Len(wanted) <= Len(r.table)
      /\ Entries(wanted) = Entries(r.table) \ (got \cup {0})
  BY OutstandingOK
<1>2. r \in RxType /\ Len(r.table) \in Nat /\ Len(r.table) <= MaxTable
  BY DEF RxOK, RxType
<1> HIDE DEF wanted
<1>3. CASE ~TooMany(r, got)
  <2>1. Repeated(r, got) = A
    BY <1>3 DEF Repeated, wanted
  <2>2. wanted \in Seq(0 .. Blocks - 1)
    <3>1. 1 .. Blocks - 1 \subseteq 0 .. Blocks - 1
      BY TransferAssumption
    <3>2. QED
      BY <1>1, <3>1, TransferAssumption, SeqMonotonic
  <2>3. /\ A \in RxType /\ A.table = wanted /\ A.next = r.next
        /\ A.gapless = r.gapless /\ A.forgotten = r.forgotten
    BY <1>2, <2>2 DEF RxType
  <2> HIDE DEF A
  <2>4. RxOK(A)
    BY <1>1, <1>2, <2>3, TransferAssumption DEF RxOK
  <2>5. Honest(A, got)
    <3>1. Listed(A) = (Entries(r.table) \ (got \cup {0})) \cup r.forgotten
      BY <1>1, <2>3 DEF Listed
    <3>2. 0 \notin 1 .. r.next - 1
      BY <1>2 DEF RxType
    <3>3. QED
      BY <2>3, <3>1, <3>2 DEF Honest, Listed
  <2>6. QED
    BY <2>1, <2>4, <2>5
<1>4. CASE TooMany(r, got)
  <2>1. Repeated(r, got) = B
    BY <1>4, Zenon DEF Repeated
  <2>2. Len(r.table) \in 1 .. MaxTable /\ last \in 0 .. Blocks - 1
    <3>1. Len(wanted) >= 1
      BY <1>1, <1>4, TransferAssumption DEF TooMany, wanted
    <3>2. Len(r.table) \in 1 .. MaxTable
      BY <1>1, <1>2, <3>1, TransferAssumption
    <3>3. QED
      BY <1>2, <3>2, TransferAssumption, ElementOfSeq DEF RxType
  <2>3. At \in 0 .. Blocks /\ At - 1 <= r.gapless
    BY <1>2, TransferAssumption DEF RestartAt, Lower, RxType
  <2>4. clear \in 0 .. Blocks
    BY <2>2, TransferAssumption DEF Lower
  <2> HIDE DEF At, last, clear
  <2>5. /\ B \in RxType /\ B.table = <<>> /\ B.next = At
        /\ B.gapless = r.gapless /\ B.forgotten = {}
    <3>1. \A n \in 0 .. Blocks, l \in 0 .. Blocks - 1, c \in 0 .. Blocks :
            /\ Restarted(n, l, c) \in RxType /\ Restarted(n, l, c).table = <<>>
            /\ Restarted(n, l, c).next = n /\ Restarted(n, l, c).gapless = r.gapless
            /\ Restarted(n, l, c).forgotten = {}
      <4>1. <<>> \in Seq(0 .. Blocks - 1) /\ {} \in SUBSET (0 .. Blocks - 1)
        BY TransferAssumption
      <4>2. QED
        BY <1>2, <4>1, TransferAssumption DEF RxType
    <3> HIDE DEF Restarted
    <3>2. QED
      BY <2>2, <2>3, <2>4, <3>1
  <2> HIDE DEF B
  <2>6. RxOK(B)
    BY <2>5, TransferAssumption DEF RxOK
  <2>7. Honest(B, got)
    <3>1. 1 .. B.next - 1 \subseteq 1 .. r.gapless
      BY <1>2, <2>3, <2>5 DEF RxType
    <3>2. QED
      BY <2>5, <3>1 DEF Honest
  <2>8. QED
    BY <2>1, <2>6, <2>7
<1>5. QED
  BY <1>3, <1>4

\* A request the server can answer.
Answerable == {q \in Request : q.type = "retransmit" => q.block \in 1 .. Blocks - 1}

LEMMA SentOK ==
  ASSUME NEW r, RxOK(r), NEW got
  PROVE  Sent(r, got) \in Seq(Answerable)
<1>1. CASE TooMany(r, got)
  <2>1. [type |-> "restart", block |-> RestartAt(r)] \in Answerable
    BY TransferAssumption DEF Answerable, Request, RestartAt, Lower, RxOK, RxType
  <2>2. QED
    BY <1>1, <2>1 DEF Sent
<1>2. CASE ~TooMany(r, got)
  <2> DEFINE wanted == Outstanding(r, got)
  <2>1. wanted \in Seq(1 .. Blocks - 1)
    BY OutstandingOK
  <2> HIDE DEF wanted
  <2>2. \A i \in 1 .. Len(wanted) :
          [type |-> "retransmit", block |-> wanted[i]] \in Answerable
    <3>1. \A b \in 1 .. Blocks - 1 : [type |-> "retransmit", block |-> b] \in Answerable
      BY TransferAssumption DEF Answerable, Request
    <3>2. QED
      BY <2>1, <3>1, TransferAssumption, ElementOfSeq
  <2>3. Sent(r, got) = [i \in 1 .. Len(wanted) |-> [type |-> "retransmit", block |-> wanted[i]]]
    BY <1>2, Zenon DEF Sent, wanted
  <2>4. QED
    BY <2>1, <2>2, <2>3
<1>3. QED
  BY <1>1, <1>2

\* The run of received blocks after g ends at a block of the file.
LEMMA GaplessFromOK ==
  ASSUME NEW g \in 0 .. Blocks, NEW got
  PROVE  /\ GaplessFrom(g, got) \in g .. Blocks
         /\ g + 1 .. GaplessFrom(g, got) \subseteq got
<1> DEFINE RunEnds == {h \in g .. Blocks : h = Blocks \/ h + 1 \notin got}
           Fits(i) == i \in g .. Blocks /\ g + 1 .. i \subseteq got
                        /\ (i = Blocks \/ i + 1 \notin got)
<1>1. PICK h \in RunEnds : \A i \in RunEnds : h <= i
  <2>1. RunEnds \in SUBSET Nat /\ RunEnds # {}
    BY TransferAssumption
  <2> HIDE DEF RunEnds
  <2>2. QED
    BY <2>1, LeastElement
<1>2. g + 1 .. h \subseteq got
  <2>1. SUFFICES ASSUME NEW j \in g + 1 .. h, j \notin got PROVE FALSE
    OBVIOUS
  <2>2. j - 1 \in RunEnds /\ j - 1 < h
    BY <2>1, TransferAssumption
  <2>3. QED
    BY <1>1, <2>2
<1>3. Fits(h)
  BY <1>1, <1>2
<1>4. Fits(CHOOSE i : Fits(i))
  BY <1>3, Zenon
<1>5. GaplessFrom(g, got) = CHOOSE i : Fits(i)
  BY Zenon DEF GaplessFrom
<1>6. QED
  BY <1>4, <1>5

\* Queueing the requests for a gap covers all of it in lossless mode; only the
\* two lossy modes move gapless_to_block past it.
LEMMA GapQueuedOK ==
  ASSUME NEW r, RxOK(r), NEW got, Honest(r, got), NEW d \in Datagram,
         mode \in {"lossless", "lossy", "window"}, NEW q \in GapQueued(r, d, got)
  PROVE  /\ RxOK(q) /\ Honest(q, got)
         /\ mode = "lossless" => 1 .. d.block - 1 \subseteq got \cup Listed(q)
<1>1. r \in RxType /\ d.block \in 1 .. Blocks /\ d.block - 1 \in 0 .. Blocks - 1
  BY TransferAssumption DEF RxOK, Datagram
<1>2. CASE d.block <= r.next
  <2>1. q = r
    BY <1>2 DEF GapQueued
  <2>2. 1 .. d.block - 1 \subseteq 1 .. r.next - 1
    BY <1>1, <1>2 DEF RxType
  <2>3. QED
    BY <2>1, <2>2 DEF Honest
<1>3. CASE ~(d.block <= r.next) /\ mode = "lossless"
  <2>1. q = Requested(r, got, r.next, d.block - 1)
    BY <1>3 DEF GapQueued
  <2>2. r.next \in 0 .. Blocks /\ r.next \in 0 .. Blocks + 1
    BY <1>1, TransferAssumption DEF RxType
  <2>3. /\ RxOK(q) /\ q.gapless = r.gapless /\ q.next = r.next
        /\ Listed(q) = Listed(r) \cup ((r.next .. d.block - 1) \ got)
    <3>1. \A f \in 0 .. Blocks + 1, t \in 0 .. Blocks - 1 :
            LET p == Requested(r, got, f, t)
            IN /\ RxOK(p) /\ p.gapless = r.gapless /\ p.next = r.next
               /\ Listed(p) = Listed(r) \cup ((f .. t) \ got)
      BY RequestedOK
    <3>2. QED
      BY <1>1, <2>1, <2>2, <3>1
  <2>4. 1 .. d.block - 1 \subseteq (1 .. r.next - 1) \cup (r.next .. d.block - 1)
    BY <1>1, <2>2
  <2>5. QED
    BY <1>3, <2>3, <2>4 DEF Honest
<1>4. CASE ~(d.block <= r.next) /\ mode = "lossy"
  <2>1. q = [r EXCEPT !.gapless = d.block]
    BY <1>4 DEF GapQueued
  <2>2. RxOK(q)
    <3>1. q \in RxType
      <4>1. \A g \in 0 .. Blocks : [r EXCEPT !.gapless = g] \in RxType
        BY <1>1 DEF RxType
      <4>2. QED
        BY <1>1, <2>1, <4>1, TransferAssumption
    <3>2. q.table = r.table
      BY <1>1, <2>1 DEF RxType
    <3>3. QED
      BY <3>1, <3>2 DEF RxOK
  <2>3. QED
    BY <1>4, <2>2 DEF Honest
<1>5. CASE ~(d.block <= r.next) /\ mode = "window"
  <2>1. PICK e \in Earliest(r, d) :
          q = [Requested(r, got, e, d.block - 1) EXCEPT !.next = e, !.gapless = e]
    BY <1>5 DEF GapQueued
  <2>2. e \in 0 .. Blocks /\ e \in 0 .. Blocks + 1
    BY <1>1, TransferAssumption DEF Earliest
  <2> DEFINE p == Requested(r, got, e, d.block - 1)
  <2>3. RxOK(p)
    BY <1>1, <2>2, RequestedOK
  <2> HIDE DEF p
  <2>4. RxOK([p EXCEPT !.next = e, !.gapless = e])
    BY <2>2, <2>3, TransferAssumption DEF RxOK, RxType
  <2>5. QED
    BY <1>5, <2>1, <2>4 DEF Honest, p
<1>6. QED
  BY <1>2, <1>3, <1>4, <1>5

\* Moving on past a received block whose predecessors are received or requested.
LEMMA AdvancedOK ==
  ASSUME NEW r, RxOK(r), NEW got, Honest(r, got), NEW d \in Datagram, d.block \in got,
         mode = "lossless" => 1 .. d.block - 1 \subseteq got \cup Listed(r)
  PROVE  RxOK(Advanced(r, d, got)) /\ Honest(Advanced(r, d, got), got)
<1> DEFINE next == IF d.type = Original THEN d.block + 1 ELSE r.next
           gapless == GaplessFrom(r.gapless, got)
           Q(g, n, p) == [r EXCEPT !.gapless = g, !.next = n, !.pending = p]
           A == Q(gapless, next, r.pending /\ next < r.lastidx)
<1>1. r \in RxType /\ d.block \in 1 .. Blocks
      /\ (d.type = Original => d.block + 1 \in 1 .. Blocks)
  BY TransferAssumption DEF RxOK, Datagram, Original, Terminate
<1>2. gapless \in r.gapless .. Blocks /\ r.gapless + 1 .. gapless \subseteq got
  BY <1>1, GaplessFromOK DEF RxType
<1> HIDE DEF gapless
<1>3. Advanced(r, d, got) = A
  BY Zenon DEF Advanced, gapless
<1>4. /\ A \in RxType /\ A.gapless = gapless /\ A.next = next
      /\ A.table = r.table /\ A.forgotten = r.forgotten
  <2>1. gapless \in 0 .. Blocks /\ next \in 0 .. Blocks
    BY <1>1, <1>2, TransferAssumption DEF RxType
  <2>2. \A g \in 0 .. Blocks, n \in 0 .. Blocks, p \in BOOLEAN :
          /\ Q(g, n, p) \in RxType /\ Q(g, n, p).gapless = g /\ Q(g, n, p).next = n
          /\ Q(g, n, p).table = r.table /\ Q(g, n, p).forgotten = r.forgotten
    BY <1>1, TransferAssumption DEF RxType
  <2> HIDE DEF Q
  <2>3. (r.pending /\ next < r.lastidx) \in BOOLEAN
    OBVIOUS
  <2> HIDE DEF next
  <2>4. QED
    BY <2>1, <2>2, <2>3, Zenon
<1> HIDE DEF A
<1>5. RxOK(A)
  BY <1>4 DEF RxOK
<1>6. ASSUME mode = "lossless" PROVE 1 .. A.gapless \subseteq got
  <2>1. 1 .. gapless \subseteq (1 .. r.gapless) \cup (r.gapless + 1 .. gapless)
    BY <1>1, <1>2 DEF RxType
  <2>2. QED
    BY <1>2, <1>4, <1>6, <2>1 DEF Honest
<1>7. ASSUME mode = "lossless" PROVE 1 .. A.next - 1 \subseteq got \cup Listed(A)
  <2>1. Listed(A) = Listed(r)
    BY <1>4 DEF Listed
  <2>2. CASE d.type = Original
    <3>1. 1 .. A.next - 1 \subseteq (1 .. d.block - 1) \cup {d.block}
      BY <1>1, <1>4, <2>2
    <3>2. QED
      BY <1>7, <2>1, <3>1
  <2>3. CASE d.type # Original
    BY <1>4, <1>7, <2>1, <2>3 DEF Honest
  <2>4. QED
    BY <2>2, <2>3
<1>8. QED
  BY <1>3, <1>5, <1>6, <1>7 DEF Honest
-----------------------------------------------------------------------------
(* The invariant and its step. *)

TransferInv ==
  /\ mode \in {"lossless", "lossy", "window"} /\ client \in {"get", "stopped"}
  /\ received \subseteq 1 .. Blocks
  /\ RxOK(rx) /\ Honest(rx, received)
  /\ ctl \in Seq(Answerable) /\ wire \subseteq Datagram
  /\ server \in {"sending", "stopped", "gone"} /\ block \in 0 .. Blocks

\* What the client leaves in rx and ctl is as good as what it works on.
LEMMA SendStatsOK ==
  ASSUME NEW r, RxOK(r), NEW got, Honest(r, got), ctl \in Seq(Answerable),
         NEW sent \in Seq(Answerable), SendStats(r, got, sent)
  PROVE  RxOK(rx') /\ Honest(rx', got) /\ ctl' \in Seq(Answerable)
<1>1. CASE rx' = r /\ ctl' = ctl \o sent
  BY <1>1
<1>2. CASE rx' = Repeated(r, got) /\ ctl' = ctl \o sent \o Sent(r, got)
  <2>1. ctl' \in Seq(Answerable)
    BY <1>2, SentOK
  <2>2. QED
    BY <1>2, <2>1, RepeatedOK
<1>3. QED
  BY <1>1, <1>2 DEF SendStats

\* At the end block all that is missing is asked for.
LEMMA AtEndOK ==
  ASSUME NEW r, RxOK(r), NEW got, Honest(r, got), ctl \in Seq(Answerable),
         client \in {"get", "stopped"}, AtEnd(r, got)
  PROVE  /\ RxOK(rx') /\ Honest(rx', got) /\ ctl' \in Seq(Answerable)
         /\ client' \in {"get", "stopped"}
<1>1. CASE Leaves(r, got)
  <2>1. [type |-> "stop", block |-> 0] \in Answerable
    BY TransferAssumption DEF Answerable, Request
  <2>2. QED
    BY <1>1, <2>1 DEF AtEnd
<1>2. CASE ~Leaves(r, got)
  <2> DEFINE asked == Requested(r, got, r.gapless + 1, Blocks - 1)
  <2>1. SendStats(Repeated(asked, got), got, Sent(asked, got)) /\ UNCHANGED client
    BY <1>2 DEF AtEnd
  <2>2. RxOK(asked) /\ Honest(asked, got)
    <3>1. r.gapless + 1 \in 0 .. Blocks + 1 /\ Blocks - 1 \in 0 .. Blocks - 1
      BY TransferAssumption DEF RxOK, RxType
    <3>2. \A f \in 0 .. Blocks + 1, t \in 0 .. Blocks - 1 :
            LET p == Requested(r, got, f, t)
            IN /\ RxOK(p) /\ p.gapless = r.gapless /\ p.next = r.next
               /\ Listed(p) = Listed(r) \cup ((f .. t) \ got)
      BY RequestedOK
    <3>3. RxOK(asked) /\ asked.gapless = r.gapless /\ asked.next = r.next
          /\ Listed(r) \subseteq Listed(asked)
      BY <3>1, <3>2
    <3>4. QED
      BY <3>3 DEF Honest
  <2> HIDE DEF asked
  <2>3. /\ RxOK(Repeated(asked, got)) /\ Honest(Repeated(asked, got), got)
        /\ Sent(asked, got) \in Seq(Answerable)
    BY <2>2, RepeatedOK, SentOK
  <2>4. QED
    BY <2>1, <2>3, SendStatsOK
<1>3. QED
  BY <1>1, <1>2

LEMMA InitIsInv == Init => TransferInv
<1>1. SUFFICES ASSUME Init PROVE TransferInv
  OBVIOUS
<1>2. RxOK(rx)
  <2>1. <<>> \in Seq(0 .. Blocks - 1) /\ {} \in SUBSET (0 .. Blocks - 1)
    BY TransferAssumption
  <2>2. QED
    BY <1>1, <2>1, TransferAssumption DEF Init, RxOK, RxType
<1>3. Honest(rx, received)
  BY <1>1 DEF Init, Honest
<1>4. QED
  BY <1>1, <1>2, <1>3, TransferAssumption DEF Init, TransferInv

LEMMA TransmitStep == TransferInv /\ Transmit => TransferInv'
<1>1. SUFFICES ASSUME TransferInv, Transmit PROVE TransferInv'
  OBVIOUS
<1>2. block' \in 1 .. Blocks
  BY <1>1, TransferAssumption DEF TransferInv, Transmit, Lower
<1>3. [block |-> block', type |-> IF block' = Blocks THEN Terminate ELSE Original] \in Datagram
  BY <1>2, TransferAssumption DEF Datagram
<1>4. QED
  BY <1>1, <1>2, <1>3 DEF TransferInv, Transmit, Honest, Listed, Entries, RxOK

LEMMA ServeStep == TransferInv /\ Serve => TransferInv'
<1>1. SUFFICES ASSUME TransferInv, Serve PROVE TransferInv'
  OBVIOUS
<1>2. Head(ctl) \in Answerable /\ ctl' \in Seq(Answerable)
  BY <1>1 DEF TransferInv, Serve
<1>3. block' \in 0 .. Blocks /\ server' \in {"sending", "stopped", "gone"}
  BY <1>1, <1>2 DEF TransferInv, Serve, Answerable, Request
<1>4. wire' \subseteq Datagram
  <2>1. \A b \in 1 .. Blocks - 1 : [block |-> b, type |-> Retransmission] \in Datagram
    BY DEF Datagram
  <2>2. QED
    BY <1>1, <1>2, <2>1 DEF TransferInv, Serve, Answerable
<1>5. QED
  BY <1>1, <1>2, <1>3, <1>4 DEF TransferInv, Serve, Honest, Listed, Entries, RxOK

LEMMA IgnoreStep == ASSUME NEW d, TransferInv, Ignore(d) PROVE TransferInv'
<1>1. RxOK(rx') /\ Honest(rx', received) /\ ctl' \in Seq(Answerable)
  <2>1. /\ RxOK(rx) /\ Honest(rx, received) /\ ctl \in Seq(Answerable)
        /\ <<>> \in Seq(Answerable) /\ SendStats(rx, received, <<>>)
    BY DEF TransferInv, Ignore
  <2>2. QED
    BY <2>1, SendStatsOK
<1>2. wire' \subseteq Datagram
  BY DEF TransferInv, Ignore, Read
<1>3. QED
  BY <1>1, <1>2 DEF TransferInv, Ignore, Read, Honest, Listed, Entries, RxOK

LEMMA HandleStep == ASSUME NEW d, TransferInv, Handle(d) PROVE TransferInv'
<1> DEFINE got == received \cup {d.block}
<1>1. /\ d \in Datagram /\ wire' \subseteq Datagram
      /\ UNCHANGED <<mode, server, block>> /\ received' = got
  BY DEF TransferInv, Handle, Read
<1>2. d.block \in 1 .. Blocks
  BY <1>1, TransferAssumption DEF Datagram
<1>3. RxOK(rx) /\ Honest(rx, got)
  BY DEF TransferInv, Honest
<1>4. ctl \in Seq(Answerable) /\ <<>> \in Seq(Answerable) /\ client \in {"get", "stopped"}
  BY DEF TransferInv
<1>5. RxOK(rx') /\ Honest(rx', got) /\ ctl' \in Seq(Answerable) /\ client' \in {"get", "stopped"}
  <2>1. CASE StillOnWire(d)
    <3>1. SendStats(rx, got, <<>>) /\ UNCHANGED client
      BY <1>1, <2>1 DEF Handle
    <3>2. QED
      BY <1>3, <1>4, <3>1, SendStatsOK
  <2>2. CASE ~StillOnWire(d)
    <3>1. PICK queued \in GapQueued(rx, d, got) :
            LET r == Advanced(queued, d, got)
            IN \/ SendStats(r, got, <<>>) /\ UNCHANGED client
               \/ AtEnd(r, got)
      BY <1>1, <2>2 DEF Handle
    <3> DEFINE r == Advanced(queued, d, got)
    <3>2. /\ RxOK(queued) /\ Honest(queued, got)
          /\ mode = "lossless" => 1 .. d.block - 1 \subseteq got \cup Listed(queued)
      BY <1>1, <1>3, GapQueuedOK DEF TransferInv
    <3>3. RxOK(r) /\ Honest(r, got)
      BY <1>1, <3>2, AdvancedOK
    <3> HIDE DEF r
    <3>4. CASE SendStats(r, got, <<>>) /\ UNCHANGED client
      BY <1>4, <3>3, <3>4, SendStatsOK
    <3>5. CASE AtEnd(r, got)
      BY <1>4, <3>3, <3>5, AtEndOK
    <3>6. QED
      BY <3>1, <3>4, <3>5 DEF r
  <2>3. QED
    BY <2>1, <2>2
<1>6. QED
  BY <1>1, <1>2, <1>5 DEF TransferInv, Honest, Listed, Entries, RxOK

LEMMA NextIsInv == TransferInv /\ [Next]_vars => TransferInv'
<1>1. SUFFICES ASSUME TransferInv, [Next]_vars PROVE TransferInv'
  OBVIOUS
<1>2. CASE Transmit
  BY <1>1, <1>2, TransmitStep
<1>3. CASE Serve
  BY <1>1, <1>3, ServeStep
<1>4. CASE HeartbeatLost
  BY <1>1, <1>4 DEF TransferInv, HeartbeatLost, Honest, Listed, Entries, RxOK
<1>5. ASSUME NEW d \in wire, Lose(d) PROVE TransferInv'
  BY <1>1, <1>5 DEF TransferInv, Lose, Honest, Listed, Entries, RxOK
<1>6. ASSUME NEW d \in wire, Ignore(d) PROVE TransferInv'
  BY <1>1, <1>6, IgnoreStep
<1>7. ASSUME NEW d \in wire, Handle(d) PROVE TransferInv'
  BY <1>1, <1>7, HandleStep
<1>8. CASE UNCHANGED vars
  BY <1>1, <1>8 DEF TransferInv, vars, Honest, Listed, Entries, RxOK
<1>9. QED
  BY <1>1, <1>2, <1>3, <1>4, <1>5, <1>6, <1>7, <1>8 DEF Next
-----------------------------------------------------------------------------
(* The theorems. *)

THEOREM TransferInvariant == Spec => []TransferInv
  BY InitIsInv, NextIsInv, PTL DEF Spec

\* The requests stay within the table and name blocks of the file.
THEOREM TransferTypeCorrect == Spec => []TypeOK
<1>1. TransferInv => TypeOK
  <2>1. SUFFICES ASSUME TransferInv PROVE TypeOK
    OBVIOUS
  <2>2. ctl \in Seq(Request)
    <3>1. Answerable \subseteq Request
      BY DEF Answerable
    <3>2. QED
      BY <2>1, <3>1, SeqMonotonic DEF TransferInv
  <2>3. QED
    BY <2>1, <2>2 DEF TransferInv, TypeOK, RxOK, RxType
<1>2. QED
  BY <1>1, TransferInvariant, PTL

\* The block a restart goes on from has nothing missing below it.
THEOREM GaplessIsHonest == Spec => []GaplessIsWhole
<1>1. TransferInv => GaplessIsWhole
  BY DEF TransferInv, GaplessIsWhole, Honest
<1>2. QED
  BY <1>1, TransferInvariant, PTL

\* A missing block that was passed is asked for, or was dropped at the limit.
THEOREM NothingMissingIsForgotten == Spec => []MissingIsRequested
<1>1. TransferInv => MissingIsRequested
  <2>1. ASSUME TransferInv PROVE Entries(rx.table) = {rx.table[i] : i \in DOMAIN rx.table}
    BY DEF Entries
  <2>2. QED
    BY <2>1 DEF TransferInv, MissingIsRequested, Honest, Listed
<1>2. QED
  BY <1>1, TransferInvariant, PTL

\* As many blocks as the file has are all of them.
LEMMA AllReceived ==
  ASSUME NEW got \in SUBSET (1 .. Blocks), Cardinality(got) = Blocks
  PROVE  got = 1 .. Blocks
<1>1. IsFiniteSet(1 .. Blocks) /\ Cardinality(1 .. Blocks) = Blocks
  BY TransferAssumption, FS_Interval
<1>2. QED
  BY <1>1, FS_Subset

\* Only Handle takes a block or ends the transfer, and in lossless mode it ends
\* it with all of them.
LEMMA HandleOutcome ==
  ASSUME NEW d, TransferInv, Handle(d)
  PROVE  /\ client = "get" /\ mode' = mode
         /\ d.block \in 1 .. Blocks /\ received' = received \cup {d.block}
         /\ \/ client' = "get"
            \/ client' = "stopped" /\ (mode = "lossless" => received' = 1 .. Blocks)
<1>1. /\ client = "get" /\ mode' = mode /\ received' = received \cup {d.block}
      /\ d.block \in 1 .. Blocks
  BY TransferAssumption DEF TransferInv, Handle, Read, Datagram
<1>2. \/ client' = client
      \/ client' = "stopped" /\ (mode = "lossless" => Cardinality(received') = Blocks)
  BY DEF Handle, AtEnd, Leaves
<1>3. received' \in SUBSET (1 .. Blocks)
  BY <1>1 DEF TransferInv
<1>4. Cardinality(received') = Blocks => received' = 1 .. Blocks
  BY <1>3, AllReceived
<1>5. QED
  BY <1>1, <1>2, <1>4

\* A lossless transfer never ends with a block missing, and takes none later:
\* every step is a step of FileTransfer or none of its business.
THEOREM TransferKeepsPromise == Spec => KeepsPromise
<1>1. Init => Promise!Init
  BY DEF Init, Promise!Init
<1>2. TransferInv /\ [Next]_vars => [Promise!Next]_Promise!vars
  <2>1. SUFFICES ASSUME TransferInv, [Next]_vars PROVE [Promise!Next]_Promise!vars
    OBVIOUS
  <2>2. CASE UNCHANGED <<mode, received, client>>
    BY <2>2 DEF Promise!vars
  <2>3. ASSUME NEW d \in wire, Handle(d) PROVE Promise!Next
    <3>1. /\ client = "get" /\ mode' = mode
          /\ d.block \in 1 .. Blocks /\ received' = received \cup {d.block}
          /\ \/ client' = "get"
             \/ client' = "stopped" /\ (mode = "lossless" => received' = 1 .. Blocks)
      BY <2>1, <2>3, HandleOutcome
    <3>2. CASE client' = "get"
      BY <3>1, <3>2 DEF Promise!Next, Promise!Arrive
    <3>3. CASE client' = "stopped" /\ (mode = "lossless" => received' = 1 .. Blocks)
      BY <3>1, <3>3 DEF Promise!Next, Promise!Finish
    <3>4. QED
      BY <3>1, <3>2, <3>3
  <2>4. QED
    BY <2>1, <2>2, <2>3
    DEF Next, vars, Transmit, Serve, HeartbeatLost, Lose, Ignore, Read
<1>3. QED
  BY <1>1, <1>2, TransferInvariant, PTL DEF Spec, KeepsPromise, Promise!Spec
=============================================================================
