------------------------ MODULE TsunamiSessionProofs -------------------------
(***************************************************************************)
(* Proofs about the Tsunami session, for every number of connections and   *)
(* files, for whatever the server lists, with and without --allhook, for   *)
(* every pair of revisions and every kind of failure.                      *)
(*                                                                         *)
(* InStep says what the head of a queue may be.  What a reader leaves      *)
(* behind it must be right as well, so the invariant gives, for each       *)
(* state of the client and of its child, all that is on the connection     *)
(* (Dialogue); a session the client has left holds at most what the child  *)
(* had still to read (Orphan).  That much is lost when something fails in  *)
(* the session: what keeps late blocks out is then what a client can rely  *)
(* on whatever the child does (Live), above all that a reply on its way is *)
(* the only message there is, from a child that has the wanted file open.  *)
(*                                                                         *)
(* Facts about queues come first, then the invariant, then its step: the   *)
(* child's actions, the client's, the commands that open and close a       *)
(* session, and the theorems.                                              *)
(***************************************************************************)
EXTENDS TsunamiSession, SequenceTheorems, TLAPS

\* What a message carries; a list of names is never sent empty.
Plain == Files \cup {None, "*", "!#DIR??"} \cup Revisions \cup {Revision}
         \cup BOOLEAN \cup Nat
Message == [kind : Kinds \ {"names"}, value : Plain]
           \cup [kind : {"names"}, value : Seq(Files) \ {<<>>}]

\* What is in a queue: a kind anywhere; exactly one, two or three messages of
\* these kinds; the value of the last; a kind at most at the end.
Has(q, k) == \E i \in 1 .. Len(q) : q[i].kind = k
One(q, j) == Len(q) = 1 /\ q[1].kind = j
Two(q, j, k) == Len(q) = 2 /\ q[1].kind = j /\ q[2].kind = k
Three(q, j, k, l) ==
    Len(q) = 3 /\ q[1].kind = j /\ q[2].kind = k /\ q[3].kind = l
Ends(q, v) == q[Len(q)].value = v
OnlyLast(q, k) == \A i \in 1 .. Len(q) - 1 : q[i].kind # k

\* A queue of length zero is the empty one.
LEMMA LenZero ==
  ASSUME NEW q \in Seq(Message)
  PROVE  Len(q) \in Nat /\ (Len(q) = 0 <=> q = <<>>)
  BY EmptySeq

\* There is nothing in an empty queue.
LEMMA NothingHas ==
  ASSUME NEW q, q = <<>>
  PROVE  \A j : ~Has(q, j)
  BY EmptySeq DEF Has

\* The first of one, two or three messages, and what is left behind it.
LEMMA KindFactsAll ==
  ASSUME NEW q \in Seq(Message), NEW j, NEW k, NEW l
  PROVE  /\ One(q, j) => q # <<>> /\ Head(q).kind = j /\ Tail(q) = <<>>
         /\ Two(q, j, k) => q # <<>> /\ Head(q).kind = j /\ One(Tail(q), k)
         /\ Three(q, j, k, l) =>
              q # <<>> /\ Head(q).kind = j /\ Two(Tail(q), k, l)
         /\ q # <<>> => Has(q, Head(q).kind)
         /\ q = <<>> => ~Has(q, j)
<1>1. Len(q) \in Nat /\ (Len(q) = 0 <=> q = <<>>)
  BY LenZero
<1>2. ASSUME q # <<>>
      PROVE  /\ Head(q) = q[1] /\ Tail(q) \in Seq(Message)
             /\ Len(Tail(q)) = Len(q) - 1
             /\ \A i \in 1 .. Len(Tail(q)) : Tail(q)[i] = q[i + 1]
             /\ Len(q) = 1 => Tail(q) = <<>>
  <2>1. /\ Tail(q) \in Seq(Message) /\ Len(Tail(q)) = Len(q) - 1
        /\ \A i \in 1 .. Len(Tail(q)) : Tail(q)[i] = q[i + 1]
    BY <1>2, HeadTailProperties
  <2>2. ASSUME Len(q) = 1 PROVE Tail(q) = <<>>
    <3>1. Len(Tail(q)) = 0
      BY <2>1, <2>2
    <3>2. \A r \in Seq(Message) : Len(r) = 0 <=> r = <<>>
      BY LenZero
    <3>3. QED
      BY <2>1, <3>1, <3>2
  <2>3. QED
    BY <2>1, <2>2
<1>3. One(q, j) => q # <<>> /\ Head(q).kind = j /\ Tail(q) = <<>>
  BY <1>1, <1>2 DEF One
<1>4. Two(q, j, k) => q # <<>> /\ Head(q).kind = j /\ One(Tail(q), k)
  <2>1. SUFFICES ASSUME Two(q, j, k)
                 PROVE  q # <<>> /\ Head(q).kind = j /\ One(Tail(q), k)
    OBVIOUS
  <2>2. q # <<>> /\ 1 \in 1 .. Len(q) - 1
    BY <1>1, <2>1 DEF Two
  <2>3. QED
    BY <1>2, <2>1, <2>2 DEF One, Two
<1>5. Three(q, j, k, l) =>
        q # <<>> /\ Head(q).kind = j /\ Two(Tail(q), k, l)
  <2>1. SUFFICES ASSUME Three(q, j, k, l), NEW r, r = Tail(q)
                 PROVE  q # <<>> /\ Head(q).kind = j /\ Two(r, k, l)
    OBVIOUS
  <2>2. q # <<>> /\ Len(q) = 3
    BY <1>1, <2>1 DEF Three
  <2>3. /\ Head(q) = q[1] /\ Len(r) = Len(q) - 1
        /\ \A i \in 1 .. Len(r) : r[i] = q[i + 1]
    BY <1>2, <2>1, <2>2
  <2>4. Len(r) = 2
    BY <2>2, <2>3
  <2>5. r[1] = q[2]
    <3>1. 1 \in 1 .. Len(r) /\ 1 + 1 = 2
      BY <2>4
    <3>2. QED
      BY <2>3, <3>1
  <2>6. r[2] = q[3]
    <3>1. 2 \in 1 .. Len(r) /\ 2 + 1 = 3
      BY <2>4
    <3>2. QED
      BY <2>3, <3>1
  <2>7. QED
    BY <2>1, <2>2, <2>3, <2>4, <2>5, <2>6 DEF Two, Three
<1>6. q # <<>> => 1 \in 1 .. Len(q) /\ Head(q) = q[1]
  BY <1>1, <1>2
<1>7. q = <<>> => ~Has(q, j)
  BY <1>1 DEF Has
<1>8. QED
  BY <1>3, <1>4, <1>5, <1>6, <1>7 DEF Has

\* The same for all kinds at once.
LEMMA KindFacts ==
  ASSUME NEW q \in Seq(Message)
  PROVE  /\ \A j : One(q, j) => q # <<>> /\ Head(q).kind = j /\ Tail(q) = <<>>
         /\ \A j, k : Two(q, j, k) =>
              q # <<>> /\ Head(q).kind = j /\ One(Tail(q), k)
         /\ \A j, k, l : Three(q, j, k, l) =>
              q # <<>> /\ Head(q).kind = j /\ Two(Tail(q), k, l)
         /\ q # <<>> => Has(q, Head(q).kind)
         /\ q = <<>> => \A j : ~Has(q, j)
  BY KindFactsAll

\* r is q without its first message.
Popped(q, r) ==
  /\ r \in Seq(Message)
  /\ \A j : One(q, j) => r = <<>>
  /\ \A j, k : Two(q, j, k) => One(r, k)
  /\ \A j, k, l : Three(q, j, k, l) => Two(r, k, l)
  /\ \A j : Has(r, j) => Has(q, j)
  /\ \A j : Has(q, j) => Head(q).kind = j \/ Has(r, j)
  /\ r = <<>> => Head(q) = q[Len(q)]
  /\ r # <<>> => r[Len(r)] = q[Len(q)]
  /\ \A v : r # <<>> => (Ends(r, v) <=> Ends(q, v))
  /\ r # <<>> => Has(r, Head(r).kind)
  /\ \A k : OnlyLast(q, k) => OnlyLast(r, k)
  /\ \A k : OnlyLast(q, k) /\ Head(q).kind = k => r = <<>>

\* r is q with m at its end.
Pushed(q, m, r) ==
  /\ r \in Seq(Message) /\ r # <<>>
  /\ q = <<>> => One(r, m.kind)
  /\ \A j : One(q, j) => Two(r, j, m.kind)
  /\ \A j, k : Two(q, j, k) => Three(r, j, k, m.kind)
  /\ \A j : Has(r, j) <=> Has(q, j) \/ m.kind = j
  /\ Ends(r, m.value) /\ r[Len(r)] = m
  /\ q # <<>> => Head(r) = Head(q)
  /\ \A i \in 1 .. Len(r) - 1 : i \in 1 .. Len(q) /\ r[i] = q[i]

\* What taking the first message leaves.
LEMMA TailFacts ==
  ASSUME NEW q \in Seq(Message), q # <<>>, NEW j, NEW v
  PROVE  /\ Tail(q) \in Seq(Message) /\ Head(q) \in Message
         /\ Has(Tail(q), j) => Has(q, j)
         /\ Has(q, j) => Head(q).kind = j \/ Has(Tail(q), j)
         /\ Tail(q) # <<>> => (Ends(Tail(q), v) <=> Ends(q, v))
         /\ Tail(q) # <<>> => Tail(q)[Len(Tail(q))] = q[Len(q)]
         /\ Tail(q) = <<>> => Len(q) = 1 /\ Head(q) = q[Len(q)]
<1>1. /\ Tail(q) \in Seq(Message) /\ Len(Tail(q)) = Len(q) - 1
      /\ \A i \in 1 .. Len(Tail(q)) : Tail(q)[i] = q[i + 1]
      /\ Head(q) = q[1] /\ Head(q) \in Message
  BY HeadTailProperties
<1>2. /\ Len(q) \in Nat \ {0} /\ Len(<<>>) = 0
      /\ Tail(q) # <<>> => Len(Tail(q)) # 0
  BY <1>1, EmptySeq
<1>3. Has(Tail(q), j) => Has(q, j)
  BY <1>1, <1>2 DEF Has
<1>4. Has(q, j) => Head(q).kind = j \/ Has(Tail(q), j)
  <2>1. ASSUME NEW i \in 1 .. Len(q), q[i].kind = j, i # 1
        PROVE  Has(Tail(q), j)
    <3>1. i - 1 \in 1 .. Len(Tail(q)) /\ (i - 1) + 1 = i
      BY <1>1, <1>2, <2>1
    <3>2. Tail(q)[i - 1] = q[i]
      BY <1>1, <3>1
    <3>3. QED
      BY <2>1, <3>1, <3>2 DEF Has
  <2>2. QED
    BY <1>1, <2>1 DEF Has
<1>5. Tail(q) # <<>> => Tail(q)[Len(Tail(q))] = q[Len(q)]
  <2>1. Tail(q) # <<>> => Len(Tail(q)) \in 1 .. Len(Tail(q))
                          /\ Len(Tail(q)) + 1 = Len(q)
    BY <1>1, <1>2
  <2>2. QED
    BY <1>1, <2>1
<1>6. Tail(q) = <<>> => Len(q) = 1 /\ Head(q) = q[Len(q)]
  BY <1>1, <1>2
<1>7. QED
  BY <1>1, <1>3, <1>4, <1>5, <1>6 DEF Ends

\* What adding a message gives.
LEMMA PushFacts ==
  ASSUME NEW q \in Seq(Message), NEW m \in Message, NEW j, NEW k
  PROVE  /\ q \o <<m>> \in Seq(Message) /\ q \o <<m>> # <<>>
         /\ q = <<>> => One(q \o <<m>>, m.kind)
         /\ One(q, j) => Two(q \o <<m>>, j, m.kind)
         /\ Two(q, j, k) => Three(q \o <<m>>, j, k, m.kind)
         /\ Has(q \o <<m>>, j) <=> Has(q, j) \/ m.kind = j
         /\ Ends(q \o <<m>>, m.value)
         /\ (q \o <<m>>)[Len(q \o <<m>>)] = m
         /\ q # <<>> => Head(q \o <<m>>) = Head(q)
         /\ Len(q \o <<m>>) = Len(q) + 1
         /\ \A i \in 1 .. Len(q) : (q \o <<m>>)[i] = q[i]
<1> q \o <<m>> = Append(q, m) 
  OBVIOUS
<1> QED
  BY DEF One, Two, Three, Has, Ends

\* A message has the kind and the value it was made of.
LEMMA MsgFacts ==
  ASSUME NEW k, NEW v
  PROVE  /\ Msg(k, v).kind = k /\ Msg(k, v).value = v
         /\ Msg(k, v) = Msg(k, v)
         /\ k \in Kinds \ {"names"} /\ v \in Plain => Msg(k, v) \in Message
         /\ k = "names" /\ v \in Seq(Files) /\ v # <<>> => Msg(k, v) \in Message
  BY DEF Msg, Message

\* The tail of a queue is what a read leaves.
LEMMA TailPops ==
  ASSUME NEW q \in Seq(Message), q # <<>>
  PROVE  Popped(q, Tail(q))
<1>1. Tail(q) \in Seq(Message)
  BY TailFacts
<1>2. Tail(q) # <<>> => Has(Tail(q), Head(Tail(q)).kind)
  BY <1>1, KindFacts
<1>3. /\ \A j : One(q, j) => Tail(q) = <<>>
      /\ \A j, k : Two(q, j, k) => One(Tail(q), k)
      /\ \A j, k, l : Three(q, j, k, l) => Two(Tail(q), k, l)
  BY KindFacts
<1>4. /\ \A j : Has(Tail(q), j) => Has(q, j)
      /\ \A j : Has(q, j) => Head(q).kind = j \/ Has(Tail(q), j)
      /\ \A v : Tail(q) # <<>> => (Ends(Tail(q), v) <=> Ends(q, v))
      /\ Tail(q) # <<>> => Tail(q)[Len(Tail(q))] = q[Len(q)]
      /\ Tail(q) = <<>> => Head(q) = q[Len(q)]
  BY TailFacts
<1>5. ASSUME NEW k, OnlyLast(q, k)
      PROVE  /\ OnlyLast(Tail(q), k)
             /\ Head(q).kind = k => Tail(q) = <<>>
  <2>1. /\ Tail(q) \in Seq(Message) /\ Len(Tail(q)) = Len(q) - 1
        /\ \A i \in 1 .. Len(Tail(q)) : Tail(q)[i] = q[i + 1]
        /\ Head(q) = q[1]
    BY HeadTailProperties
  <2>2. Len(q) \in Nat
    BY LenZero
  <2>3. ASSUME NEW r, r = Tail(q) PROVE OnlyLast(r, k)
    <3>1. /\ Len(r) = Len(q) - 1
          /\ \A i \in 1 .. Len(r) : r[i] = q[i + 1]
      BY <2>1, <2>3
    <3>2. ASSUME NEW i \in 1 .. Len(r) - 1 PROVE r[i].kind # k
      <4>1. i \in 1 .. Len(r) /\ i + 1 \in 1 .. Len(q) - 1
        BY <2>2, <3>1
      <4>2. QED
        BY <1>5, <3>1, <4>1 DEF OnlyLast
    <3>3. QED
      BY <3>2 DEF OnlyLast
  <2>4. Head(q).kind = k => Len(q) = 1
    <3>1. SUFFICES ASSUME Head(q).kind = k, Len(q) # 1 PROVE FALSE
      OBVIOUS
    <3>2. PICK n \in Nat : n = Len(q) /\ n # 0 /\ n # 1
      BY <3>1, LenZero
    <3>3. 1 \in 1 .. Len(q) - 1
      BY <3>2
    <3>4. QED
      BY <1>5, <2>1, <3>1, <3>3 DEF OnlyLast
  <2>5. Len(q) = 1 => One(q, q[1].kind)
    BY DEF One
  <2>6. QED
    BY <1>3, <2>3, <2>4, <2>5
<1>6. QED
  BY <1>1, <1>2, <1>3, <1>4, <1>5 DEF Popped

\* A queue with a message at its end is what a write gives.
LEMMA EndPushes ==
  ASSUME NEW q \in Seq(Message), NEW m \in Message
  PROVE  Pushed(q, m, q \o <<m>>)
<1> DEFINE r == q \o <<m>>
<1>1. /\ r \in Seq(Message) /\ r # <<>>
      /\ q = <<>> => One(r, m.kind)
      /\ \A j : One(q, j) => Two(r, j, m.kind)
      /\ \A j, k : Two(q, j, k) => Three(r, j, k, m.kind)
      /\ \A j : Has(r, j) <=> Has(q, j) \/ m.kind = j
      /\ Ends(r, m.value) /\ r[Len(r)] = m
      /\ q # <<>> => Head(r) = Head(q)
      /\ Len(r) = Len(q) + 1
      /\ \A i \in 1 .. Len(q) : r[i] = q[i]
  BY PushFacts
<1> HIDE DEF r
<1>2. Len(q) \in Nat
  BY LenZero
<1>3. \A i \in 1 .. Len(r) - 1 : i \in 1 .. Len(q) /\ r[i] = q[i]
  BY <1>1, <1>2
<1>4. Pushed(q, m, r)
  BY <1>1, <1>3 DEF Pushed
<1>5. QED
  BY <1>4 DEF r

-----------------------------------------------------------------------------
(* The invariant. *)

\* The types of the client's variables; a block is kept only while a file is
\* received, and a command other than close and connect has a connection.
ClientTyped ==
    /\ setup.revision \in Revisions /\ setup.offers \subseteq Listings
    /\ pc \in Reading \cup {"prompt", "data", "next"}
    /\ sess \in Sessions \cup {0}
    /\ want \in Files \cup {None} /\ queue \in Seq(Files)
    /\ got \subseteq [file : Files, from : Sessions] /\ overtaken \subseteq Files
    /\ closed \in [Sessions -> BOOLEAN]
    /\ pc \notin {"data", "next"} => got = {}
    /\ pc # "prompt" => sess # 0 /\ ~closed[sess]
\* The types of the other variables; a child that serves has a file open.
ServerTyped ==
    /\ child \in [Sessions -> ChildStates]
    /\ file \in [Sessions -> Files \cup {None}]
    /\ listed \in [Sessions -> Seq(Files)]
    /\ aimed \in [Sessions -> BOOLEAN]
    /\ up \in [Sessions -> Seq(Message)]
    /\ down \in [Sessions -> Seq(Message)]
    /\ air \in [Sessions -> SUBSET Files]
    /\ fault \in [Sessions -> BOOLEAN]
    /\ \A s \in Sessions :
          child[s] \in {"param", "port", "data"} => file[s] \in Files

\* A connection that was never made holds nothing.
Clean(t) ==
    child[t] = "none" =>
        /\ up[t] = <<>> /\ down[t] = <<>> /\ air[t] = {}
        /\ ~fault[t] /\ ~closed[t] /\ sess # t

\* The child in state c, with u still to read, ends up waiting for a line.
Idle(c, u) ==
    \/ c = "line" /\ u = <<>>
    \/ c = "ack" /\ One(u, "ack")
    \/ c = "data" /\ (One(u, "stop") \/ Two(u, "feedback", "stop"))
    \/ c = "port" /\ Two(u, "port", "stop")
\* ... and then finds a line that says v.
Asks(c, u, v) ==
    /\ \/ c = "line" /\ One(u, "line")
       \/ c = "ack" /\ Two(u, "ack", "line")
       \/ c = "data" /\ (\/ Two(u, "stop", "line")
                        \/ Three(u, "feedback", "stop", "line"))
       \/ c = "port" /\ Three(u, "port", "stop", "line")
    /\ Ends(u, v)
\* The child of a session that the client has left.
Orphan(c, u) ==
    \/ u = <<>> \/ Idle(c, u)
    \/ c \in {"start", "revision"} /\ One(u, "revision")

\* The client in state p, the child in state c, u and d on their way between
\* them: the dialogue of connect,
Connecting(p, c, u, d) ==
    \/ /\ p = "revision"
       /\ \/ c = "start" /\ One(u, "revision") /\ d = <<>>
          \/ c = "revision" /\ One(u, "revision") /\ One(d, "revision")
          \/ c = "digest" /\ u = <<>> /\ Two(d, "revision", "challenge")
          \/ c = "ended" /\ u = <<>> /\ One(d, "revision")
    \/ /\ p = "challenge"
       /\ \/ c = "revision" /\ One(u, "revision") /\ d = <<>>
          \/ c = "digest" /\ u = <<>> /\ One(d, "challenge")
          \/ c = "ended" /\ u = <<>> /\ d = <<>>
    \/ /\ p = "verdict"
       /\ \/ c = "digest" /\ One(u, "digest") /\ d = <<>>
          \/ c = "line" /\ u = <<>> /\ One(d, "ok")
          \/ c = "ended" /\ u = <<>> /\ One(d, "fail")
\* of dir and of the list of a get *, l being the names listed,
Listing(p, c, u, d, l) ==
    \/ /\ p = "list"
       /\ \/ Asks(c, u, "!#DIR??") /\ d = <<>>
          \/ c = "ack" /\ u = <<>> /\ One(d, "list")
    \/ /\ p = "count"
       /\ \/ Asks(c, u, "*") /\ d = <<>>
          \/ c = "gotSize" /\ u = <<>> /\ One(d, "count") /\ Ends(d, Len(l))
    \/ /\ p = "refusal"
       /\ \/ c = "gotSize" /\ One(u, "gotSize") /\ d = <<>> /\ l = <<>>
          \/ c = "line" /\ u = <<>> /\ One(d, "fail")
          \/ c = "gotList" /\ u = <<>> /\ d = <<>>
    \/ /\ p = "names"
       /\ \/ c = "gotSize" /\ One(u, "gotSize") /\ d = <<>> /\ l # <<>>
          \/ c = "gotList" /\ u = <<>> /\ One(d, "names")
\* and of a get of the file w.
Fetching(p, c, u, d, w) ==
    \/ /\ p = "result"
       /\ \/ Asks(c, u, w) /\ d = <<>>
          \/ c = "gotList" /\ Two(u, "gotList", "line") /\ Ends(u, w) /\ d = <<>>
          \/ c = "name" /\ One(u, "line") /\ Ends(u, w) /\ d = <<>>
          \/ c = "param" /\ u = <<>> /\ One(d, "ok")
          \/ c = "line" /\ u = <<>> /\ One(d, "fail")
    \/ /\ p = "reply"
       /\ \/ c = "param" /\ One(u, "param") /\ d = <<>>
          \/ c = "port" /\ u = <<>> /\ One(d, "reply")
    \/ /\ p = "data" /\ d = <<>>
       /\ \/ c = "port" /\ One(u, "port")
          \/ c = "data" /\ (u = <<>> \/ One(u, "feedback"))
Dialogue(p, c, u, d, l, w) ==
    \/ p \in {"prompt", "next"} /\ Idle(c, u) /\ d = <<>>
    \/ Connecting(p, c, u, d) \/ Listing(p, c, u, d, l)
    \/ Fetching(p, c, u, d, w)

\* What holds while nothing has failed in the session.
Paired(t) ==
    ~fault[t] =>
        IF t = sess /\ ~closed[t]
        THEN Dialogue(pc, child[t], up[t], down[t], listed[t], want)
        ELSE Orphan(child[t], up[t]) /\ (t = sess => down[t] = <<>> /\ pc = "prompt")

\* A reply on its way is the answer to this get, and nothing else is on its way.
ReplyFresh(t) ==
    Has(down[t], "reply") =>
        /\ pc = "reply" /\ One(down[t], "reply")
        /\ child[t] = "port" /\ up[t] = <<>> /\ file[t] = want
\* A child that will read parameters next has the wanted file open.
ParamFresh(t) ==
    /\ child[t] = "param" /\ up[t] # <<>> /\ Head(up[t]).kind = "param" =>
          /\ pc = "reply" /\ One(up[t], "param")
          /\ down[t] = <<>> /\ file[t] = want
    /\ Has(up[t], "param") => child[t] = "param"
\* A positive result is the last thing its child has written; if the request has
\* been read, the open file is the wanted one.
OkFresh(t) ==
    Has(down[t], "ok") /\ pc # "verdict" =>
        /\ child[t] = "param"
        /\ OnlyLast(down[t], "ok")
        /\ pc = "result" => up[t] # <<>> \/ file[t] = want
\* While the result is awaited, nothing follows the request.
LineLast(t) ==
    pc = "result" /\ up[t] # <<>> =>
        up[t][Len(up[t])].kind = "line" /\ Ends(up[t], want)
\* While blocks are received only blocks of the wanted file are in the air, and
\* those that the reply has overtaken.
Receiving(t) ==
    pc = "data" =>
        \/ /\ child[t] = "port" /\ One(up[t], "port") /\ file[t] = want
           /\ air[t] \subseteq overtaken
        \/ /\ child[t] = "data" /\ (up[t] = <<>> \/ One(up[t], "feedback"))
           /\ file[t] = want /\ aimed[t] /\ air[t] \subseteq {want} \cup overtaken
        \/ /\ child[t] \in {"line", "ended"} /\ (up[t] = <<>> \/ One(up[t], "feedback"))
           /\ fault[t] /\ air[t] \subseteq {want} \cup overtaken
\* Nothing can have failed before the connection is made.
Greeting(t) ==
    /\ child[t] \in {"start", "revision", "digest"} => pc \in ConnectSteps
    /\ pc \in ConnectSteps => ~fault[t]
\* What the client of an open connection can rely on whatever has failed.
Live(t) ==
    t = sess /\ ~closed[t] =>
        /\ Greeting(t) /\ ReplyFresh(t) /\ ParamFresh(t) /\ OkFresh(t)
        /\ LineLast(t) /\ Receiving(t)
SessionInv(t) == Clean(t) /\ Paired(t) /\ Live(t)

Inv == /\ ClientTyped /\ ServerTyped /\ NoLateBlock
       /\ \A t \in Sessions : SessionInv(t)

-----------------------------------------------------------------------------
(* What one session's step means to the others. *)

Same(t) ==
    /\ child'[t] = child[t] /\ file'[t] = file[t] /\ listed'[t] = listed[t]
    /\ aimed'[t] = aimed[t] /\ up'[t] = up[t] /\ down'[t] = down[t]
    /\ air'[t] \subseteq air[t]
    /\ closed'[t] = closed[t] /\ fault'[t] = fault[t]

\* Nothing is lost for a session that a step leaves alone.
LEMMA SameKeeps ==
  ASSUME NEW t \in Sessions, SessionInv(t), Same(t),
         sess = t \/ sess' = t => UNCHANGED <<sess, pc, want, overtaken>>
  PROVE  SessionInv(t)'
<1>1. Clean(t)'
  BY DEF SessionInv, Same, Clean
<1>2. Paired(t)'
  <2>1. CASE t = sess
    BY <2>1 DEF SessionInv, Same, Paired
  <2>2. CASE t # sess
    BY <2>2 DEF SessionInv, Same, Paired
  <2>3. QED
    BY <2>1, <2>2
<1>3. Live(t)'
  <2>1. SUFFICES ASSUME t = sess, ~closed[t]
                 PROVE  Live(t)'
    BY DEF Same, Live
  <2>2. UNCHANGED <<sess, pc, want, overtaken>>
    BY <2>1
  <2>3. QED
    BY <2>1, <2>2 DEF SessionInv, Same, Live, Greeting, ReplyFresh,
      ParamFresh, OkFresh, LineLast, Receiving
<1>4. QED
  BY <1>1, <1>2, <1>3 DEF SessionInv

\* A child's step has only its own session to answer for.
LEMMA ChildKeeps ==
  ASSUME Inv, ChildStep, NEW s \in Sessions, ServerTyped', SessionInv(s)',
         \A t \in Sessions \ {s} : Same(t)
  PROVE  Inv'
<1>1. UNCHANGED <<setup, pc, sess, want, queue, got, overtaken, closed>>
  BY DEF ChildStep, client
<1>2. ClientTyped' /\ NoLateBlock'
  BY <1>1 DEF Inv, ClientTyped, NoLateBlock
<1>3. ASSUME NEW t \in Sessions PROVE SessionInv(t)'
  BY <1>1, SameKeeps DEF Inv
<1>4. QED
  BY <1>2, <1>3 DEF Inv

-----------------------------------------------------------------------------
(* The child's actions. *)

\* The child reads a message.
LEMMA ConsumeFacts ==
  ASSUME ServerTyped, NEW s \in Sessions, up[s] # <<>>, Consume(s)
  PROVE  /\ up' \in [Sessions -> Seq(Message)] /\ Popped(up[s], up'[s])
         /\ \A t \in Sessions \ {s} : up'[t] = up[t]
<1>1. Tail(up[s]) \in Seq(Message) /\ Popped(up[s], Tail(up[s]))
  BY TailFacts, TailPops DEF ServerTyped
<1>2. QED
  BY <1>1 DEF ServerTyped, Consume

\* The child writes messages, unless nobody reads them any more.
LEMMA AnswerFacts ==
  ASSUME ClientTyped, ServerTyped, NEW s \in Sessions, NEW m \in Seq(Message),
         Answer(s, m)
  PROVE  /\ down' \in [Sessions -> Seq(Message)]
         /\ closed[s] => down'[s] = down[s]
         /\ ~closed[s] => down'[s] = down[s] \o m
         /\ \A t \in Sessions \ {s} : down'[t] = down[t]
<1>1. CASE closed[s]
  BY <1>1 DEF ServerTyped, Answer
<1>2. CASE ~closed[s]
  <2>1. down' = [down EXCEPT ![s] = down[s] \o m]
    BY <1>2 DEF Answer
  <2>2. down[s] \o m \in Seq(Message)
    BY ConcatProperties DEF ServerTyped
  <2>3. QED
    BY <1>2, <2>1, <2>2 DEF ServerTyped
<1>3. QED
  BY <1>1, <1>2

\* The child writes one message.
LEMMA OneAnswerFacts ==
  ASSUME ClientTyped, ServerTyped, NEW s \in Sessions, NEW m \in Message,
         Answer(s, <<m>>)
  PROVE  /\ down' \in [Sessions -> Seq(Message)]
         /\ closed[s] => down'[s] = down[s]
         /\ ~closed[s] => Pushed(down[s], m, down'[s])
         /\ \A t \in Sessions \ {s} : down'[t] = down[t]
<1>1. <<m>> \in Seq(Message) /\ Pushed(down[s], m, down[s] \o <<m>>)
  BY EndPushes DEF ServerTyped
<1>2. QED
  BY <1>1, AnswerFacts

\* The child goes on to another state.
LEMMA BecomesFacts ==
  ASSUME ServerTyped, NEW s \in Sessions, NEW c \in ChildStates, Becomes(s, c)
  PROVE  /\ child' \in [Sessions -> ChildStates] /\ child'[s] = c
         /\ \A t \in Sessions \ {s} : child'[t] = child[t]
  BY DEF ServerTyped, Becomes

\* The child opens the file of a line, or "*" after an empty list.
LEMMA OpenFileKeeps ==
  ASSUME SessionAssumption, Inv, NEW s \in Sessions, NEW f,
         up[s] # <<>>, Consume(s), OpenFile(s, f), Talks,
         \/ /\ child[s] \in {"line", "name"} /\ Head(up[s]).kind = "line"
            /\ f = Head(up[s]).value
            /\ child[s] = "line" => f \in Files
         \/ /\ child[s] = "gotSize" /\ Head(up[s]).kind = "gotSize"
            /\ f = "*" /\ listed[s] = <<>>
  PROVE  Inv'
<1> DEFINE k == IF f \in Exists THEN "ok" ELSE "fail"
           m == Msg(k, None)
<1>1. /\ ChildStep
      /\ UNCHANGED <<setup, pc, sess, want, closed, listed, aimed, air, fault>>
  BY DEF Talks, ChildStep, client
<1>2. /\ up[s] \in Seq(Message) /\ down[s] \in Seq(Message)
      /\ m \in Message /\ m.kind = k /\ <<m>> \in Seq(Message)
  <2>1. m \in Message /\ m.kind = k
    BY MsgFacts DEF Kinds, Plain
  <2>2. QED
    BY <2>1 DEF Inv, ServerTyped
<1>3. /\ up' \in [Sessions -> Seq(Message)] /\ Popped(up[s], up'[s])
      /\ \A t \in Sessions \ {s} : up'[t] = up[t]
  BY ConsumeFacts DEF Inv
<1>4. /\ child' = [child EXCEPT ![s] = IF f \in Exists THEN "param" ELSE "line"]
      /\ Answer(s, <<m>>)
      /\ file' = IF f \in Exists THEN [file EXCEPT ![s] = f] ELSE file
  BY DEF OpenFile, Becomes
<1>5. /\ down' \in [Sessions -> Seq(Message)]
      /\ closed[s] => down'[s] = down[s]
      /\ ~closed[s] => Pushed(down[s], m, down'[s])
      /\ \A t \in Sessions \ {s} : down'[t] = down[t]
  BY <1>2, <1>4, OneAnswerFacts DEF Inv
<1> HIDE DEF m
<1>6. /\ child'[s] = IF f \in Exists THEN "param" ELSE "line"
      /\ file'[s] = IF f \in Exists THEN f ELSE file[s]
      /\ \A t \in Sessions \ {s} : child'[t] = child[t] /\ file'[t] = file[t]
  BY <1>4 DEF Inv, ServerTyped
<1>7. ServerTyped'
  <2>1. /\ child' \in [Sessions -> ChildStates]
        /\ file' \in [Sessions -> Files \cup {None}]
    BY <1>4 DEF Inv, ServerTyped, ChildStates, Awaited, SessionAssumption
  <2>2. ASSUME NEW t \in Sessions, child'[t] \in {"param", "port", "data"}
        PROVE  file'[t] \in Files
    BY <1>6, <2>2 DEF Inv, ServerTyped, SessionAssumption
  <2>3. QED
    BY <1>1, <1>3, <1>5, <2>1, <2>2 DEF Inv, ServerTyped
<1>8. \A t \in Sessions \ {s} : Same(t)
  BY <1>1, <1>3, <1>5, <1>6 DEF Same
<1>9. f \in Exists => child[s] \in {"line", "name"} /\ Head(up[s]).kind = "line"
  BY DEF SessionAssumption
<1>10. SessionInv(s)
  BY DEF Inv
<1>11. Clean(s)'
  BY <1>6 DEF Clean
<1> DEFINE u == up[s]
           d == down[s]
<1>12. Paired(s)'
  <2>1. SUFFICES ASSUME ~fault[s] PROVE Paired(s)'
    BY <1>1 DEF Paired
  <2>2. CASE s = sess /\ ~closed[s]
    <3>1. Dialogue(pc, child[s], up[s], down[s], listed[s], want)
      BY <1>10, <2>1, <2>2 DEF SessionInv, Paired
    <3>2. up'[s] = <<>> /\ d = <<>>
      BY <1>2, <1>3, <3>1, KindFacts
         DEF Popped, Dialogue, Connecting, Listing, Fetching, Asks, Idle
    <3>3. Head(up[s]) = up[s][Len(up[s])]
      BY <1>3, <3>2 DEF Popped
    <3>4. CASE child[s] = "gotSize"
      <4>1. pc = "refusal" /\ f \notin Exists
        BY <3>1, <3>4, <1>2, KindFacts
           DEF Dialogue, Connecting, Listing, Fetching, Asks, Idle,
             SessionAssumption
      <4>2. Listing(pc, child[s], up[s], down[s], listed[s])'
        BY <1>1, <1>2, <1>3, <1>5, <1>6, <2>2, <3>2, <4>1 DEF Listing, Pushed
      <4>3. QED
        BY <1>1, <2>2, <4>2 DEF Paired, Dialogue
    <3>5. CASE child[s] # "gotSize"
      <4>1. pc = "result" /\ f = want
        <5>1. Ends(up[s], want) => f = want
          BY <3>3, <3>5 DEF Ends
        <5>2. child[s] = "line" => ~Ends(up[s], "*") /\ ~Ends(up[s], "!#DIR??")
          BY <3>3 DEF Ends, SessionAssumption
        <5>3. QED
          BY <3>1, <3>5, <5>1, <5>2, <1>2, KindFacts
             DEF Dialogue, Connecting, Listing, Fetching, Asks, Idle
      <4>2. Fetching(pc, child[s], up[s], down[s], want)'
        BY <1>1, <1>2, <1>3, <1>5, <1>6, <2>2, <3>2, <4>1 DEF Fetching, Pushed
      <4>3. QED
        BY <1>1, <2>2, <4>2 DEF Paired, Dialogue
    <3>6. QED
      BY <3>4, <3>5
  <2>3. CASE ~(s = sess /\ ~closed[s])
    <3>1. Orphan(child[s], up[s]) /\ (s = sess => down[s] = <<>> /\ pc = "prompt")
      BY <1>10, <2>1, <2>3 DEF SessionInv, Paired
    <3>2. FALSE
      BY <1>2, <1>9, <3>1, KindFacts DEF Orphan, Idle
    <3>3. QED
      BY <3>2
  <2>4. QED
    BY <2>2, <2>3
<1>13. ASSUME s = sess, ~closed[s]
       PROVE  Greeting(s)' /\ ReplyFresh(s)' /\ ParamFresh(s)'
  <2>1. Live(s) /\ Greeting(s) /\ ReplyFresh(s) /\ ParamFresh(s)
    BY <1>10, <1>13 DEF SessionInv, Live
  <2>2. Greeting(s)'
    BY <1>1, <1>6, <2>1 DEF Greeting
  <2>3. ~Has(down[s], "reply") /\ ~Has(up[s], "param")
    BY <2>1 DEF ReplyFresh, ParamFresh
  <2>4. ~Has(down'[s], "reply")
    BY <1>2, <1>5, <1>13, <2>3 DEF Pushed
  <2>5. ~Has(up'[s], "param")
    BY <1>3, <2>3 DEF Popped
  <2>6. up'[s] # <<>> => Head(up'[s]).kind # "param"
    BY <1>3, <2>5 DEF Popped
  <2>7. QED
    BY <2>2, <2>4, <2>5, <2>6 DEF ReplyFresh, ParamFresh
<1>14. ASSUME s = sess, ~closed[s] PROVE OkFresh(s)'
  <2>1. OkFresh(s) /\ LineLast(s)
    BY <1>10, <1>14 DEF SessionInv, Live
  <2>2. SUFFICES ASSUME Has(down'[s], "ok"), pc # "verdict" PROVE OkFresh(s)'
    BY <1>1 DEF OkFresh
  <2>3. ~Has(down[s], "ok") /\ f \in Exists
    BY <1>2, <1>5, <1>14, <2>1, <2>2, <1>1 DEF OkFresh, Pushed
  <2>4. OnlyLast(down'[s], "ok")
    BY <1>2, <1>5, <1>14, <2>3 DEF Has, Pushed, OnlyLast
  <2>5. ASSUME pc = "result", up'[s] = <<>> PROVE f = want
    BY <1>2, <1>3, <1>9, <2>1, <2>3, <2>5 DEF Popped, LineLast, Ends
  <2>6. QED
    BY <1>1, <1>6, <2>3, <2>4, <2>5 DEF OkFresh
<1>15. ASSUME s = sess, ~closed[s] PROVE LineLast(s)' /\ Receiving(s)'
  <2>1. LineLast(s) /\ Receiving(s)
    BY <1>10, <1>15 DEF SessionInv, Live
  <2>2. LineLast(s)'
    BY <1>1, <1>2, <1>3, <2>1 DEF Popped, LineLast, Ends
  <2>3. pc # "data"
    BY <1>2, <2>1, KindFacts DEF Receiving
  <2>4. QED
    BY <1>1, <2>2, <2>3 DEF Receiving
<1>16. SessionInv(s)'
  BY <1>1, <1>11, <1>12, <1>13, <1>14, <1>15 DEF SessionInv, Live
<1>17. QED
  BY <1>1, <1>7, <1>8, <1>16, ChildKeeps

\* What most actions of a child have in common: no parameters are read, nothing
\* is added to what it still has to read, and no positive result or reply
\* written but in the dialogue of connect.
Turn(s) ==
    /\ ChildStep /\ \A t \in Sessions \ {s} : Same(t)
    /\ child[s] \notin {"none", "param"} /\ child'[s] \notin {"none", "param"}
    /\ child[s] = "port" => up[s] # <<>>
    /\ child'[s] \in {"start", "revision", "digest"} =>
         child[s] \in {"start", "revision", "digest"}
    /\ fault'[s] => fault[s] \/ child[s] \in {"data", "port"}
    /\ fault[s] => fault'[s]
    /\ up'[s] = up[s] \/ (up[s] # <<>> /\ Popped(up[s], up'[s]))
    /\ closed[s] => down'[s] = down[s]
    /\ Has(down'[s], "reply") => Has(down[s], "reply")
    /\ s = sess /\ ~closed[s] /\ Has(down'[s], "ok") =>
         Has(down[s], "ok") \/ pc = "verdict"
    /\ ~fault'[s] /\ s = sess /\ ~closed[s] =>
         (Dialogue(pc, child[s], up[s], down[s], listed[s], want) =>
            Dialogue(pc, child'[s], up'[s], down'[s], listed'[s], want))
    /\ ~fault'[s] /\ Orphan(child[s], up[s]) => Orphan(child'[s], up'[s])
    /\ pc = "data" /\ s = sess /\ ~closed[s] /\ Receiving(s) => Receiving(s)'

\* A turn keeps the invariant.
LEMMA TurnKeeps ==
  ASSUME Inv, NEW s \in Sessions, ServerTyped', Turn(s)
  PROVE  Inv'
<1>1. UNCHANGED <<pc, sess, want, overtaken, closed>>
  BY DEF Turn, ChildStep, client
<1>2. SessionInv(s)
  BY DEF Inv
<1>3. Clean(s)'
  BY DEF Clean, Turn
<1>4. Paired(s)'
  <2>1. SUFFICES ASSUME ~fault'[s] PROVE Paired(s)'
    BY DEF Paired, Turn
  <2>2. ~fault[s] /\ Paired(s)
    BY <1>2, <2>1 DEF SessionInv, Turn
  <2>3. CASE s = sess /\ ~closed[s]
    BY <1>1, <2>1, <2>2, <2>3 DEF Paired, Turn
  <2>4. CASE ~(s = sess /\ ~closed[s])
    BY <1>1, <2>1, <2>2, <2>4 DEF Paired, Turn
  <2>5. QED
    BY <2>3, <2>4
<1>5. ASSUME s = sess, ~closed[s] PROVE Live(s)'
  <2>1. /\ Greeting(s) /\ ReplyFresh(s) /\ ParamFresh(s) /\ OkFresh(s)
        /\ LineLast(s) /\ Receiving(s)
    BY <1>2, <1>5 DEF SessionInv, Live
  <2>2. pc \in ConnectSteps => child[s] \notin {"data", "port"}
    <3>1. SUFFICES ASSUME pc \in ConnectSteps
                   PROVE  child[s] \notin {"data", "port"}
      OBVIOUS
    <3>2. Dialogue(pc, child[s], up[s], down[s], listed[s], want)
      BY <1>2, <1>5, <2>1, <3>1 DEF SessionInv, Paired, Greeting
    <3>3. QED
      BY <3>1, <3>2 DEF ConnectSteps, Dialogue, Connecting, Listing, Fetching
  <2>3. Greeting(s)'
    BY <1>1, <2>1, <2>2 DEF Greeting, Turn
  <2>4. ~Has(down[s], "reply") /\ ~Has(up[s], "param")
    BY <2>1 DEF ReplyFresh, ParamFresh, Turn
  <2>5. ~Has(down'[s], "reply") /\ ~Has(up'[s], "param")
    BY <2>4 DEF Popped, Turn
  <2>6. ReplyFresh(s)' /\ ParamFresh(s)'
    BY <2>5 DEF ReplyFresh, ParamFresh, Turn
  <2>7. Has(down[s], "ok") => pc = "verdict"
    BY <2>1 DEF OkFresh, Turn
  <2>8. OkFresh(s)'
    BY <1>1, <1>5, <2>7 DEF OkFresh, Turn
  <2>9. LineLast(s)'
    BY <1>1, <2>1 DEF LineLast, Popped, Turn
  <2>10. Receiving(s)'
    BY <1>1, <1>5, <2>1 DEF Receiving, Turn
  <2>11. QED
    BY <2>3, <2>6, <2>8, <2>9, <2>10 DEF Live
<1>6. SessionInv(s)'
  BY <1>1, <1>3, <1>4, <1>5 DEF SessionInv, Live
<1>7. QED
  BY <1>6, ChildKeeps DEF Turn

\* The child sends its revision.
LEMMA GreetKeeps ==
  ASSUME SessionAssumption, Inv, NEW s \in Sessions, Greet(s)
  PROVE  Inv'
<1> DEFINE m == Msg("revision", Revision)
<1>1. /\ child[s] = "start" /\ ChildStep
      /\ UNCHANGED <<pc, sess, closed, file, listed, aimed, up, air, fault>>
  BY DEF Greet, Talks, ChildStep, client
<1>2. m \in Message /\ m.kind = "revision"
  BY MsgFacts DEF Kinds, Plain
<1>3. /\ child' \in [Sessions -> ChildStates] /\ child'[s] = "revision"
      /\ \A t \in Sessions \ {s} : child'[t] = child[t]
  BY BecomesFacts DEF Inv, Greet, ChildStates, Awaited
<1>4. /\ down' \in [Sessions -> Seq(Message)]
      /\ closed[s] => down'[s] = down[s]
      /\ ~closed[s] => Pushed(down[s], m, down'[s])
      /\ \A t \in Sessions \ {s} : down'[t] = down[t]
  BY <1>2, OneAnswerFacts DEF Inv, Greet
<1> HIDE DEF m
<1>6. ServerTyped' /\ \A t \in Sessions \ {s} : Same(t)
  BY <1>1, <1>2, <1>3, <1>4 DEF Inv, ServerTyped, Same
<1>8. /\ Orphan(child[s], up[s]) => Orphan(child'[s], up'[s])
      /\ ~closed[s] /\ Dialogue(pc, child[s], up[s], down[s], listed[s], want) =>
           Dialogue(pc, child'[s], up'[s], down'[s], listed'[s], want)
  <2>1. Orphan(child[s], up[s]) => Orphan(child'[s], up'[s])
    BY <1>1, <1>2, <1>3, <1>4 DEF Orphan, Idle
  <2>2. ~closed[s] /\ Dialogue(pc, child[s], up[s], down[s], listed[s], want) =>
          Dialogue(pc, child'[s], up'[s], down'[s], listed'[s], want)
    BY <1>1, <1>2, <1>3, <1>4
       DEF Dialogue, Connecting, Listing, Fetching, Asks, Idle, Pushed, Popped
  <2>3. QED
    BY <2>1, <2>2
<1>9. Receiving(s) => pc # "data"
  BY <1>1 DEF Receiving
<1>10. Turn(s)
  BY <1>1, <1>2, <1>3, <1>4, <1>6, <1>8, <1>9 DEF Turn, Pushed
<1>11. QED
  BY <1>6, <1>10, TurnKeeps

\* The child answers a dir.
LEMMA SendListKeeps ==
  ASSUME SessionAssumption, Inv, NEW s \in Sessions, SendList(s)
  PROVE  Inv'
<1> DEFINE m == Msg("list", None)
<1>1. /\ child[s] = "line" /\ ChildStep
      /\ up[s] # <<>> /\ Head(up[s]).kind = "line" /\ Head(up[s]).value = "!#DIR??"
      /\ UNCHANGED <<pc, sess, closed, file, listed, aimed, air, fault, want>>
  BY DEF SendList, Talks, ChildStep, client, Gets, Arrived, Asked
<1>2. m \in Message /\ m.kind = "list"
  BY MsgFacts DEF Kinds, Plain
<1>3. /\ child' \in [Sessions -> ChildStates] /\ child'[s] = "ack"
      /\ \A t \in Sessions \ {s} : child'[t] = child[t]
  BY BecomesFacts DEF Inv, SendList, ChildStates, Awaited
<1>4. /\ down' \in [Sessions -> Seq(Message)]
      /\ closed[s] => down'[s] = down[s]
      /\ ~closed[s] => Pushed(down[s], m, down'[s])
      /\ \A t \in Sessions \ {s} : down'[t] = down[t]
  BY <1>2, OneAnswerFacts DEF Inv, SendList
<1> HIDE DEF m
<1>5. /\ up' \in [Sessions -> Seq(Message)] /\ Popped(up[s], up'[s])
      /\ \A t \in Sessions \ {s} : up'[t] = up[t]
  BY <1>1, ConsumeFacts DEF Inv, SendList
<1>6. ServerTyped' /\ \A t \in Sessions \ {s} : Same(t)
  BY <1>1, <1>2, <1>3, <1>4, <1>5 DEF Inv, ServerTyped, Same
<1>7. up[s] \in Seq(Message)
  BY DEF Inv, ServerTyped
<1>8. /\ Orphan(child[s], up[s]) => Orphan(child'[s], up'[s])
      /\ ~closed[s] /\ Dialogue(pc, child[s], up[s], down[s], listed[s], want) =>
           Dialogue(pc, child'[s], up'[s], down'[s], listed'[s], want)
  <2>1. ~Orphan(child[s], up[s])
    BY <1>1, <1>7, KindFacts DEF Orphan, Idle
  <2>2. SUFFICES ASSUME ~closed[s],
                        Dialogue(pc, child[s], up[s], down[s], listed[s], want)
                 PROVE  Listing(pc, child'[s], up'[s], down'[s], listed'[s])
    BY <2>1 DEF Dialogue
  <2>3. up'[s] = <<>> /\ down[s] = <<>>
    BY <1>1, <1>5, <1>7, <2>2, KindFacts
       DEF Dialogue, Connecting, Listing, Fetching, Asks, Idle, Popped
  <2>4. ~Ends(up[s], want) /\ ~Ends(up[s], "*")
    BY <1>1, <1>5, <2>3
       DEF Popped, Ends, Inv, ClientTyped, None, SessionAssumption
  <2>5. pc = "list"
    BY <1>1, <1>7, <2>2, <2>4, KindFacts
       DEF Dialogue, Connecting, Listing, Fetching, Asks, Idle
  <2>6. QED
    BY <1>2, <1>3, <1>4, <2>2, <2>3, <2>5 DEF Listing, Pushed
<1>9. Receiving(s) => pc # "data"
  BY <1>1, <1>7, KindFacts DEF Receiving
<1>10. Turn(s)
  BY <1>1, <1>2, <1>3, <1>4, <1>5, <1>6, <1>8, <1>9 DEF Turn, Pushed
<1>11. QED
  BY <1>6, <1>10, TurnKeeps

\* The child reads the confirmation of a dir.
LEMMA ReadAckKeeps ==
  ASSUME SessionAssumption, Inv, NEW s \in Sessions, ReadAck(s)
  PROVE  Inv'
<1>1. /\ child[s] = "ack" /\ ChildStep
      /\ up[s] # <<>> /\ Head(up[s]).kind = "ack"
      /\ UNCHANGED <<pc, sess, closed, file, listed, aimed, air, fault, down>>
  BY DEF ReadAck, Talks, ChildStep, client, Gets, Arrived, Asked
<1>3. /\ child' \in [Sessions -> ChildStates] /\ child'[s] = "line"
      /\ \A t \in Sessions \ {s} : child'[t] = child[t]
  BY BecomesFacts DEF Inv, ReadAck, ChildStates, Awaited
<1>5. /\ up' \in [Sessions -> Seq(Message)] /\ Popped(up[s], up'[s])
      /\ \A t \in Sessions \ {s} : up'[t] = up[t]
  BY <1>1, ConsumeFacts DEF Inv, ReadAck
<1>6. ServerTyped' /\ \A t \in Sessions \ {s} : Same(t)
  BY <1>1, <1>3, <1>5 DEF Inv, ServerTyped, Same
<1>7. up[s] \in Seq(Message)
  BY DEF Inv, ServerTyped
<1>8. /\ Orphan(child[s], up[s]) => Orphan(child'[s], up'[s])
      /\ ~closed[s] /\ Dialogue(pc, child[s], up[s], down[s], listed[s], want) =>
           Dialogue(pc, child'[s], up'[s], down'[s], listed'[s], want)
  <2>1. Orphan(child[s], up[s]) => Orphan(child'[s], up'[s])
    BY <1>1, <1>3, <1>5, <1>7, KindFacts DEF Orphan, Idle, Popped
  <2>2. ~closed[s] /\ Dialogue(pc, child[s], up[s], down[s], listed[s], want) =>
          Dialogue(pc, child'[s], up'[s], down'[s], listed'[s], want)
    BY <1>1, <1>3, <1>5, <1>7, KindFacts
       DEF Dialogue, Connecting, Listing, Fetching, Asks, Idle, Pushed, Popped
  <2>3. QED
    BY <2>1, <2>2
<1>9. Receiving(s) => pc # "data"
  BY <1>1 DEF Receiving
<1>10. Turn(s)
  BY <1>1, <1>3, <1>5, <1>6, <1>8, <1>9 DEF Turn
<1>11. QED
  BY <1>6, <1>10, TurnKeeps

\* The child reads the confirmation of a list of names.
LEMMA ReadGotListKeeps ==
  ASSUME SessionAssumption, Inv, NEW s \in Sessions, ReadGotList(s)
  PROVE  Inv'
<1>1. /\ child[s] = "gotList" /\ ChildStep
      /\ up[s] # <<>> /\ Head(up[s]).kind = "gotList"
      /\ UNCHANGED <<pc, sess, closed, file, aimed, down, air, fault>>
  BY DEF ReadGotList, Talks, ChildStep, client, Gets, Arrived, Asked
<1>3. /\ child' \in [Sessions -> ChildStates] /\ child'[s] = "name"
      /\ \A t \in Sessions \ {s} : child'[t] = child[t]
  BY BecomesFacts DEF Inv, ReadGotList, ChildStates, Awaited
<1>5. /\ up' \in [Sessions -> Seq(Message)] /\ Popped(up[s], up'[s])
      /\ \A t \in Sessions \ {s} : up'[t] = up[t]
  BY <1>1, ConsumeFacts DEF Inv, ReadGotList
<1>4. /\ listed' \in [Sessions -> Seq(Files)]
      /\ \A t \in Sessions \ {s} : listed'[t] = listed[t]
  BY DEF Inv, ServerTyped, ReadGotList
<1>6. ServerTyped' /\ \A t \in Sessions \ {s} : Same(t)
  BY <1>1, <1>3, <1>4, <1>5 DEF Inv, ServerTyped, Same
<1>7. up[s] \in Seq(Message)
  BY DEF Inv, ServerTyped
<1>8. /\ Orphan(child[s], up[s]) => Orphan(child'[s], up'[s])
      /\ ~closed[s] /\ Dialogue(pc, child[s], up[s], down[s], listed[s], want) =>
           Dialogue(pc, child'[s], up'[s], down'[s], listed'[s], want)
  <2>1. Orphan(child[s], up[s]) => Orphan(child'[s], up'[s])
    BY <1>1, <1>3, <1>5, <1>7, KindFacts DEF Orphan, Idle, Popped
  <2>2. ~closed[s] /\ Dialogue(pc, child[s], up[s], down[s], listed[s], want) =>
          Dialogue(pc, child'[s], up'[s], down'[s], listed'[s], want)
    BY <1>1, <1>3, <1>5, <1>7, KindFacts
       DEF Dialogue, Connecting, Listing, Fetching, Asks, Idle, Pushed, Popped
  <2>3. QED
    BY <2>1, <2>2
<1>9. Receiving(s) => pc # "data"
  BY <1>1 DEF Receiving
<1>10. Turn(s)
  BY <1>1, <1>3, <1>5, <1>6, <1>8, <1>9 DEF Turn
<1>11. QED
  BY <1>6, <1>10, TurnKeeps

\* The child tells how many names it lists.
LEMMA SendCountKeeps ==
  ASSUME SessionAssumption, Inv, NEW s \in Sessions, SendCount(s)
  PROVE  Inv'
<1>0. PICK l \in setup.offers : /\ listed' = [listed EXCEPT ![s] = l]
                               /\ Answer(s, <<Msg("count", Len(l))>>)
  BY DEF SendCount
<1> DEFINE m == Msg("count", Len(l))
<1>1. /\ child[s] = "line" /\ ChildStep
      /\ up[s] # <<>> /\ Head(up[s]).kind = "line" /\ Head(up[s]).value = "*"
      /\ UNCHANGED <<pc, sess, want, overtaken, closed, file, aimed, air, fault>>
  BY DEF SendCount, ChildStep, client, Gets, Arrived, Asked
<1>2. m \in Message /\ m.kind = "count" /\ m.value = Len(l) /\ l \in Seq(Files)
  <2>1. l \in Seq(Files) /\ Len(l) \in Plain
    BY DEF Inv, ClientTyped, SessionAssumption, Plain
  <2>2. QED
    BY <2>1, MsgFacts DEF Kinds
<1>3. /\ child' \in [Sessions -> ChildStates] /\ child'[s] = "gotSize"
      /\ \A t \in Sessions \ {s} : child'[t] = child[t]
  BY BecomesFacts DEF Inv, SendCount, ChildStates, Awaited
<1>4. /\ down' \in [Sessions -> Seq(Message)]
      /\ closed[s] => down'[s] = down[s]
      /\ ~closed[s] => Pushed(down[s], m, down'[s])
      /\ \A t \in Sessions \ {s} : down'[t] = down[t]
  BY <1>0, <1>2, OneAnswerFacts DEF Inv
<1> HIDE DEF m
<1>5. /\ up' \in [Sessions -> Seq(Message)] /\ Popped(up[s], up'[s])
      /\ \A t \in Sessions \ {s} : up'[t] = up[t]
  BY <1>1, ConsumeFacts DEF Inv, SendCount
<1>6. /\ listed' \in [Sessions -> Seq(Files)] /\ listed'[s] = l
      /\ \A t \in Sessions \ {s} : listed'[t] = listed[t]
  BY <1>0, <1>2 DEF Inv, ServerTyped
<1>7. up[s] \in Seq(Message)
  BY DEF Inv, ServerTyped
<1>8. ServerTyped' /\ \A t \in Sessions \ {s} : Same(t)
  BY <1>1, <1>3, <1>4, <1>5, <1>6 DEF Inv, ServerTyped, Same
<1>9. /\ Orphan(child[s], up[s]) => Orphan(child'[s], up'[s])
      /\ ~closed[s] /\ Dialogue(pc, child[s], up[s], down[s], listed[s], want) =>
           Dialogue(pc, child'[s], up'[s], down'[s], listed'[s], want)
  <2>1. ~Orphan(child[s], up[s])
    BY <1>1, <1>7, KindFacts DEF Orphan, Idle
  <2>2. SUFFICES ASSUME ~closed[s],
                        Dialogue(pc, child[s], up[s], down[s], listed[s], want)
                 PROVE  Listing(pc, child'[s], up'[s], down'[s], listed'[s])
    BY <2>1 DEF Dialogue
  <2>3. up'[s] = <<>> /\ down[s] = <<>>
    BY <1>1, <1>5, <1>7, <2>2, KindFacts
       DEF Dialogue, Connecting, Listing, Fetching, Asks, Idle, Popped
  <2>4. ~Ends(up[s], want) /\ ~Ends(up[s], "!#DIR??")
    BY <1>1, <1>5, <2>3
       DEF Popped, Ends, Inv, ClientTyped, None, SessionAssumption
  <2>5. pc = "count"
    BY <1>1, <1>7, <2>2, <2>4, KindFacts
       DEF Dialogue, Connecting, Listing, Fetching, Asks, Idle
  <2>6. QED
    BY <1>2, <1>3, <1>4, <1>6, <2>2, <2>3, <2>5 DEF Listing, Pushed
<1>10. Receiving(s) => pc # "data"
  BY <1>1, <1>7, KindFacts DEF Receiving
<1>11. Turn(s)
  BY <1>1, <1>2, <1>3, <1>4, <1>5, <1>8, <1>9, <1>10 DEF Turn, Pushed
<1>12. QED
  BY <1>8, <1>11, TurnKeeps

\* The child compares the revisions.
LEMMA CheckRevisionKeeps ==
  ASSUME SessionAssumption, Inv, NEW s \in Sessions, CheckRevision(s)
  PROVE  Inv'
<1> DEFINE m == Msg("challenge", None)
<1>1. /\ child[s] = "revision" /\ ChildStep
      /\ up[s] # <<>> /\ Head(up[s]).kind = "revision"
      /\ UNCHANGED <<pc, sess, want, overtaken, closed, file, listed, aimed, air,
                     fault>>
  BY DEF CheckRevision, Talks, ChildStep, client, Gets, Arrived
<1>2. m \in Message /\ m.kind = "challenge"
  BY MsgFacts DEF Kinds, Plain
<1>3. /\ up' \in [Sessions -> Seq(Message)] /\ Popped(up[s], up'[s])
      /\ \A t \in Sessions \ {s} : up'[t] = up[t]
  BY <1>1, ConsumeFacts DEF Inv, CheckRevision
<1>4. /\ child' \in [Sessions -> ChildStates]
      /\ \A t \in Sessions \ {s} : child'[t] = child[t] /\ down'[t] = down[t]
      /\ down' \in [Sessions -> Seq(Message)]
      /\ \/ /\ child'[s] = "digest"
            /\ closed[s] => down'[s] = down[s]
            /\ ~closed[s] => Pushed(down[s], m, down'[s])
         \/ child'[s] = "ended" /\ down'[s] = down[s]
  <2>1. CASE Becomes(s, "digest") /\ Answer(s, <<m>>)
    <3>1. /\ child' \in [Sessions -> ChildStates] /\ child'[s] = "digest"
          /\ \A t \in Sessions \ {s} : child'[t] = child[t]
      BY <2>1, BecomesFacts DEF Inv, ChildStates, Awaited
    <3>2. /\ down' \in [Sessions -> Seq(Message)]
          /\ closed[s] => down'[s] = down[s]
          /\ ~closed[s] => Pushed(down[s], m, down'[s])
          /\ \A t \in Sessions \ {s} : down'[t] = down[t]
      BY <1>2, <2>1, OneAnswerFacts DEF Inv
    <3>3. QED
      BY <3>1, <3>2
  <2>2. CASE Becomes(s, "ended") /\ UNCHANGED down
    <3>1. /\ child' \in [Sessions -> ChildStates] /\ child'[s] = "ended"
          /\ \A t \in Sessions \ {s} : child'[t] = child[t]
      BY <2>2, BecomesFacts DEF Inv, ChildStates, Awaited
    <3>2. QED
      BY <2>2, <3>1 DEF Inv, ServerTyped
  <2>3. QED
    BY <2>1, <2>2 DEF CheckRevision
<1> HIDE DEF m
<1>5. ServerTyped' /\ \A t \in Sessions \ {s} : Same(t)
  BY <1>1, <1>3, <1>4 DEF Inv, ServerTyped, Same
<1>6. up[s] \in Seq(Message)
  BY DEF Inv, ServerTyped
<1>7. Orphan(child[s], up[s]) => Orphan(child'[s], up'[s])
  BY <1>1, <1>3, <1>6, KindFacts DEF Orphan, Idle, Popped
<1>8. ~closed[s] /\ Dialogue(pc, child[s], up[s], down[s], listed[s], want) =>
        Dialogue(pc, child'[s], up'[s], down'[s], listed'[s], want)
  BY <1>1, <1>2, <1>3, <1>4, <1>6, KindFacts
     DEF Dialogue, Connecting, Listing, Fetching, Asks, Idle, Pushed, Popped
<1>9. Receiving(s) => pc # "data"
  BY <1>1 DEF Receiving
<1>10. /\ child'[s] \in {"digest", "ended"}
       /\ closed[s] => down'[s] = down[s]
       /\ Has(down'[s], "reply") => Has(down[s], "reply")
       /\ Has(down'[s], "ok") => Has(down[s], "ok")
  BY <1>2, <1>4 DEF Pushed
<1>11. Turn(s)
  BY <1>1, <1>3, <1>5, <1>7, <1>8, <1>9, <1>10 DEF Turn
<1>12. QED
  BY <1>5, <1>11, TurnKeeps

\* The child compares the digests.
LEMMA CheckDigestKeeps ==
  ASSUME SessionAssumption, Inv, NEW s \in Sessions, CheckDigest(s)
  PROVE  Inv'
<1>0. PICK k \in {"ok", "fail"} :
        /\ Answer(s, <<Msg(k, None)>>)
        /\ Becomes(s, IF k = "ok" THEN "line" ELSE "ended")
  BY DEF CheckDigest
<1> DEFINE m == Msg(k, None)
<1>1. /\ child[s] = "digest" /\ ChildStep
      /\ up[s] # <<>> /\ Head(up[s]).kind = "digest"
      /\ UNCHANGED <<pc, sess, want, overtaken, closed, file, listed, aimed, air,
                     fault>>
  BY DEF CheckDigest, Talks, ChildStep, client, Gets, Arrived
<1>2. m \in Message /\ m.kind = k
  BY MsgFacts DEF Kinds, Plain
<1>3. /\ child' \in [Sessions -> ChildStates]
      /\ child'[s] = IF k = "ok" THEN "line" ELSE "ended"
      /\ \A t \in Sessions \ {s} : child'[t] = child[t]
  BY <1>0, BecomesFacts DEF Inv, ChildStates, Awaited
<1>4. /\ down' \in [Sessions -> Seq(Message)]
      /\ closed[s] => down'[s] = down[s]
      /\ ~closed[s] => Pushed(down[s], m, down'[s])
      /\ \A t \in Sessions \ {s} : down'[t] = down[t]
  BY <1>0, <1>2, OneAnswerFacts DEF Inv
<1> HIDE DEF m
<1>5. /\ up' \in [Sessions -> Seq(Message)] /\ Popped(up[s], up'[s])
      /\ \A t \in Sessions \ {s} : up'[t] = up[t]
  BY <1>1, ConsumeFacts DEF Inv, CheckDigest
<1>6. ServerTyped' /\ \A t \in Sessions \ {s} : Same(t)
  BY <1>1, <1>3, <1>4, <1>5 DEF Inv, ServerTyped, Same
<1>7. up[s] \in Seq(Message)
  BY DEF Inv, ServerTyped
<1>8. Orphan(child[s], up[s]) => Orphan(child'[s], up'[s])
  BY <1>1, <1>7, KindFacts DEF Orphan, Idle
<1>9. Dialogue(pc, child[s], up[s], down[s], listed[s], want) =>
        pc = "verdict" /\ One(up[s], "digest") /\ down[s] = <<>>
  BY <1>1, <1>7, KindFacts
     DEF Dialogue, Connecting, Listing, Fetching, Asks, Idle
<1>10. ~closed[s] /\ Dialogue(pc, child[s], up[s], down[s], listed[s], want) =>
         Dialogue(pc, child'[s], up'[s], down'[s], listed'[s], want)
  BY <1>2, <1>3, <1>4, <1>5, <1>9 DEF Dialogue, Connecting, Pushed, Popped
<1>11. s = sess /\ ~closed[s] => pc = "verdict"
  <2>1. s = sess /\ ~closed[s] =>
          Dialogue(pc, child[s], up[s], down[s], listed[s], want)
    BY <1>1 DEF Inv, SessionInv, Live, Greeting, Paired
  <2>2. QED
    BY <1>9, <2>1
<1>12. Receiving(s) => pc # "data"
  BY <1>1 DEF Receiving
<1>13. Has(down'[s], "reply") => Has(down[s], "reply")
  BY <1>2, <1>4 DEF Pushed
<1>14. Turn(s)
  BY <1>1, <1>3, <1>4, <1>5, <1>6, <1>8, <1>10, <1>11, <1>12, <1>13 DEF Turn
<1>15. QED
  BY <1>6, <1>14, TurnKeeps

\* A file is asked for by its name.
LEMMA ReadFilenameKeeps ==
  ASSUME SessionAssumption, Inv, NEW s \in Sessions, ReadFilename(s)
  PROVE  Inv'
  BY OpenFileKeeps DEF ReadFilename, Gets, Arrived, Asked

\* A file is asked for out of a list.
LEMMA ReadListedKeeps ==
  ASSUME SessionAssumption, Inv, NEW s \in Sessions, ReadListed(s)
  PROVE  Inv'
  BY OpenFileKeeps DEF ReadListed, Gets, Arrived, Asked

\* The child sends the names, or opens "*".
LEMMA ReadGotSizeKeeps ==
  ASSUME SessionAssumption, Inv, NEW s \in Sessions, ReadGotSize(s)
  PROVE  Inv'
<1>1. CASE listed[s] = <<>> /\ OpenFile(s, "*")
  BY <1>1, OpenFileKeeps DEF ReadGotSize, Gets, Arrived
<1>2. CASE /\ Answer(s, IF listed[s] = <<>> THEN <<>>
                        ELSE <<Msg("names", listed[s])>>)
           /\ Becomes(s, "gotList") /\ UNCHANGED file
  <2> DEFINE m == Msg("names", listed[s])
  <2>1. /\ child[s] = "gotSize" /\ ChildStep
        /\ up[s] # <<>> /\ Head(up[s]).kind = "gotSize"
        /\ UNCHANGED <<pc, sess, want, overtaken, closed, file, listed, aimed, air,
                       fault>>
    BY <1>2 DEF ReadGotSize, Talks, ChildStep, client, Gets, Arrived
  <2>2. listed[s] # <<>> => m \in Message /\ m.kind = "names"
    BY MsgFacts DEF Inv, ServerTyped
  <2>3. /\ child' \in [Sessions -> ChildStates] /\ child'[s] = "gotList"
        /\ \A t \in Sessions \ {s} : child'[t] = child[t]
    BY <1>2, BecomesFacts DEF Inv, ChildStates, Awaited
  <2>4. /\ down' \in [Sessions -> Seq(Message)]
        /\ closed[s] \/ listed[s] = <<>> => down'[s] = down[s]
        /\ ~closed[s] /\ listed[s] # <<>> => Pushed(down[s], m, down'[s])
        /\ \A t \in Sessions \ {s} : down'[t] = down[t]
    <3>1. CASE listed[s] = <<>>
      <4>1. Answer(s, <<>>) /\ <<>> \in Seq(Message)
        BY <1>2, <3>1
      <4>2. down[s] \o <<>> = down[s]
        BY ConcatEmptySeq DEF Inv, ServerTyped
      <4>3. QED
        BY <3>1, <4>1, <4>2, AnswerFacts DEF Inv
    <3>2. CASE listed[s] # <<>>
      <4>1. Answer(s, <<m>>)
        BY <1>2, <3>2
      <4>2. QED
        BY <2>2, <3>2, <4>1, OneAnswerFacts DEF Inv
    <3>3. QED
      BY <3>1, <3>2
  <2> HIDE DEF m
  <2>5. /\ up' \in [Sessions -> Seq(Message)] /\ Popped(up[s], up'[s])
        /\ \A t \in Sessions \ {s} : up'[t] = up[t]
    BY <2>1, ConsumeFacts DEF Inv, ReadGotSize
  <2>6. ServerTyped' /\ \A t \in Sessions \ {s} : Same(t)
    BY <2>1, <2>3, <2>4, <2>5 DEF Inv, ServerTyped, Same
  <2>7. up[s] \in Seq(Message)
    BY DEF Inv, ServerTyped
  <2>8. Orphan(child[s], up[s]) => Orphan(child'[s], up'[s])
    BY <2>1, <2>7, KindFacts DEF Orphan, Idle
  <2>9. ~closed[s] /\ Dialogue(pc, child[s], up[s], down[s], listed[s], want) =>
          Dialogue(pc, child'[s], up'[s], down'[s], listed'[s], want)
    BY <2>1, <2>2, <2>3, <2>4, <2>5, <2>7, KindFacts
       DEF Dialogue, Connecting, Listing, Fetching, Asks, Idle, Pushed, Popped
  <2>10. Receiving(s) => pc # "data"
    BY <2>1 DEF Receiving
  <2>11. /\ Has(down'[s], "reply") => Has(down[s], "reply")
         /\ Has(down'[s], "ok") => Has(down[s], "ok")
    BY <2>2, <2>4 DEF Pushed
  <2>12. Turn(s)
    BY <2>1, <2>3, <2>4, <2>5, <2>6, <2>8, <2>9, <2>10, <2>11 DEF Turn
  <2>13. QED
    BY <2>6, <2>12, TurnKeeps
<1>3. QED
  BY <1>1, <1>2 DEF ReadGotSize

\* The child reads a request of the data loop as lines.
LEMMA ReadStrayKeeps ==
  ASSUME SessionAssumption, Inv, NEW s \in Sessions, ReadStray(s)
  PROVE  Inv'
<1> DEFINE m == [i \in 1 .. Strays |-> Msg("fail", None)]
<1>1. /\ child[s] \in {"line", "name"} /\ ChildStep
      /\ up[s] # <<>> /\ Head(up[s]).kind \in {"stop", "feedback"}
      /\ UNCHANGED <<pc, sess, want, overtaken, closed, file, listed, aimed, air,
                     fault>>
  BY DEF ReadStray, Talks, ChildStep, client, Gets, Arrived
<1>2. m \in Seq(Message) /\ \A i \in 1 .. Len(m) : m[i].kind = "fail"
  <2>1. Msg("fail", None) \in Message /\ Msg("fail", None).kind = "fail"
    BY MsgFacts DEF Kinds, Plain
  <2>2. Strays \in Nat
    BY DEF SessionAssumption
  <2>3. QED
    BY <2>1, <2>2
<1>3. /\ child' \in [Sessions -> ChildStates] /\ child'[s] = "line"
      /\ \A t \in Sessions \ {s} : child'[t] = child[t]
  BY BecomesFacts DEF Inv, ReadStray, ChildStates, Awaited
<1>4. Answer(s, m)
  BY DEF ReadStray
<1> HIDE DEF m
<1>5. /\ down' \in [Sessions -> Seq(Message)]
      /\ closed[s] => down'[s] = down[s]
      /\ ~closed[s] => down'[s] = down[s] \o m
      /\ \A t \in Sessions \ {s} : down'[t] = down[t]
  BY <1>2, <1>4, AnswerFacts DEF Inv
<1>6. /\ up' \in [Sessions -> Seq(Message)] /\ Popped(up[s], up'[s])
      /\ \A t \in Sessions \ {s} : up'[t] = up[t]
  BY <1>1, ConsumeFacts DEF Inv, ReadStray
<1>7. ServerTyped' /\ \A t \in Sessions \ {s} : Same(t)
  BY <1>1, <1>3, <1>5, <1>6 DEF Inv, ServerTyped, Same
<1>8. up[s] \in Seq(Message) /\ down[s] \in Seq(Message)
  BY DEF Inv, ServerTyped
<1>9. ASSUME NEW j \in {"ok", "reply"}, Has(down'[s], j) PROVE Has(down[s], j)
  <2>1. CASE closed[s]
    BY <1>5, <1>9, <2>1
  <2>2. CASE ~closed[s]
    <3>1. Has(down[s] \o m, j)
      BY <1>5, <1>9, <2>2
    <3>2. /\ Len(down[s] \o m) = Len(down[s]) + Len(m)
          /\ \A i \in 1 .. Len(down[s]) + Len(m) :
               (down[s] \o m)[i] = IF i <= Len(down[s]) THEN down[s][i]
                                   ELSE m[i - Len(down[s])]
      BY <1>2, <1>8, ConcatProperties
    <3>3. Len(down[s]) \in Nat /\ Len(m) \in Nat
      BY <1>2, <1>8, LenZero
    <3>4. PICK i \in 1 .. Len(down[s]) + Len(m) : (down[s] \o m)[i].kind = j
      BY <3>1, <3>2 DEF Has
    <3>5. i <= Len(down[s])
      <4>1. SUFFICES ASSUME ~(i <= Len(down[s])) PROVE FALSE
        OBVIOUS
      <4>2. i - Len(down[s]) \in 1 .. Len(m)
        BY <3>3, <4>1
      <4>3. m[i - Len(down[s])].kind = "fail"
        BY <1>2, <4>2
      <4>4. QED
        BY <3>2, <3>4, <4>1, <4>3, <1>9
    <3>6. QED
      BY <3>2, <3>3, <3>4, <3>5 DEF Has
  <2>3. QED
    BY <2>1, <2>2
<1>10. ~Orphan(child[s], up[s])
  BY <1>1, <1>8, KindFacts DEF Orphan, Idle
<1>11. ~Dialogue(pc, child[s], up[s], down[s], listed[s], want)
  BY <1>1, <1>8, KindFacts
     DEF Dialogue, Connecting, Listing, Fetching, Asks, Idle
<1>12. pc = "data" /\ Receiving(s) => Receiving(s)'
  BY <1>1, <1>3, <1>6 DEF Receiving, Popped
<1>13. Turn(s)
  BY <1>1, <1>3, <1>5, <1>6, <1>7, <1>9, <1>10, <1>11, <1>12 DEF Turn
<1>14. QED
  BY <1>7, <1>13, TurnKeeps

\* The child reads a request in the data loop.
LEMMA ReadRequestKeeps ==
  ASSUME SessionAssumption, Inv, NEW s \in Sessions, ReadRequest(s)
  PROVE  Inv'
<1>1. /\ child[s] = "data" /\ ChildStep /\ up[s] # <<>> /\ Arrived(s)
      /\ UNCHANGED <<pc, sess, want, overtaken, closed, listed, down, air, fault>>
  BY DEF ReadRequest, ChildStep, client, Arrived
<1>2. /\ child' \in [Sessions -> ChildStates] /\ aimed' \in [Sessions -> BOOLEAN]
      /\ file' \in [Sessions -> Files \cup {None}]
      /\ \A t \in Sessions \ {s} :
           child'[t] = child[t] /\ file'[t] = file[t] /\ aimed'[t] = aimed[t]
      /\ \/ Head(up[s]).kind = "stop" /\ child'[s] = "line"
         \/ /\ Head(up[s]).kind # "stop" /\ child'[s] = "data"
            /\ file'[s] = file[s] /\ aimed'[s] = aimed[s]
  <2>1. CASE Gets(s, "stop") /\ Finish(s)
    <3>1. /\ child' \in [Sessions -> ChildStates] /\ child'[s] = "line"
          /\ \A t \in Sessions \ {s} : child'[t] = child[t]
      BY <2>1, BecomesFacts DEF Inv, Finish, ChildStates, Awaited
    <3>2. /\ aimed' \in [Sessions -> BOOLEAN]
          /\ file' \in [Sessions -> Files \cup {None}]
          /\ \A t \in Sessions \ {s} : file'[t] = file[t] /\ aimed'[t] = aimed[t]
      BY <2>1 DEF Inv, ServerTyped, Finish
    <3>3. QED
      BY <2>1, <3>1, <3>2 DEF Gets, Arrived
  <2>2. CASE ~Gets(s, "stop") /\ UNCHANGED <<child, file, aimed>>
    BY <1>1, <2>2 DEF Inv, ServerTyped, Gets
  <2>3. QED
    BY <2>1, <2>2 DEF ReadRequest
<1>3. /\ up' \in [Sessions -> Seq(Message)] /\ Popped(up[s], up'[s])
      /\ \A t \in Sessions \ {s} : up'[t] = up[t]
  BY <1>1, ConsumeFacts DEF Inv, ReadRequest
<1>4. ServerTyped' /\ \A t \in Sessions \ {s} : Same(t)
  BY <1>1, <1>2, <1>3 DEF Inv, ServerTyped, Same
<1>5. up[s] \in Seq(Message)
  BY DEF Inv, ServerTyped
<1>6. Orphan(child[s], up[s]) => Orphan(child'[s], up'[s])
  BY <1>1, <1>2, <1>3, <1>5, KindFacts DEF Orphan, Idle, Popped
<1>7. Dialogue(pc, child[s], up[s], down[s], listed[s], want) =>
        Dialogue(pc, child'[s], up'[s], down'[s], listed'[s], want)
  BY <1>1, <1>2, <1>3, <1>5, KindFacts
     DEF Dialogue, Connecting, Listing, Fetching, Asks, Idle, Popped
<1>8. pc = "data" /\ Receiving(s) => Receiving(s)'
  BY <1>1, <1>2, <1>3, <1>5, KindFacts DEF Receiving, Popped
<1>9. Turn(s)
  BY <1>1, <1>2, <1>3, <1>4, <1>6, <1>7, <1>8 DEF Turn
<1>10. QED
  BY <1>4, <1>9, TurnKeeps

\* The child sends a block.
LEMMA SendBlockKeeps ==
  ASSUME SessionAssumption, Inv, NEW s \in Sessions, SendBlock(s)
  PROVE  Inv'
<1>1. /\ child[s] = "data" /\ ChildStep
      /\ air' = [air EXCEPT ![s] = @ \cup {file[s]}]
      /\ UNCHANGED <<pc, sess, want, overtaken, closed, child, file, listed, aimed,
                     up, down, fault>>
  BY DEF SendBlock, ChildStep, client, server
<1>2. /\ air' \in [Sessions -> SUBSET Files] /\ air'[s] = air[s] \cup {file[s]}
      /\ \A t \in Sessions \ {s} : air'[t] = air[t]
  BY <1>1 DEF Inv, ServerTyped
<1>3. ServerTyped' /\ \A t \in Sessions \ {s} : Same(t)
  BY <1>1, <1>2 DEF Inv, ServerTyped, Same
<1>4. pc = "data" /\ Receiving(s) => Receiving(s)'
  BY <1>1, <1>2 DEF Receiving
<1>5. Turn(s)
  BY <1>1, <1>3, <1>4 DEF Turn
<1>6. QED
  BY <1>3, <1>5, TurnKeeps

\* The child hears nothing for too long.
LEMMA HeartbeatTimeoutKeeps ==
  ASSUME SessionAssumption, Inv, NEW s \in Sessions, HeartbeatTimeout(s)
  PROVE  Inv'
<1>1. /\ child[s] = "data" /\ ChildStep
      /\ UNCHANGED <<pc, sess, want, overtaken, closed, listed, up, down, air>>
  BY DEF HeartbeatTimeout, ChildStep, client
<1>2. /\ child' \in [Sessions -> ChildStates] /\ child'[s] = "line"
      /\ \A t \in Sessions \ {s} : child'[t] = child[t]
  BY BecomesFacts DEF Inv, HeartbeatTimeout, Finish, ChildStates, Awaited
<1>3. /\ aimed' \in [Sessions -> BOOLEAN] /\ fault' \in [Sessions -> BOOLEAN]
      /\ file' \in [Sessions -> Files \cup {None}] /\ fault'[s]
      /\ \A t \in Sessions \ {s} : /\ file'[t] = file[t] /\ aimed'[t] = aimed[t]
                                   /\ fault'[t] = fault[t]
  BY DEF Inv, ServerTyped, HeartbeatTimeout, Finish, Trouble
<1>4. ServerTyped' /\ \A t \in Sessions \ {s} : Same(t)
  BY <1>1, <1>2, <1>3 DEF Inv, ServerTyped, Same
<1>5. pc = "data" /\ Receiving(s) => Receiving(s)'
  BY <1>1, <1>2, <1>3 DEF Receiving
<1>6. Turn(s)
  BY <1>1, <1>2, <1>3, <1>4, <1>5 DEF Turn
<1>7. QED
  BY <1>4, <1>6, TurnKeeps

\* The child cannot read its file.
LEMMA ReadFailsKeeps ==
  ASSUME SessionAssumption, Inv, NEW s \in Sessions, ReadFails(s)
  PROVE  Inv'
<1>1. /\ child[s] = "data" /\ ChildStep
      /\ UNCHANGED <<pc, sess, want, overtaken, closed, file, listed, aimed, up, down,
                     air>>
  BY DEF ReadFails, ChildStep, client
<1>2. /\ child' \in [Sessions -> ChildStates] /\ child'[s] = "ended"
      /\ \A t \in Sessions \ {s} : child'[t] = child[t]
  BY BecomesFacts DEF Inv, ReadFails, ChildStates, Awaited
<1>3. /\ fault' \in [Sessions -> BOOLEAN] /\ fault'[s]
      /\ \A t \in Sessions \ {s} : fault'[t] = fault[t]
  BY DEF Inv, ServerTyped, ReadFails, Trouble
<1>4. ServerTyped' /\ \A t \in Sessions \ {s} : Same(t)
  BY <1>1, <1>2, <1>3 DEF Inv, ServerTyped, Same
<1>5. pc = "data" /\ Receiving(s) => Receiving(s)'
  BY <1>1, <1>2, <1>3 DEF Receiving
<1>6. Turn(s)
  BY <1>1, <1>2, <1>3, <1>4, <1>5 DEF Turn
<1>7. QED
  BY <1>4, <1>6, TurnKeeps

\* A datagram is lost.
LEMMA LoseDatagramKeeps ==
  ASSUME SessionAssumption, Inv, NEW s \in Sessions, NEW f \in Files,
         LoseDatagram(s, f)
  PROVE  Inv'
<1>1. /\ ChildStep /\ f \in air[s]
      /\ UNCHANGED <<pc, sess, want, overtaken, closed, child, file, listed, aimed,
                     up, down, fault>>
  BY DEF LoseDatagram, ChildStep, client, server
<1>2. /\ air' \in [Sessions -> SUBSET Files] /\ air'[s] \subseteq air[s]
      /\ \A t \in Sessions \ {s} : air'[t] = air[t]
  BY DEF Inv, ServerTyped, LoseDatagram
<1>3. ServerTyped' /\ \A t \in Sessions \ {s} : Same(t)
  BY <1>1, <1>2 DEF Inv, ServerTyped, Same
<1>4. Clean(s)' /\ Paired(s)'
  BY <1>1 DEF Inv, SessionInv, Clean, Paired
<1>5. Receiving(s) => Receiving(s)'
  BY <1>1, <1>2 DEF Receiving
<1>6. Live(s)'
  BY <1>1, <1>5 DEF Inv, SessionInv, Live, Greeting, ReplyFresh, ParamFresh,
                    OkFresh, LineLast
<1>7. QED
  BY <1>1, <1>3, <1>4, <1>6, ChildKeeps DEF SessionInv

\* The child finds the connection closed.
LEMMA SeeEndKeeps ==
  ASSUME SessionAssumption, Inv, NEW s \in Sessions, SeeEnd(s)
  PROVE  Inv'
<1>1. /\ closed[s] /\ ChildStep
      /\ UNCHANGED <<pc, sess, want, overtaken, closed, file, listed, aimed, up, down,
                     air, fault>>
  BY DEF SeeEnd, Talks, ChildStep, client
<1>2. /\ child' \in [Sessions -> ChildStates] /\ child'[s] \in {"ended", "spin"}
      /\ \A t \in Sessions \ {s} : child'[t] = child[t]
  BY BecomesFacts DEF Inv, SeeEnd, ChildStates
<1>3. ServerTyped' /\ \A t \in Sessions \ {s} : Same(t)
  BY <1>1, <1>2 DEF Inv, ServerTyped, Same
<1>4. Orphan(child[s], up[s]) => up[s] = <<>>
  <2>1. up[s] \in Seq(Message)
    BY DEF Inv, ServerTyped
  <2>2. CASE child[s] \in {"line", "name", "data"} /\ up[s] = <<>>
    BY <2>2
  <2>3. CASE /\ child[s] \in DOMAIN Awaited
             /\ up[s] # <<>> => Head(up[s]).kind \notin Awaited[child[s]]
    BY <2>1, <2>3, KindFacts DEF Orphan, Idle, Awaited
  <2>4. QED
    BY <2>2, <2>3 DEF SeeEnd
<1>5. Clean(s)'
  BY <1>2 DEF Clean
<1>6. Paired(s)'
  BY <1>1, <1>2, <1>4 DEF Inv, SessionInv, Paired, Orphan
<1>7. Live(s)'
  BY <1>1 DEF Live
<1>8. QED
  BY <1>1, <1>3, <1>5, <1>6, <1>7, ChildKeeps DEF SessionInv

\* The child reads a port.
LEMMA OpenPortKeeps ==
  ASSUME SessionAssumption, Inv, NEW s \in Sessions, OpenPort(s)
  PROVE  Inv'
<1>1. /\ child[s] = "port" /\ ChildStep
      /\ up[s] # <<>> /\ Head(up[s]).kind \in {"port", "line"} /\ Arrived(s)
      /\ UNCHANGED <<pc, sess, want, overtaken, closed, file, listed, down, air>>
  BY DEF OpenPort, ChildStep, client, Gets, Arrived
<1>2. /\ child' \in [Sessions -> ChildStates] /\ aimed' \in [Sessions -> BOOLEAN]
      /\ fault' \in [Sessions -> BOOLEAN]
      /\ \A t \in Sessions \ {s} : /\ child'[t] = child[t] /\ fault'[t] = fault[t]
                                   /\ aimed'[t] = aimed[t]
      /\ \/ /\ child'[s] = "data" /\ fault'[s] = fault[s]
            /\ Head(up[s]).kind = "port" => aimed'[s]
         \/ child'[s] = "line" /\ fault'[s]
  <2>1. CASE /\ aimed' = [aimed EXCEPT ![s] = Gets(s, "port")]
             /\ Becomes(s, "data") /\ UNCHANGED fault
    <3>1. /\ child' \in [Sessions -> ChildStates] /\ child'[s] = "data"
          /\ \A t \in Sessions \ {s} : child'[t] = child[t]
      BY <2>1, BecomesFacts DEF Inv, ChildStates, Awaited
    <3>2. /\ aimed' \in [Sessions -> BOOLEAN]
          /\ \A t \in Sessions \ {s} : aimed'[t] = aimed[t]
          /\ Head(up[s]).kind = "port" => aimed'[s]
      BY <1>1, <2>1 DEF Inv, ServerTyped, Gets
    <3>3. QED
      BY <2>1, <3>1, <3>2 DEF Inv, ServerTyped
  <2>2. CASE Trouble(s) /\ Becomes(s, "line") /\ UNCHANGED aimed
    <3>1. /\ child' \in [Sessions -> ChildStates] /\ child'[s] = "line"
          /\ \A t \in Sessions \ {s} : child'[t] = child[t]
      BY <2>2, BecomesFacts DEF Inv, ChildStates, Awaited
    <3>2. /\ fault' \in [Sessions -> BOOLEAN] /\ fault'[s]
          /\ \A t \in Sessions \ {s} : fault'[t] = fault[t]
      BY <2>2 DEF Inv, ServerTyped, Trouble
    <3>3. QED
      BY <2>2, <3>1, <3>2 DEF Inv, ServerTyped
  <2>3. QED
    BY <2>1, <2>2 DEF OpenPort
<1>3. /\ up' \in [Sessions -> Seq(Message)] /\ Popped(up[s], up'[s])
      /\ \A t \in Sessions \ {s} : up'[t] = up[t]
  BY <1>1, ConsumeFacts DEF Inv, OpenPort
<1>4. ServerTyped' /\ \A t \in Sessions \ {s} : Same(t)
  BY <1>1, <1>2, <1>3 DEF Inv, ServerTyped, Same
<1>5. up[s] \in Seq(Message)
  BY DEF Inv, ServerTyped
<1>6. ~fault'[s] /\ Orphan(child[s], up[s]) => Orphan(child'[s], up'[s])
  BY <1>1, <1>2, <1>3, <1>5, KindFacts DEF Orphan, Idle, Popped
<1>7. ~fault'[s] /\ Dialogue(pc, child[s], up[s], down[s], listed[s], want) =>
        Dialogue(pc, child'[s], up'[s], down'[s], listed'[s], want)
  BY <1>1, <1>2, <1>3, <1>5, KindFacts
     DEF Dialogue, Connecting, Listing, Fetching, Asks, Idle, Popped
<1>8. pc = "data" /\ Receiving(s) => Receiving(s)'
  BY <1>1, <1>2, <1>3, <1>5, KindFacts DEF Receiving, Popped
<1>9. fault[s] => fault'[s]
  BY <1>2
<1>10. Turn(s)
  BY <1>1, <1>2, <1>3, <1>4, <1>6, <1>7, <1>8, <1>9 DEF Turn
<1>11. QED
  BY <1>4, <1>10, TurnKeeps

\* The child reads the parameters and replies.
LEMMA ReadParametersKeeps ==
  ASSUME SessionAssumption, Inv, NEW s \in Sessions, ReadParameters(s)
  PROVE  Inv'
<1> DEFINE m == Msg("reply", file[s])
<1>1. /\ child[s] = "param" /\ ChildStep
      /\ up[s] # <<>> /\ Head(up[s]).kind = "param"
      /\ UNCHANGED <<pc, sess, want, overtaken, closed, file, listed, aimed, air,
                     fault>>
  BY DEF ReadParameters, Talks, ChildStep, client, Gets, Arrived
<1>2. m \in Message /\ m.kind = "reply"
  <2>1. file[s] \in Plain
    BY DEF Inv, ServerTyped, Plain
  <2>2. QED
    BY <2>1, MsgFacts DEF Kinds
<1>3. /\ child' \in [Sessions -> ChildStates] /\ child'[s] = "port"
      /\ \A t \in Sessions \ {s} : child'[t] = child[t]
  BY BecomesFacts DEF Inv, ReadParameters, ChildStates, Awaited
<1>4. /\ down' \in [Sessions -> Seq(Message)]
      /\ closed[s] => down'[s] = down[s]
      /\ ~closed[s] => Pushed(down[s], m, down'[s])
      /\ \A t \in Sessions \ {s} : down'[t] = down[t]
  BY <1>2, OneAnswerFacts DEF Inv, ReadParameters
<1> HIDE DEF m
<1>5. /\ up' \in [Sessions -> Seq(Message)] /\ Popped(up[s], up'[s])
      /\ \A t \in Sessions \ {s} : up'[t] = up[t]
  BY <1>1, ConsumeFacts DEF Inv, ReadParameters
<1>6. ServerTyped' /\ \A t \in Sessions \ {s} : Same(t)
  BY <1>1, <1>3, <1>4, <1>5 DEF Inv, ServerTyped, Same
<1>7. up[s] \in Seq(Message) /\ down[s] \in Seq(Message)
  BY DEF Inv, ServerTyped
<1>8. Clean(s)'
  BY <1>3 DEF Clean
<1>9. Paired(s)'
  <2>1. ~Orphan(child[s], up[s])
    BY <1>1, <1>7, KindFacts DEF Orphan, Idle
  <2>2. Dialogue(pc, child[s], up[s], down[s], listed[s], want) =>
          /\ pc = "reply" /\ One(up[s], "param") /\ down[s] = <<>>
    BY <1>1, <1>7, KindFacts
       DEF Dialogue, Connecting, Listing, Fetching, Asks, Idle
  <2>3. ~closed[s] /\ Dialogue(pc, child[s], up[s], down[s], listed[s], want) =>
          Dialogue(pc, child'[s], up'[s], down'[s], listed'[s], want)
    BY <1>2, <1>3, <1>4, <1>5, <2>2 DEF Dialogue, Fetching, Pushed, Popped
  <2>4. QED
    BY <1>1, <2>1, <2>3 DEF Inv, SessionInv, Paired
<1>10. ASSUME s = sess, ~closed[s] PROVE Live(s)'
  <2>1. /\ Greeting(s) /\ ParamFresh(s)
    BY <1>10 DEF Inv, SessionInv, Live
  <2>2. /\ pc = "reply" /\ One(up[s], "param")
        /\ down[s] = <<>> /\ file[s] = want
    BY <1>1, <2>1 DEF ParamFresh
  <2>3. up'[s] = <<>> /\ ~Has(up'[s], "param") /\ ~Has(down'[s], "ok")
    BY <1>2, <1>4, <1>5, <1>7, <1>10, <2>2, KindFacts DEF Popped, Pushed
  <2>4. One(down'[s], "reply")
    BY <1>2, <1>4, <1>10, <2>2 DEF Pushed
  <2>5. QED
    BY <1>1, <1>3, <2>1, <2>2, <2>3, <2>4
       DEF Live, Greeting, ReplyFresh, ParamFresh, OkFresh, LineLast, Receiving
<1>11. QED
  BY <1>1, <1>6, <1>8, <1>9, <1>10, ChildKeeps DEF SessionInv, Live

-----------------------------------------------------------------------------
(* The client's actions in an open session. *)

\* A client's step has only its own session to answer for.
LEMMA ClientKeeps ==
  ASSUME Inv, NEW s \in Sessions, sess = s, sess' \in {s, 0},
         ClientTyped', ServerTyped', NoLateBlock', SessionInv(s)',
         \A t \in Sessions \ {s} : Same(t)
  PROVE  Inv'
<1>1. ASSUME NEW t \in Sessions, t # s PROVE SessionInv(t)'
  <2>1. sess # t /\ sess' # t
    BY <1>1 DEF Sessions, SessionAssumption
  <2>2. QED
    BY <1>1, <2>1, SameKeeps DEF Inv
<1>2. QED
  BY <1>1 DEF Inv

\* What most actions of the client have in common: no message to it is made,
\* and no parameters are sent.
Call(s) ==
    /\ sess = s /\ sess' = s /\ ~closed[s] /\ closed'[s] = closed[s]
    /\ \A t \in Sessions \ {s} : Same(t)
    /\ pc \notin ConnectSteps /\ pc' \notin ConnectSteps
    /\ pc = "reply" => child[s] = "ended"
    /\ pc' = "data" => Receiving(s)'
    /\ child'[s] = child[s] /\ file'[s] = file[s] /\ listed'[s] = listed[s]
    /\ fault[s] => fault'[s]
    /\ down'[s] = down[s] \/ (down[s] # <<>> /\ Popped(down[s], down'[s]))
    /\ Has(up'[s], "param") => Has(up[s], "param")
    /\ up'[s] # <<>> /\ Head(up'[s]).kind = "param" =>
         up[s] # <<>> /\ Head(up[s]).kind = "param"
    /\ pc' = "result" => /\ up'[s] # <<>> /\ Ends(up'[s], want')
                         /\ up'[s][Len(up'[s])].kind = "line"
    /\ ~fault'[s] /\ Dialogue(pc, child[s], up[s], down[s], listed[s], want) =>
         Dialogue(pc', child[s], up'[s], down'[s], listed[s], want')

\* A call keeps the invariant.
LEMMA CallKeeps ==
  ASSUME Inv, NEW s \in Sessions, ClientTyped', ServerTyped', NoLateBlock', Call(s)
  PROVE  Inv'
<1>1. /\ sess = s /\ sess' = s /\ ~closed[s] /\ ~closed'[s]
      /\ child'[s] = child[s] /\ file'[s] = file[s] /\ listed'[s] = listed[s]
      /\ pc \notin ConnectSteps /\ pc' \notin ConnectSteps
      /\ pc = "reply" => child[s] = "ended"
  BY DEF Call
<1>2. SessionInv(s)
  BY DEF Inv
<1>3. Clean(s)'
  BY <1>1, <1>2 DEF SessionInv, Clean
<1>4. Paired(s)'
  BY <1>1, <1>2 DEF SessionInv, Paired, Call
<1>5. /\ Greeting(s) /\ ReplyFresh(s) /\ ParamFresh(s) /\ OkFresh(s)
  BY <1>1, <1>2 DEF SessionInv, Live
<1>6. Greeting(s)'
  BY <1>1, <1>5 DEF Greeting
<1>7. ReplyFresh(s)'
  BY <1>1, <1>5 DEF ReplyFresh, Call, Popped
<1>8. ParamFresh(s)'
  BY <1>1, <1>5 DEF ParamFresh, Call
<1>9. OkFresh(s)'
  <2>1. pc # "verdict"
    BY <1>1 DEF ConnectSteps
  <2>2. Has(down'[s], "ok") => Has(down[s], "ok")
    BY DEF Call, Popped
  <2>3. OnlyLast(down[s], "ok") => OnlyLast(down'[s], "ok")
    BY DEF Call, Popped
  <2>4. pc' = "result" => up'[s] # <<>>
    BY DEF Call
  <2>5. QED
    BY <1>1, <1>5, <2>1, <2>2, <2>3, <2>4 DEF OkFresh
<1>10. LineLast(s)' /\ Receiving(s)'
  BY <1>1 DEF LineLast, Receiving, Call
<1>11. SessionInv(s)'
  BY <1>3, <1>4, <1>6, <1>7, <1>8, <1>9, <1>10 DEF SessionInv, Live
<1>12. QED
  BY <1>1, <1>11, ClientKeeps DEF Call

\* The client writes one message.
LEMMA WriteFacts ==
  ASSUME ServerTyped, sess \in Sessions, NEW m \in Message, Write(<<m>>)
  PROVE  /\ up' \in [Sessions -> Seq(Message)] /\ Pushed(up[sess], m, up'[sess])
         /\ \A t \in Sessions \ {sess} : up'[t] = up[t]
<1>1. Pushed(up[sess], m, up[sess] \o <<m>>) /\ up[sess] \o <<m>> \in Seq(Message)
  BY EndPushes, PushFacts DEF ServerTyped
<1>2. QED
  BY <1>1 DEF ServerTyped, Write

\* ... and flushes it.
LEMMA SendFacts ==
  ASSUME ServerTyped, sess \in Sessions, NEW m \in Message, Send(<<m>>)
  PROVE  /\ up' \in [Sessions -> Seq(Message)] /\ Pushed(up[sess], m, up'[sess])
         /\ \A t \in Sessions \ {sess} : up'[t] = up[t]
  BY WriteFacts DEF Send

\* The client reads a message.
LEMMA TakeFacts ==
  ASSUME ServerTyped, sess \in Sessions, Take
  PROVE  /\ down' \in [Sessions -> Seq(Message)]
         /\ down[sess] # <<>> /\ Popped(down[sess], down'[sess])
         /\ \A t \in Sessions \ {sess} : down'[t] = down[t]
<1>1. Popped(down[sess], Tail(down[sess])) /\ Tail(down[sess]) \in Seq(Message)
  BY TailPops, TailFacts DEF ServerTyped, Take
<1>2. QED
  BY <1>1 DEF ServerTyped, Take

\* A line of a plain value is a message.
LEMMA PlainLine ==
  ASSUME NEW v \in Plain
  PROVE  /\ Msg("line", v) \in Message /\ Line(v) = <<Msg("line", v)>>
         /\ Msg("line", v).kind = "line" /\ Msg("line", v).value = v
  BY MsgFacts DEF Kinds, Line

\* A parameter comes to the front of a queue only if it was in it.
LEMMA PushedFront ==
  ASSUME NEW q, NEW m, NEW r, Pushed(q, m, r), m.kind # "param"
  PROVE  /\ Has(r, "param") => Has(q, "param")
         /\ r # <<>> /\ Head(r).kind = "param" =>
              q # <<>> /\ Head(q).kind = "param"
<1>1. r \in Seq(Message)
  BY DEF Pushed
<1>2. q = <<>> => One(r, m.kind)
  BY DEF Pushed
<1>3. q = <<>> => Head(r).kind = m.kind
  BY <1>1, <1>2, KindFacts
<1>4. q # <<>> => Head(r) = Head(q)
  BY DEF Pushed
<1>5. Has(r, "param") => Has(q, "param")
  BY DEF Pushed
<1>6. QED
  BY <1>3, <1>4, <1>5

\* The client asks for a dir.
LEMMA CommandDirKeeps ==
  ASSUME SessionAssumption, Inv, CommandDir
  PROVE  Inv'
<1> DEFINE s == sess
           m == Msg("line", "!#DIR??")
<1>1. /\ pc = "prompt" /\ pc' = "list" /\ s \in Sessions /\ ~closed[s]
      /\ UNCHANGED <<setup, sess, want, queue, got, overtaken, child, file, listed,
                     aimed, down, air, closed, fault>>
  BY
     DEF CommandDir, Type, Connected, KeepClient, KeepTransfer, KeepNet,
       server,
         Inv, ClientTyped
<1>2. /\ m \in Message /\ m.kind = "line" /\ m.value = "!#DIR??" /\ Send(<<m>>)
  BY PlainLine DEF Plain, CommandDir
<1> HIDE DEF m
<1>3. /\ up' \in [Sessions -> Seq(Message)] /\ Pushed(up[s], m, up'[s])
      /\ \A t \in Sessions \ {s} : up'[t] = up[t]
  BY <1>1, <1>2, SendFacts DEF Inv
<1>4. ClientTyped' /\ ServerTyped' /\ NoLateBlock'
  <2>1. ClientTyped'
    BY <1>1 DEF Inv, ClientTyped, Reading
  <2>2. ServerTyped'
    BY <1>1, <1>3 DEF Inv, ServerTyped
  <2>3. NoLateBlock'
    BY <1>1 DEF NoLateBlock
  <2>4. QED
    BY <2>1, <2>2, <2>3
<1>5. \A t \in Sessions \ {s} : Same(t)
  BY <1>1, <1>3 DEF Same
<1>6. Dialogue(pc, child[s], up[s], down[s], listed[s], want) =>
        Dialogue(pc', child[s], up'[s], down'[s], listed[s], want')
  BY <1>1, <1>2, <1>3
     DEF Dialogue, Connecting, Listing, Fetching, Asks, Idle, Pushed
<1>7. Call(s)
  BY <1>1, <1>2, <1>3, <1>5, <1>6 DEF Call, Pushed, ConnectSteps
<1>8. QED
  BY <1>1, <1>4, <1>7, CallKeeps

\* A line of a file's name is a message.
LEMMA FilePlain ==
  ASSUME NEW f \in Files
  PROVE  /\ Msg("line", f) \in Message /\ Line(f) = <<Msg("line", f)>>
         /\ Msg("line", f).kind = "line" /\ Msg("line", f).value = f
         /\ <<>> \o Line(f) = Line(f)
<1>1. f \in Plain
  BY DEF Plain
<1>2. <<Msg("line", f)>> \in Seq(Message)
  BY <1>1, PlainLine
<1>3. QED
  BY <1>1, <1>2, PlainLine, ConcatEmptySeq

\* The client asks for the names.
LEMMA CommandGetAllKeeps ==
  ASSUME SessionAssumption, Inv, CommandGetAll
  PROVE  Inv'
<1> DEFINE s == sess
           m == Msg("line", "*")
<1>1. /\ pc = "prompt" /\ pc' = "count" /\ s \in Sessions /\ ~closed[s]
      /\ UNCHANGED <<setup, sess, want, queue, got, overtaken, child, file, listed,
                     aimed, down, air, closed, fault>>
  BY
     DEF CommandGetAll, Type, Connected, KeepClient, KeepTransfer, KeepNet,
       server,
         Inv, ClientTyped
<1>2. /\ m \in Message /\ m.kind = "line" /\ m.value = "*" /\ Send(<<m>>)
  BY PlainLine DEF Plain, CommandGetAll
<1> HIDE DEF m
<1>3. /\ up' \in [Sessions -> Seq(Message)] /\ Pushed(up[s], m, up'[s])
      /\ \A t \in Sessions \ {s} : up'[t] = up[t]
  BY <1>1, <1>2, SendFacts DEF Inv
<1>4. ClientTyped' /\ ServerTyped' /\ NoLateBlock'
  <2>1. ClientTyped'
    <3>1. /\ pc' \in Reading \cup {"prompt", "data", "next"}
          /\ got' = {} /\ s # 0 /\ sess' = s /\ ~closed'[s]
      BY <1>1 DEF Inv, ClientTyped, Reading, Sessions
    <3>2. /\ closed' \in [Sessions -> BOOLEAN]
          /\ got' \subseteq [file : Files, from : Sessions]
      BY <1>1 DEF Inv, ClientTyped
    <3>3. QED
      BY <1>1, <3>1, <3>2 DEF Inv, ClientTyped
  <2>2. ServerTyped'
    BY <1>1, <1>3 DEF Inv, ServerTyped
  <2>3. NoLateBlock'
    BY <1>1 DEF NoLateBlock
  <2>4. QED
    BY <2>1, <2>2, <2>3
<1>5. \A t \in Sessions \ {s} : Same(t)
  BY <1>1, <1>3 DEF Same
<1>6. Dialogue(pc, child[s], up[s], down[s], listed[s], want) =>
        Dialogue(pc', child[s], up'[s], down'[s], listed[s], want')
  BY <1>1, <1>2, <1>3
     DEF Dialogue, Connecting, Listing, Fetching, Asks, Idle, Pushed
<1>7. Call(s)
  BY <1>1, <1>2, <1>3, <1>5, <1>6 DEF Call, Pushed, ConnectSteps
<1>8. QED
  BY <1>1, <1>4, <1>7, CallKeeps

\* a file is asked for at the prompt, or as the next of a list
LEMMA RequestKeeps ==
  ASSUME SessionAssumption, Inv, sess \in Sessions, ~closed[sess],
         pc \in {"prompt", "next"}, NEW f \in Files, NEW rest \in Seq(Files),
         Request(f, rest, <<>>), UNCHANGED down
  PROVE  Inv'
<1> DEFINE s == sess
           m == Msg("line", f)
<1>1. /\ pc' = "result" /\ want' = f /\ queue' = rest /\ got' = {} /\ overtaken' = {}
      /\ UNCHANGED <<setup, sess, child, file, listed, aimed, down, air, closed,
                     fault>>
  BY DEF Request, KeepNet, server
<1>2. m \in Message /\ m.kind = "line" /\ m.value = f /\ Send(<<m>>)
  BY FilePlain DEF Request
<1> HIDE DEF m
<1>3. /\ up' \in [Sessions -> Seq(Message)] /\ Pushed(up[s], m, up'[s])
      /\ \A t \in Sessions \ {s} : up'[t] = up[t]
  BY <1>2, SendFacts DEF Inv
<1>4. ClientTyped' /\ ServerTyped' /\ NoLateBlock'
  <2>1. ClientTyped'
    BY <1>1 DEF Inv, ClientTyped, Reading, Sessions, SessionAssumption
  <2>2. ServerTyped'
    BY <1>1, <1>3 DEF Inv, ServerTyped
  <2>3. NoLateBlock'
    BY <1>1 DEF NoLateBlock
  <2>4. QED
    BY <2>1, <2>2, <2>3
<1>5. \A t \in Sessions \ {s} : Same(t)
  BY <1>1, <1>3 DEF Same
<1>6. Dialogue(pc, child[s], up[s], down[s], listed[s], want) =>
        Dialogue(pc', child[s], up'[s], down'[s], listed[s], want')
  BY <1>1, <1>2, <1>3
     DEF Dialogue, Connecting, Listing, Fetching, Asks, Idle, Pushed
<1>7. Call(s)
  <2>1. /\ up'[s] # <<>> /\ Ends(up'[s], want')
        /\ up'[s][Len(up'[s])].kind = "line"
    BY <1>1, <1>2, <1>3 DEF Pushed
  <2>2. /\ Has(up'[s], "param") => Has(up[s], "param")
        /\ up'[s] # <<>> /\ Head(up'[s]).kind = "param" =>
             up[s] # <<>> /\ Head(up[s]).kind = "param"
    <3>1. up[s] = <<>> => Head(up'[s]).kind = "line"
      <4>1. up[s] = <<>> => One(up'[s], "line")
        BY <1>2, <1>3 DEF Pushed
      <4>2. QED
        BY <1>3, <4>1, KindFacts
    <3>2. QED
      BY <1>2, <1>3, <3>1 DEF Pushed
  <2>3. QED
    BY <1>1, <1>5, <1>6, <2>1, <2>2 DEF Call, ConnectSteps
<1>8. QED
  BY <1>4, <1>7, CallKeeps

\* The client asks for a file.
LEMMA CommandGetKeeps ==
  ASSUME SessionAssumption, Inv, CommandGet
  PROVE  Inv'
<1>1. PICK f \in Files : Request(f, <<>>, <<>>)
  BY DEF CommandGet
<1>2. /\ sess \in Sessions /\ ~closed[sess] /\ pc = "prompt" /\ UNCHANGED down
  BY DEF CommandGet, Type, Connected, Inv, ClientTyped
<1>3. <<>> \in Seq(Files)
  OBVIOUS
<1>4. QED
  BY <1>1, <1>2, <1>3, RequestKeeps

\* The client goes on to the next file of a list.
LEMMA NextFileKeeps ==
  ASSUME SessionAssumption, Inv, NextFile
  PROVE  Inv'
<1> DEFINE s == sess
<1>1. pc = "next" /\ s \in Sessions /\ ~closed[s] /\ UNCHANGED down
  BY DEF NextFile, Inv, ClientTyped
<1>2. CASE queue # <<>> /\ Request(Head(queue), Tail(queue), <<>>)
  <2>1. Head(queue) \in Files /\ Tail(queue) \in Seq(Files)
    BY <1>2, HeadTailProperties DEF Inv, ClientTyped
  <2>2. QED
    BY <1>1, <1>2, <2>1, RequestKeeps
<1>3. CASE queue = <<>> /\ Return /\ UNCHANGED <<setup, sess, unflushed, server, up>>
                                     /\ KeepNet
  <2>1. /\ pc' = "prompt" /\ want' = None /\ queue' = <<>> /\ got' = {}
        /\ overtaken' = {}
        /\ UNCHANGED <<setup, sess, child, file, listed, aimed, up, down, air, closed,
                       fault>>
    BY <1>1, <1>3 DEF Return, KeepNet, server
  <2>2. ClientTyped' /\ ServerTyped' /\ NoLateBlock'
    BY <2>1 DEF Inv, ClientTyped, ServerTyped, NoLateBlock
  <2>3. Dialogue(pc, child[s], up[s], down[s], listed[s], want) =>
          Dialogue(pc', child[s], up'[s], down'[s], listed[s], want')
    BY <1>1, <2>1 DEF Dialogue, Connecting, Listing, Fetching
  <2>4. Call(s)
    BY <1>1, <2>1, <2>3 DEF Call, ConnectSteps, Same
  <2>5. QED
    BY <1>1, <2>2, <2>4, CallKeeps
<1>4. QED
  BY <1>2, <1>3 DEF NextFile

\* The client reads a dir.
LEMMA ReadListKeeps ==
  ASSUME SessionAssumption, Inv, ReadList
  PROVE  Inv'
<1> DEFINE s == sess
           m == Msg("ack", None)
<1>1. /\ pc = "list" /\ pc' = "prompt" /\ s \in Sessions /\ ~closed[s]
      /\ Head(down[s]).kind \in {"list", "fail"}
      /\ UNCHANGED <<setup, sess, want, queue, got, overtaken, child, file, listed,
                     aimed, air, closed, fault>>
  BY DEF ReadList, Hears, KeepClient, KeepTransfer, KeepNet, server,
         Inv, ClientTyped
<1>2. m \in Message /\ m.kind = "ack"
  BY MsgFacts DEF Kinds, Plain
<1>3. /\ down' \in [Sessions -> Seq(Message)]
      /\ down[s] # <<>> /\ Popped(down[s], down'[s])
      /\ \A t \in Sessions \ {s} : down'[t] = down[t]
  BY <1>1, TakeFacts DEF Inv, ReadList
<1>4. /\ up' \in [Sessions -> Seq(Message)]
      /\ \A t \in Sessions \ {s} : up'[t] = up[t]
      /\ \/ Head(down[s]).kind = "list" /\ Pushed(up[s], m, up'[s])
         \/ Head(down[s]).kind = "fail" /\ up'[s] = up[s]
  <2>1. CASE Hears("list") /\ Write(<<m>>)
    BY <1>1, <1>2, <2>1, WriteFacts DEF Inv, Hears
  <2>2. CASE Hears("fail") /\ UNCHANGED <<up, unflushed>>
    BY <1>1, <2>2 DEF Inv, ServerTyped, Hears
  <2>3. QED
    BY <2>1, <2>2 DEF ReadList
<1> HIDE DEF m
<1>5. ClientTyped' /\ ServerTyped' /\ NoLateBlock'
  <2>1. ClientTyped'
    BY <1>1 DEF Inv, ClientTyped
  <2>2. ServerTyped'
    BY <1>1, <1>3, <1>4 DEF Inv, ServerTyped
  <2>3. NoLateBlock'
    BY <1>1 DEF NoLateBlock
  <2>4. QED
    BY <2>1, <2>2, <2>3
<1>6. \A t \in Sessions \ {s} : Same(t)
  BY <1>1, <1>3, <1>4 DEF Same
<1>7. Dialogue(pc, child[s], up[s], down[s], listed[s], want) =>
        Dialogue(pc', child[s], up'[s], down'[s], listed[s], want')
  <2>1. down[s] \in Seq(Message)
    BY <1>1 DEF Inv, ServerTyped
  <2>2. QED
    BY <1>1, <1>2, <1>3, <1>4, <2>1, KindFacts
       DEF Dialogue, Connecting, Listing, Fetching, Asks, Idle, Pushed, Popped
<1>8. Call(s)
  BY <1>1, <1>2, <1>3, <1>4, <1>6, <1>7 DEF Call, Pushed, ConnectSteps
<1>9. QED
  BY <1>1, <1>5, <1>8, CallKeeps

\* The client reads how many names there are.
LEMMA ReadCountKeeps ==
  ASSUME SessionAssumption, Inv, ReadCount
  PROVE  Inv'
<1> DEFINE s == sess
           m == Msg("gotSize", None)
<1>1. /\ pc = "count" /\ s \in Sessions /\ ~closed[s]
      /\ Head(down[s]).kind = "count"
      /\ pc' = IF Head(down[s]).value = 0 THEN "refusal" ELSE "names"
      /\ UNCHANGED <<setup, sess, want, queue, got, overtaken, child, file, listed,
                     aimed, air, closed, fault>>
  BY DEF ReadCount, Hears, Heard, KeepClient, KeepTransfer, KeepNet, server,
         Inv, ClientTyped
<1>2. m \in Message /\ m.kind = "gotSize" /\ Send(<<m>>)
  BY MsgFacts DEF Kinds, Plain, ReadCount
<1> HIDE DEF m
<1>3. /\ down' \in [Sessions -> Seq(Message)]
      /\ down[s] # <<>> /\ Popped(down[s], down'[s])
      /\ \A t \in Sessions \ {s} : down'[t] = down[t]
  BY <1>1, TakeFacts DEF Inv, ReadCount
<1>4. /\ up' \in [Sessions -> Seq(Message)] /\ Pushed(up[s], m, up'[s])
      /\ \A t \in Sessions \ {s} : up'[t] = up[t]
  BY <1>1, <1>2, SendFacts DEF Inv
<1>5. ClientTyped' /\ ServerTyped' /\ NoLateBlock'
  <2>1. ClientTyped'
    BY <1>1 DEF Inv, ClientTyped, Reading
  <2>2. ServerTyped'
    BY <1>1, <1>3, <1>4 DEF Inv, ServerTyped
  <2>3. NoLateBlock'
    BY <1>1 DEF NoLateBlock
  <2>4. QED
    BY <2>1, <2>2, <2>3
<1>6. \A t \in Sessions \ {s} : Same(t)
  BY <1>1, <1>3, <1>4 DEF Same
<1>7. ASSUME Dialogue(pc, child[s], up[s], down[s], listed[s], want)
      PROVE  Dialogue(pc', child[s], up'[s], down'[s], listed[s], want')
  <2>1. down[s] \in Seq(Message) /\ listed[s] \in Seq(Files)
    BY <1>1 DEF Inv, ServerTyped
  <2>2. /\ child[s] = "gotSize" /\ up[s] = <<>>
        /\ One(down[s], "count") /\ Ends(down[s], Len(listed[s]))
    BY <1>1, <1>3, <1>7 DEF Dialogue, Connecting, Listing, Fetching
  <2>3. down'[s] = <<>> /\ Head(down[s]).value = Len(listed[s])
    BY <1>3, <2>2 DEF Popped, Ends
  <2>4. Len(listed[s]) = 0 <=> listed[s] = <<>>
    BY <2>1, EmptySeq
  <2>5. One(up'[s], "gotSize")
    BY <1>2, <1>4, <2>2 DEF Pushed
  <2>6. QED
    BY <1>1, <2>2, <2>3, <2>4, <2>5 DEF Dialogue, Listing
<1>8. Call(s)
  <2>1. /\ Has(up'[s], "param") => Has(up[s], "param")
        /\ up'[s] # <<>> /\ Head(up'[s]).kind = "param" =>
             up[s] # <<>> /\ Head(up[s]).kind = "param"
    BY <1>2, <1>4, PushedFront
  <2>2. QED
    BY <1>1, <1>3, <1>6, <1>7, <2>1 DEF Call, ConnectSteps
<1>9. QED
  BY <1>1, <1>5, <1>8, CallKeeps

\* The client reads that there are none.
LEMMA ReadRefusalKeeps ==
  ASSUME SessionAssumption, Inv, ReadRefusal
  PROVE  Inv'
<1> DEFINE s == sess
<1>1. /\ pc = "refusal" /\ pc' = "prompt" /\ s \in Sessions /\ ~closed[s]
      /\ Head(down[s]).kind = "fail"
      /\ UNCHANGED <<setup, sess, want, queue, got, overtaken, child, file, listed,
                     aimed, up, air, closed, fault>>
  BY DEF ReadRefusal, Hears, KeepClient, KeepTransfer, KeepNet, server,
         Inv, ClientTyped
<1>2. /\ down' \in [Sessions -> Seq(Message)]
      /\ down[s] # <<>> /\ Popped(down[s], down'[s])
      /\ \A t \in Sessions \ {s} : down'[t] = down[t]
  BY <1>1, TakeFacts DEF Inv, ReadRefusal
<1>3. ClientTyped' /\ ServerTyped' /\ NoLateBlock'
  BY <1>1, <1>2 DEF Inv, ClientTyped, ServerTyped, NoLateBlock
<1>4. Dialogue(pc, child[s], up[s], down[s], listed[s], want) =>
        Dialogue(pc', child[s], up'[s], down'[s], listed[s], want')
  BY <1>1, <1>2 DEF Dialogue, Connecting, Listing, Fetching, Idle, Popped
<1>5. Call(s)
  BY <1>1, <1>2, <1>4 DEF Call, ConnectSteps, Same
<1>6. QED
  BY <1>1, <1>3, <1>5, CallKeeps

\* The client reads the names and asks for the first.
LEMMA ReadNamesKeeps ==
  ASSUME SessionAssumption, Inv, ReadNames
  PROVE  Inv'
<1> DEFINE s == sess
           f == Head(Heard)
           a == Msg("gotList", None)
           b == Msg("line", f)
           r == up[s] \o <<a>>
<1>1. /\ pc = "names" /\ pc' = "result" /\ s \in Sessions /\ ~closed[s]
      /\ down[s] # <<>> /\ Head(down[s]).kind = "names"
      /\ want' = f /\ queue' = Tail(Heard) /\ got' = {} /\ overtaken' = {}
      /\ Send(<<a>> \o Line(f))
      /\ UNCHANGED <<setup, sess, child, file, listed, aimed, air, closed, fault>>
  BY DEF ReadNames, Request, Hears, KeepNet, server, Inv, ClientTyped
<1>2. f \in Files /\ Tail(Heard) \in Seq(Files)
  <2>1. Head(down[s]) \in Message
    BY <1>1, TailFacts DEF Inv, ServerTyped
  <2>2. Heard \in Seq(Files) /\ Heard # <<>>
    BY <1>1, <2>1 DEF Heard, Message
  <2>3. QED
    BY <2>2, HeadTailProperties
<1>3. /\ a \in Message /\ a.kind = "gotList"
      /\ b \in Message /\ b.kind = "line" /\ b.value = f /\ Line(f) = <<b>>
  <2>1. a \in Message /\ a.kind = "gotList"
    BY MsgFacts DEF Kinds, Plain
  <2>2. QED
    BY <1>2, <2>1, FilePlain
<1> HIDE DEF f, a, b
<1>4. /\ down' \in [Sessions -> Seq(Message)] /\ Popped(down[s], down'[s])
      /\ \A t \in Sessions \ {s} : down'[t] = down[t]
  BY <1>1, TakeFacts DEF Inv, ReadNames
<1>5. up[s] \in Seq(Message) /\ r \in Seq(Message) /\ Pushed(up[s], a, r)
  BY <1>1, <1>3, EndPushes DEF Inv, ServerTyped, Pushed
<1>6. up[s] \o (<<a>> \o <<b>>) = r \o <<b>>
  <2>1. <<a>> \in Seq(Message) /\ <<b>> \in Seq(Message)
    BY <1>3
  <2>2. QED
    BY <1>5, <2>1, ConcatAssociative
<1> HIDE DEF r
<1>7. Pushed(r, b, r \o <<b>>) /\ r \o <<b>> \in Seq(Message)
  <2>1. r \in Seq(Message) /\ b \in Message
    BY <1>3, <1>5
  <2>2. Pushed(r, b, r \o <<b>>)
    BY <2>1, EndPushes
  <2>3. QED
    BY <2>2 DEF Pushed
<1>8. /\ up' \in [Sessions -> Seq(Message)] /\ Pushed(r, b, up'[s])
      /\ \A t \in Sessions \ {s} : up'[t] = up[t]
  BY <1>1, <1>3, <1>6, <1>7 DEF Send, Write, Inv, ServerTyped
<1>9. ClientTyped' /\ ServerTyped' /\ NoLateBlock'
  <2>1. ClientTyped'
    BY <1>1, <1>2 DEF Inv, ClientTyped, Reading
  <2>2. ServerTyped'
    BY <1>1, <1>4, <1>8 DEF Inv, ServerTyped
  <2>3. NoLateBlock'
    BY <1>1 DEF NoLateBlock
  <2>4. QED
    BY <2>1, <2>2, <2>3
<1>10. Dialogue(pc, child[s], up[s], down[s], listed[s], want) =>
         Dialogue(pc', child[s], up'[s], down'[s], listed[s], want')
  <2>1. down[s] \in Seq(Message)
    BY <1>1 DEF Inv, ServerTyped
  <2>2. Dialogue(pc, child[s], up[s], down[s], listed[s], want) =>
          /\ child[s] = "gotList" /\ up[s] = <<>> /\ One(down[s], "names")
    BY <1>1, <2>1, KindFacts DEF Dialogue, Connecting, Listing, Fetching
  <2>3. up[s] = <<>> => Two(up'[s], "gotList", "line")
    BY <1>3, <1>5, <1>8 DEF Pushed
  <2>4. Ends(up'[s], want')
    BY <1>1, <1>3, <1>8 DEF Pushed
  <2>5. QED
    BY <1>1, <1>4, <2>2, <2>3, <2>4 DEF Dialogue, Fetching, Popped
<1>11. Call(s)
  <2>1. /\ up'[s] # <<>> /\ Ends(up'[s], want')
        /\ up'[s][Len(up'[s])].kind = "line"
    BY <1>1, <1>3, <1>8 DEF Pushed
  <2>2. /\ Has(up'[s], "param") => Has(up[s], "param")
        /\ up'[s] # <<>> /\ Head(up'[s]).kind = "param" =>
             up[s] # <<>> /\ Head(up[s]).kind = "param"
    <3>1. up[s] = <<>> => Head(r).kind = "gotList"
      <4>1. up[s] = <<>> => One(r, "gotList")
        BY <1>3, <1>5 DEF Pushed
      <4>2. QED
        BY <1>5, <4>1, KindFacts
    <3>2. Head(up'[s]) = Head(r)
      BY <1>5, <1>8 DEF Pushed
    <3>3. QED
      BY <1>3, <1>5, <1>8, <3>1, <3>2 DEF Pushed
  <2>3. \A t \in Sessions \ {s} : Same(t)
    BY <1>1, <1>4, <1>8 DEF Same
  <2>4. QED
    BY <1>1, <1>4, <1>10, <2>1, <2>2, <2>3 DEF Call, ConnectSteps
<1>12. QED
  BY <1>1, <1>9, <1>11, CallKeeps

\* The client gives a transfer up.
LEMMA AbortKeeps ==
  ASSUME SessionAssumption, Inv, Abort
  PROVE  Inv'
<1> DEFINE s == sess
<1>1. /\ pc = "data" /\ pc' = "prompt" /\ s \in Sessions /\ ~closed[s]
      /\ want' = None /\ queue' = <<>> /\ got' = {} /\ overtaken' = {}
      /\ UNCHANGED <<setup, sess, child, file, listed, aimed, up, down, air, closed>>
  BY DEF Abort, Return, server, Inv, ClientTyped
<1>2. /\ fault' \in [Sessions -> BOOLEAN] /\ fault'[s]
      /\ \A t \in Sessions \ {s} : fault'[t] = fault[t]
  BY <1>1 DEF Inv, ServerTyped, Abort, Trouble
<1>3. ClientTyped' /\ ServerTyped' /\ NoLateBlock'
  BY <1>1, <1>2 DEF Inv, ClientTyped, ServerTyped, NoLateBlock
<1>4. Call(s)
  BY <1>1, <1>2 DEF Call, ConnectSteps, Same
<1>5. QED
  BY <1>1, <1>3, <1>4, CallKeeps

\* A block that arrives is of the file that is wanted.
LEMMA ReceiveFacts ==
  ASSUME Inv, NEW t \in Sessions, NEW f \in Files, ReceiveBlock(t, f)
  PROVE  /\ pc = "data" /\ sess \in Sessions /\ ~closed[sess]
         /\ UNCHANGED <<setup, sess, want, queue, overtaken, child, file, listed,
                        aimed, down, closed, fault>>
         /\ air' \in [Sessions -> SUBSET Files]
         /\ \A x \in Sessions : air'[x] \subseteq air[x]
         /\ got' \subseteq [file : Files, from : Sessions]
         /\ \A b \in got' : b.from = sess => b.file \in {want} \cup overtaken
<1>1. /\ pc = "data" /\ sess \in Sessions /\ ~closed[sess] /\ f \in air[t]
      /\ air' = [air EXCEPT ![t] = @ \ {f}]
      /\ got' = got \cup {[file |-> f, from |-> t]}
      /\ UNCHANGED <<setup, sess, want, queue, overtaken, child, file, listed, aimed,
                     down, closed, fault>>
  BY DEF ReceiveBlock, server, Inv, ClientTyped
<1>2. t = sess => f \in {want} \cup overtaken
  BY <1>1 DEF Inv, SessionInv, Live, Receiving
<1>3. \A b \in got' : b.from = sess => b.file \in {want} \cup overtaken
  BY <1>1, <1>2 DEF Inv, NoLateBlock
<1>4. /\ air' \in [Sessions -> SUBSET Files]
      /\ \A x \in Sessions : air'[x] \subseteq air[x]
  BY <1>1 DEF Inv, ServerTyped
<1>5. QED
  BY <1>1, <1>3, <1>4 DEF Inv, ClientTyped

\* The last block arrives and the child is told to stop.
LEMMA LastBlockKeeps ==
  ASSUME SessionAssumption, Inv, NEW t \in Sessions, NEW f \in Files,
         LastBlock(t, f)
  PROVE  Inv'
<1> DEFINE s == sess
           m == Msg("stop", None)
<1>1. /\ pc = "data" /\ pc' = "next" /\ s \in Sessions /\ ~closed[s]
      /\ UNCHANGED <<setup, sess, want, queue, overtaken, child, file, listed, aimed,
                     down, closed, fault>>
      /\ air' \in [Sessions -> SUBSET Files]
      /\ \A x \in Sessions : air'[x] \subseteq air[x]
      /\ got' \subseteq [file : Files, from : Sessions]
      /\ \A b \in got' : b.from = s => b.file \in {want} \cup overtaken
  BY ReceiveFacts DEF LastBlock
<1>2. m \in Message /\ m.kind = "stop" /\ Send(<<m>>)
  BY MsgFacts DEF Kinds, Plain, LastBlock
<1> HIDE DEF m
<1>3. /\ up' \in [Sessions -> Seq(Message)] /\ Pushed(up[s], m, up'[s])
      /\ \A x \in Sessions \ {s} : up'[x] = up[x]
  BY <1>1, <1>2, SendFacts DEF Inv
<1>4. ClientTyped' /\ ServerTyped' /\ NoLateBlock'
  <2>1. ClientTyped'
    BY <1>1 DEF Inv, ClientTyped
  <2>2. ServerTyped'
    BY <1>1, <1>3 DEF Inv, ServerTyped
  <2>3. NoLateBlock'
    BY <1>1 DEF NoLateBlock
  <2>4. QED
    BY <2>1, <2>2, <2>3
<1>5. Dialogue(pc, child[s], up[s], down[s], listed[s], want) =>
        Dialogue(pc', child[s], up'[s], down'[s], listed[s], want')
  BY <1>1, <1>2, <1>3
     DEF Dialogue, Connecting, Listing, Fetching, Asks, Idle, Pushed
<1>6. Call(s)
  <2>1. /\ Has(up'[s], "param") => Has(up[s], "param")
        /\ up'[s] # <<>> /\ Head(up'[s]).kind = "param" =>
             up[s] # <<>> /\ Head(up[s]).kind = "param"
    BY <1>2, <1>3, PushedFront
  <2>2. QED
    BY <1>1, <1>3, <1>5, <2>1 DEF Call, ConnectSteps, Same
<1>7. QED
  BY <1>1, <1>4, <1>6, CallKeeps

\* A block arrives.
LEMMA EarlierBlockKeeps ==
  ASSUME SessionAssumption, Inv, NEW t \in Sessions, NEW f \in Files,
         EarlierBlock(t, f)
  PROVE  Inv'
<1> DEFINE s == sess
           m == Msg("feedback", None)
<1>1. /\ pc = "data" /\ pc' = "data" /\ s \in Sessions /\ ~closed[s]
      /\ UNCHANGED <<setup, sess, want, queue, overtaken, child, file, listed, aimed,
                     down, closed, fault>>
      /\ air' \in [Sessions -> SUBSET Files]
      /\ \A x \in Sessions : air'[x] \subseteq air[x]
      /\ got' \subseteq [file : Files, from : Sessions]
      /\ \A b \in got' : b.from = s => b.file \in {want} \cup overtaken
  BY ReceiveFacts DEF EarlierBlock
<1>2. m \in Message /\ m.kind = "feedback"
  BY MsgFacts DEF Kinds, Plain
<1>3. /\ up' \in [Sessions -> Seq(Message)]
      /\ \A x \in Sessions \ {s} : up'[x] = up[x]
      /\ up'[s] = up[s] \/ (up[s] = <<>> /\ Pushed(up[s], m, up'[s]))
  <2>1. CASE UNCHANGED <<up, unflushed>>
    BY <2>1 DEF Inv, ServerTyped
  <2>2. CASE Feedback
    BY <1>1, <1>2, <2>2, SendFacts DEF Inv, Feedback
  <2>3. QED
    BY <2>1, <2>2 DEF EarlierBlock
<1> HIDE DEF m
<1>4. ClientTyped' /\ ServerTyped' /\ NoLateBlock'
  <2>1. ClientTyped'
    BY <1>1 DEF Inv, ClientTyped
  <2>2. ServerTyped'
    BY <1>1, <1>3 DEF Inv, ServerTyped
  <2>3. NoLateBlock'
    BY <1>1 DEF NoLateBlock
  <2>4. QED
    BY <2>1, <2>2, <2>3
<1>5. up[s] \in Seq(Message)
  BY <1>1 DEF Inv, ServerTyped
<1>6. Dialogue(pc, child[s], up[s], down[s], listed[s], want) =>
        Dialogue(pc', child[s], up'[s], down'[s], listed[s], want')
  BY <1>1, <1>2, <1>3, <1>5, KindFacts
     DEF Dialogue, Connecting, Listing, Fetching, Asks, Idle, Pushed
<1>7. Receiving(s)'
  <2>1. Receiving(s)
    BY <1>1 DEF Inv, SessionInv, Live
  <2>2. QED
    BY <1>1, <1>2, <1>3, <1>5, <2>1, KindFacts DEF Receiving, Pushed
<1>8. Call(s)
  <2>1. /\ Has(up'[s], "param") => Has(up[s], "param")
        /\ up'[s] # <<>> /\ Head(up'[s]).kind = "param" =>
             up[s] # <<>> /\ Head(up[s]).kind = "param"
    BY <1>2, <1>3, PushedFront
  <2>2. \A x \in Sessions \ {s} : Same(x)
    BY <1>1, <1>3 DEF Same
  <2>3. QED
    BY <1>1, <1>6, <1>7, <2>1, <2>2 DEF Call, ConnectSteps
<1>9. QED
  BY <1>1, <1>4, <1>8, CallKeeps

\* The client reads whether the file could be opened.
LEMMA ReadResultKeeps ==
  ASSUME SessionAssumption, Inv, ReadResult
  PROVE  Inv'
<1> DEFINE s == sess
<1>1. /\ pc = "result" /\ s \in Sessions /\ ~closed[s]
      /\ UNCHANGED <<setup, sess, child, file, listed, aimed, air, closed, fault>>
  BY DEF ReadResult, KeepNet, server, Inv, ClientTyped
<1>2. /\ down' \in [Sessions -> Seq(Message)]
      /\ down[s] # <<>> /\ Popped(down[s], down'[s])
      /\ \A t \in Sessions \ {s} : down'[t] = down[t]
  BY <1>1, TakeFacts DEF Inv, ReadResult
<1>3. up[s] \in Seq(Message) /\ down[s] \in Seq(Message)
  BY <1>1 DEF Inv, ServerTyped
<1>4. CASE Hears("fail") /\ Return /\ UNCHANGED <<up, unflushed>>
  <2>1. /\ pc' = "prompt" /\ want' = None /\ queue' = <<>> /\ got' = {}
        /\ overtaken' = {}
        /\ Head(down[s]).kind = "fail" /\ up' = up
    BY <1>4 DEF Return, Hears
  <2>2. ClientTyped' /\ ServerTyped' /\ NoLateBlock'
    BY <1>1, <1>2, <2>1 DEF Inv, ClientTyped, ServerTyped, NoLateBlock
  <2>3. Dialogue(pc, child[s], up[s], down[s], listed[s], want) =>
          Dialogue(pc', child[s], up'[s], down'[s], listed[s], want')
    BY <1>1, <1>2, <1>3, <2>1, KindFacts
       DEF Dialogue, Connecting, Listing, Fetching, Idle, Popped
  <2>4. Call(s)
    BY <1>1, <1>2, <2>1, <2>3 DEF Call, ConnectSteps, Same
  <2>5. QED
    BY <1>1, <2>2, <2>4, CallKeeps
<1>5. CASE /\ Hears("ok") /\ Send(<<Msg("param", None)>>) /\ pc' = "reply"
           /\ KeepTransfer
  <2> DEFINE m == Msg("param", None)
  <2>1. m \in Message /\ m.kind = "param" /\ Send(<<m>>)
    BY <1>5, MsgFacts DEF Kinds, Plain
  <2>2. pc' = "reply" /\ UNCHANGED <<want, queue, got, overtaken>>
                         /\ Head(down[s]).kind = "ok"
    BY <1>5 DEF KeepTransfer, Hears
  <2> HIDE DEF m
  <2>3. /\ up' \in [Sessions -> Seq(Message)] /\ Pushed(up[s], m, up'[s])
        /\ \A t \in Sessions \ {s} : up'[t] = up[t]
    BY <1>1, <2>1, SendFacts DEF Inv
  <2>4. ClientTyped' /\ ServerTyped' /\ NoLateBlock'
    <3>1. ClientTyped'
      BY <1>1, <2>2 DEF Inv, ClientTyped, Reading
    <3>2. ServerTyped'
      BY <1>1, <1>2, <2>3 DEF Inv, ServerTyped
    <3>3. NoLateBlock'
      BY <2>2 DEF NoLateBlock
    <3>4. QED
      BY <3>1, <3>2, <3>3
  <2>5. /\ ParamFresh(s) /\ OkFresh(s) /\ Paired(s) /\ Clean(s) /\ Greeting(s)
    BY <1>1 DEF Inv, SessionInv, Live
  <2>6. Has(down[s], "ok")
    BY <1>2, <1>3, <2>2, KindFacts
  <2>7. child[s] = "param" /\ down'[s] = <<>> /\ (up[s] # <<>> \/ file[s] = want)
    BY <1>1, <1>2, <2>2, <2>5, <2>6 DEF OkFresh, Popped
  <2>8. ~Has(down'[s], "ok") /\ ~Has(down'[s], "reply")
    BY <2>7, NothingHas
  <2>9. ParamFresh(s)'
    <3>1. up[s] # <<>> => Head(up'[s]).kind # "param"
      BY <1>1, <2>3, <2>5, <2>7 DEF ParamFresh, Pushed
    <3>2. up[s] = <<>> => One(up'[s], "param")
      BY <2>1, <2>3 DEF Pushed
    <3>3. QED
      BY <1>1, <2>2, <2>7, <3>1, <3>2 DEF ParamFresh
  <2>10. Live(s)'
    BY <1>1, <2>2, <2>5, <2>7, <2>8, <2>9
       DEF Live, Greeting, ReplyFresh, OkFresh, LineLast, Receiving, ConnectSteps
  <2>11. Dialogue(pc, child[s], up[s], down[s], listed[s], want) =>
           Dialogue(pc', child[s], up'[s], down'[s], listed[s], want')
    <3>1. Dialogue(pc, child[s], up[s], down[s], listed[s], want) => up[s] = <<>>
      BY <1>1, <1>2, <2>7 DEF Dialogue, Connecting, Listing, Fetching, Asks
    <3>2. up[s] = <<>> => One(up'[s], "param")
      BY <2>1, <2>3 DEF Pushed
    <3>3. QED
      BY <2>2, <2>7, <3>1, <3>2 DEF Dialogue, Fetching
  <2>12. Clean(s)' /\ Paired(s)'
    BY <1>1, <2>5, <2>11 DEF Clean, Paired
  <2>13. \A t \in Sessions \ {s} : Same(t)
    BY <1>1, <1>2, <2>3 DEF Same
  <2>14. SessionInv(s)'
    BY <2>10, <2>12 DEF SessionInv
  <2>15. QED
    BY <1>1, <2>4, <2>13, <2>14, ClientKeeps
<1>6. QED
  BY <1>4, <1>5 DEF ReadResult

\* The client reads the reply and opens its socket.
LEMMA ReadReplyKeeps ==
  ASSUME SessionAssumption, Inv, ReadReply
  PROVE  Inv'
<1> DEFINE s == sess
           m == Msg("port", None)
<1>1. /\ pc = "reply" /\ s \in Sessions /\ ~closed[s] /\ air[s] \subseteq Files
      /\ Head(down[s]).kind = "reply"
      /\ UNCHANGED <<setup, sess, child, file, listed, aimed, air, closed>>
  BY DEF ReadReply, Hears, server, Inv, ClientTyped, ServerTyped
<1>2. /\ down' \in [Sessions -> Seq(Message)]
      /\ down[s] # <<>> /\ Popped(down[s], down'[s])
      /\ \A t \in Sessions \ {s} : down'[t] = down[t]
  BY <1>1, TakeFacts DEF Inv, ReadReply
<1>3. up[s] \in Seq(Message) /\ down[s] \in Seq(Message)
  BY <1>1 DEF Inv, ServerTyped
<1>4. /\ One(down[s], "reply") /\ child[s] = "port"
      /\ up[s] = <<>> /\ file[s] = want /\ Greeting(s)
  <2>1. Has(down[s], "reply")
    BY <1>1, <1>2, <1>3, KindFacts
  <2>2. QED
    BY <1>1, <2>1 DEF Inv, SessionInv, Live, ReplyFresh
<1>5. down'[s] = <<>> /\ \A j : ~Has(down'[s], j)
  BY <1>2, <1>4, KindFacts DEF Popped
<1>6. m \in Message /\ m.kind = "port"
  BY MsgFacts DEF Kinds, Plain
<1>7. /\ up' \in [Sessions -> Seq(Message)]
      /\ \A t \in Sessions \ {s} : up'[t] = up[t] /\ fault'[t] = fault[t]
      /\ fault' \in [Sessions -> BOOLEAN]
      /\ \/ /\ One(up'[s], "port") /\ ~Has(up'[s], "param") /\ pc' = "data"
            /\ overtaken' = air[s] /\ UNCHANGED <<want, queue, got, fault>>
         \/ /\ up'[s] = <<>> /\ pc' = "prompt" /\ fault'[s]
            /\ want' = None /\ queue' = <<>> /\ got' = {} /\ overtaken' = {}
  <2>1. CASE /\ Send(<<m>>) /\ pc' = "data"
             /\ overtaken' = air[sess] /\ UNCHANGED <<want, queue, got, fault>>
    <3>1. /\ up' \in [Sessions -> Seq(Message)] /\ Pushed(up[s], m, up'[s])
          /\ \A t \in Sessions \ {s} : up'[t] = up[t]
      BY <1>1, <1>6, <2>1, SendFacts DEF Inv
    <3>2. One(up'[s], "port") /\ ~Has(up'[s], "param")
      BY <1>3, <1>4, <1>6, <3>1, KindFacts DEF Pushed
    <3>3. QED
      BY <2>1, <3>1, <3>2 DEF Inv, ServerTyped
  <2>2. CASE Trouble(sess) /\ Return /\ UNCHANGED <<up, unflushed>>
    BY <1>1, <1>4, <2>2 DEF Inv, ServerTyped, Trouble, Return
  <2>3. QED
    BY <2>1, <2>2 DEF ReadReply
<1> HIDE DEF m
<1>8. ClientTyped' /\ ServerTyped' /\ NoLateBlock'
  <2>1. ClientTyped'
    BY <1>1, <1>7 DEF Inv, ClientTyped
  <2>2. ServerTyped'
    BY <1>1, <1>2, <1>7 DEF Inv, ServerTyped
  <2>3. NoLateBlock'
    BY <1>1, <1>7 DEF Inv, ClientTyped, NoLateBlock
  <2>4. QED
    BY <2>1, <2>2, <2>3
<1>9. Clean(s)' /\ Paired(s)'
  <2>1. Clean(s)'
    BY <1>1, <1>4 DEF Clean
  <2>2. Paired(s)'
    BY <1>1, <1>4, <1>5, <1>7 DEF Paired, Dialogue, Fetching
  <2>3. QED
    BY <2>1, <2>2
<1>10. Live(s)'
  <2>1. ~Has(up'[s], "param")
    BY <1>7, NothingHas
  <2>2. Greeting(s)' /\ ReplyFresh(s)' /\ ParamFresh(s)' /\ OkFresh(s)'
    BY <1>1, <1>4, <1>5, <1>7, <2>1
       DEF Greeting, ReplyFresh, ParamFresh, OkFresh, ConnectSteps
  <2>3. LineLast(s)' /\ Receiving(s)'
    BY <1>1, <1>4, <1>7 DEF LineLast, Receiving
  <2>4. QED
    BY <2>2, <2>3 DEF Live
<1>11. \A t \in Sessions \ {s} : Same(t)
  BY <1>1, <1>2, <1>7 DEF Same
<1>12. SessionInv(s)'
  BY <1>9, <1>10 DEF SessionInv
<1>13. QED
  BY <1>1, <1>8, <1>11, <1>12, ClientKeeps

-----------------------------------------------------------------------------
(* Opening and closing sessions. *)

\* In one or two messages there is no other.
LEMMA OnlyHas ==
  ASSUME NEW q
  PROVE  /\ \A j, k : One(q, k) /\ Has(q, j) => j = k
         /\ \A j, k, l : Two(q, k, l) /\ Has(q, j) => j = k \/ j = l
  BY DEF One, Two, Has

\* a session that is being greeted, or just has been
LEMMA GreetedKeeps ==
  ASSUME NEW s \in Sessions, sess' = s, ~closed'[s], ~fault'[s],
         \/ Connecting(pc', child'[s], up'[s], down'[s])
         \/ /\ pc' = "prompt" /\ child'[s] = "line"
            /\ up'[s] = <<>> /\ down'[s] = <<>>
  PROVE  SessionInv(s)'
<1>1. /\ pc' \in ConnectSteps \cup {"prompt"} /\ child'[s] # "none"
      /\ child'[s] \in {"start", "revision", "digest"} => pc' \in ConnectSteps
      /\ child'[s] # "param"
      /\ ~Has(up'[s], "param") /\ ~Has(down'[s], "reply")
      /\ Has(down'[s], "ok") => pc' = "verdict"
  <2>1. \A q, j : q = <<>> => ~Has(q, j)
    BY NothingHas
  <2>2. QED
    BY <2>1, OnlyHas DEF Connecting, ConnectSteps
<1>2. Clean(s)'
  BY <1>1 DEF Clean
<1>3. Paired(s)'
  BY DEF Paired, Dialogue, Idle
<1>4. Live(s)'
  BY <1>1 DEF Live, Greeting, ReplyFresh, ParamFresh, OkFresh, LineLast,
              Receiving, ConnectSteps
<1>5. QED
  BY <1>2, <1>3, <1>4 DEF SessionInv

\* a session the client has left, or leaves
LEMMA LeftKeeps ==
  ASSUME Inv, NEW t \in Sessions,
         child'[t] = child[t], air'[t] = air[t],
         up'[t] = up[t] \/ (fault'[t] /\ child[t] # "none"),
         down'[t] = down[t] \/ down'[t] = <<>>,
         sess' = t => closed'[t] /\ pc' = "prompt" /\ down'[t] = <<>>,
         child[t] = "none" => ~closed'[t] /\ ~fault'[t] /\ sess' # t,
         fault[t] => fault'[t],
         \/ fault'[t] \/ sess # t \/ closed[t] \/ pc = "prompt"
         \/ Orphan(child[t], up[t])
  PROVE  SessionInv(t)'
<1>1. Clean(t) /\ Paired(t)
  BY DEF Inv, SessionInv
<1>2. Clean(t)'
  BY <1>1 DEF Clean
<1>3. Paired(t)'
  <2>1. SUFFICES ASSUME ~fault'[t] PROVE Orphan(child[t], up[t])
    BY DEF Paired
  <2>2. CASE sess = t /\ ~closed[t]
    <3>1. pc = "prompt" => Idle(child[t], up[t])
      BY <1>1, <2>1, <2>2 DEF Paired, Dialogue, Connecting, Listing, Fetching
    <3>2. QED
      BY <2>1, <2>2, <3>1 DEF Orphan
  <2>3. CASE ~(sess = t /\ ~closed[t])
    BY <1>1, <2>1, <2>3 DEF Paired
  <2>4. QED
    BY <2>2, <2>3
<1>4. Live(t)'
  BY DEF Live
<1>5. QED
  BY <1>2, <1>3, <1>4 DEF SessionInv

\* No server answers; the session before is left.
LEMMA ConnectRefusedKeeps ==
  ASSUME SessionAssumption, Inv, ConnectRefused
  PROVE  Inv'
<1>1. /\ pc = "prompt" /\ sess' = 0
      /\ UNCHANGED <<setup, pc, want, queue, got, overtaken, child, file, listed,
                     aimed, up, down, air, closed, fault>>
  BY DEF ConnectRefused, Type, KeepNet, KeepTransfer, server
<1>2. ClientTyped' /\ ServerTyped' /\ NoLateBlock'
  BY <1>1 DEF Inv, ClientTyped, ServerTyped, NoLateBlock
<1>3. ASSUME NEW t \in Sessions PROVE SessionInv(t)'
  <2>1. child[t] = "none" => ~closed[t] /\ ~fault[t]
    BY DEF Inv, SessionInv, Clean
  <2>2. sess' # t
    BY <1>1 DEF Sessions
  <2>3. QED
    BY <1>1, <2>1, <2>2, LeftKeeps
<1>4. QED
  BY <1>2, <1>3 DEF Inv

\* A connection is made; the session before is left.
LEMMA ConnectKeeps ==
  ASSUME SessionAssumption, Inv, Connect
  PROVE  Inv'
<1> DEFINE m == Msg("revision", setup.revision)
<1>1. PICK s \in Sessions :
        /\ child[s] = "none" /\ sess' = s /\ pc' = "revision"
        /\ child' = [child EXCEPT ![s] = "start"]
        /\ up' = [up EXCEPT ![s] = <<m>>]
  BY DEF Connect, Fresh
<1>2. /\ pc = "prompt"
      /\ UNCHANGED <<setup, want, queue, got, overtaken, file, listed, aimed, down,
                     air, closed, fault>>
  BY DEF Connect, Type, KeepNet, KeepTransfer
<1>3. m \in Message /\ m.kind = "revision"
  <2>1. setup.revision \in Plain
    BY DEF Inv, ClientTyped, Plain
  <2>2. QED
    BY <2>1, MsgFacts DEF Kinds
<1> HIDE DEF m
<1>4. <<m>> \in Seq(Message) /\ One(<<m>>, "revision")
  BY <1>3 DEF One
<1>5. /\ child' \in [Sessions -> ChildStates] /\ up' \in [Sessions -> Seq(Message)]
      /\ child'[s] = "start" /\ One(up'[s], "revision")
      /\ \A t \in Sessions \ {s} : child'[t] = child[t] /\ up'[t] = up[t]
  BY <1>1, <1>4 DEF Inv, ServerTyped, ChildStates
<1>6. down[s] = <<>> /\ ~closed[s] /\ ~fault[s]
  BY <1>1 DEF Inv, SessionInv, Clean
<1>7. ClientTyped' /\ ServerTyped' /\ NoLateBlock'
  <2>1. ClientTyped'
    BY <1>1, <1>2, <1>6, SessionAssumption
       DEF Inv, ClientTyped, Reading, ConnectSteps, Sessions
  <2>2. ServerTyped'
    BY <1>2, <1>5 DEF Inv, ServerTyped
  <2>3. NoLateBlock'
    BY <1>1 DEF NoLateBlock
  <2>4. QED
    BY <2>1, <2>2, <2>3
<1>8. SessionInv(s)'
  <2>1. Connecting(pc', child'[s], up'[s], down'[s])
    BY <1>1, <1>2, <1>5, <1>6 DEF Connecting
  <2>2. QED
    BY <1>1, <1>2, <1>6, <2>1, GreetedKeeps
<1>9. ASSUME NEW t \in Sessions, t # s PROVE SessionInv(t)'
  <2>1. child[t] = "none" => ~closed[t] /\ ~fault[t]
    BY DEF Inv, SessionInv, Clean
  <2>2. QED
    BY <1>1, <1>2, <1>5, <1>9, <2>1, LeftKeeps
<1>10. QED
  BY <1>7, <1>8, <1>9 DEF Inv

\* the pointer is cleared, or the command ends: the connection is closed
LEMMA HangUpKeeps ==
  ASSUME Inv, NEW s \in Sessions, sess = s, sess' \in {s, 0}, pc' = "prompt",
         Disconnect, pc = "prompt" \/ Orphan(child[s], up[s]), ~closed[s],
         UNCHANGED <<setup, want, queue, got, overtaken, server, up, air, fault>>,
         got = {}
  PROVE  Inv'
<1>1. /\ UNCHANGED <<setup, want, queue, got, overtaken, child, file, listed, aimed,
                     up, air, fault>>
      /\ closed' \in [Sessions -> BOOLEAN] /\ closed'[s]
      /\ down' \in [Sessions -> Seq(Message)] /\ down'[s] = <<>>
      /\ \A t \in Sessions \ {s} : closed'[t] = closed[t] /\ down'[t] = down[t]
  BY DEF Inv, ClientTyped, ServerTyped, Disconnect, server
<1>2. ClientTyped' /\ ServerTyped' /\ NoLateBlock'
  <2>1. ClientTyped'
    BY <1>1 DEF Inv, ClientTyped
  <2>2. ServerTyped'
    BY <1>1 DEF Inv, ServerTyped
  <2>3. NoLateBlock'
    BY DEF NoLateBlock
  <2>4. QED
    BY <2>1, <2>2, <2>3
<1>3. SessionInv(s)'
  <2>1. child[s] # "none"
    BY DEF Inv, SessionInv, Clean
  <2>2. QED
    BY <1>1, <2>1, LeftKeeps
<1>4. \A t \in Sessions \ {s} : Same(t)
  BY <1>1 DEF Same
<1>5. QED
  BY <1>2, <1>3, <1>4, ClientKeeps

\* The client closes its connection.
LEMMA CommandCloseKeeps ==
  ASSUME SessionAssumption, Inv, CommandClose
  PROVE  Inv'
<1>1. /\ pc = "prompt" /\ pc' = "prompt" /\ sess \in Sessions /\ ~closed[sess]
      /\ Disconnect /\ got = {} /\ sess' = sess
      /\ UNCHANGED <<setup, want, queue, got, overtaken, server, up, air, fault>>
  BY
     DEF CommandClose, Type, Connected, KeepClient, KeepTransfer, Inv,
       ClientTyped
<1>2. QED
  BY <1>1, HangUpKeeps

\* what Greeting and Paired say of a session in the dialogue that opens it
LEMMA ConnectingFacts ==
  ASSUME Inv, pc \in ConnectSteps
  PROVE  /\ sess \in Sessions /\ ~closed[sess] /\ ~fault[sess] /\ got = {}
         /\ up[sess] \in Seq(Message) /\ down[sess] \in Seq(Message)
         /\ Connecting(pc, child[sess], up[sess], down[sess])
<1>1. pc # "prompt" /\ pc \notin {"data", "next"}
  BY DEF ConnectSteps
<1>2. sess \in Sessions /\ ~closed[sess] /\ got = {}
  BY <1>1 DEF Inv, ClientTyped
<1>3. ~fault[sess]
  BY <1>2 DEF Inv, SessionInv, Live, Greeting
<1>4. Dialogue(pc, child[sess], up[sess], down[sess], listed[sess], want)
  BY <1>2, <1>3 DEF Inv, SessionInv, Paired
<1>5. Connecting(pc, child[sess], up[sess], down[sess])
  BY <1>4 DEF Dialogue, Listing, Fetching, ConnectSteps
<1>6. QED
  BY <1>2, <1>3, <1>5 DEF Inv, ServerTyped

\* the connection is given up in the dialogue that opens it
LEMMA ConnectFailsKeeps ==
  ASSUME Inv, pc \in ConnectSteps, ConnectFails,
         Orphan(child[sess], up[sess]),
         UNCHANGED <<setup, want, queue, got, overtaken, server, up, air, fault>>
  PROVE  Inv'
<1>1. sess \in Sessions /\ ~closed[sess] /\ got = {}
  BY ConnectingFacts
<1>2. QED
  BY <1>1, HangUpKeeps DEF ConnectFails

\* The client reads the server's revision.
LEMMA NegotiateKeeps ==
  ASSUME SessionAssumption, Inv, Negotiate
  PROVE  Inv'
<1> DEFINE s == sess
<1>1. /\ pc = "revision" /\ Head(down[s]).kind = "revision"
      /\ UNCHANGED <<setup, want, queue, got, overtaken, server, up, air, fault>>
  BY DEF Negotiate, Hears, KeepTransfer
<1>2. pc \in ConnectSteps
  BY <1>1 DEF ConnectSteps
<1>3. /\ s \in Sessions /\ ~closed[s] /\ ~fault[s] /\ got = {}
      /\ up[s] \in Seq(Message) /\ down[s] \in Seq(Message)
      /\ Connecting(pc, child[s], up[s], down[s])
  BY <1>2, ConnectingFacts
<1>4. CASE ConnectFails
  <2>1. Orphan(child[s], up[s])
    BY <1>1, <1>3 DEF Connecting, Orphan
  <2>2. QED
    BY <1>1, <1>2, <1>4, <2>1, ConnectFailsKeeps
<1>5. CASE Take /\ pc' = "challenge" /\ UNCHANGED <<sess, closed, unflushed>>
  <2>1. UNCHANGED <<child, file, listed, aimed>>
    BY <1>1 DEF server
  <2>2. /\ down' \in [Sessions -> Seq(Message)]
        /\ down[s] # <<>> /\ Popped(down[s], down'[s])
        /\ \A t \in Sessions \ {s} : down'[t] = down[t]
    BY <1>3, <1>5, TakeFacts DEF Inv
  <2>3. ClientTyped' /\ ServerTyped' /\ NoLateBlock'
    <3>1. ClientTyped'
      BY <1>1, <1>3, <1>5 DEF Inv, ClientTyped, Reading, ConnectSteps
    <3>2. ServerTyped'
      BY <1>1, <2>1, <2>2 DEF Inv, ServerTyped
    <3>3. NoLateBlock'
      BY <1>5 DEF NoLateBlock
    <3>4. QED
      BY <3>1, <3>2, <3>3
  <2>4. Connecting(pc', child'[s], up'[s], down'[s])
    BY <1>1, <1>3, <1>5, <2>1, <2>2 DEF Connecting, Popped
  <2>5. SessionInv(s)'
    BY <1>1, <1>3, <1>5, <2>4, GreetedKeeps
  <2>6. \A t \in Sessions \ {s} : Same(t)
    BY <1>1, <1>5, <2>1, <2>2 DEF Same
  <2>7. QED
    BY <1>3, <1>5, <2>3, <2>5, <2>6, ClientKeeps
<1>6. QED
  BY <1>4, <1>5 DEF Negotiate

\* The client reads the challenge.
LEMMA AuthenticateKeeps ==
  ASSUME SessionAssumption, Inv, Authenticate
  PROVE  Inv'
<1> DEFINE s == sess
<1>1. /\ pc = "challenge" /\ pc' = "verdict" /\ Head(down[s]).kind = "challenge"
      /\ UNCHANGED <<setup, sess, want, queue, got, overtaken, child, file, listed,
                     aimed, air, closed, fault>>
  BY DEF Authenticate, Hears, KeepClient, KeepTransfer, KeepNet, server
<1>2. PICK m \in Message : m.kind = "digest" /\ Send(<<m>>)
  <2>1. PICK good \in BOOLEAN : Send(<<Msg("digest", good)>>)
    BY DEF Authenticate
  <2>2. good \in Plain
    BY DEF Plain
  <2>3. Msg("digest", good) \in Message /\ Msg("digest", good).kind = "digest"
    BY <2>2, MsgFacts DEF Kinds
  <2>4. QED
    BY <2>1, <2>3
<1>3. pc \in ConnectSteps
  BY <1>1 DEF ConnectSteps
<1>4. /\ s \in Sessions /\ ~closed[s] /\ ~fault[s] /\ got = {}
      /\ up[s] \in Seq(Message) /\ down[s] \in Seq(Message)
      /\ Connecting(pc, child[s], up[s], down[s])
  BY <1>3, ConnectingFacts
<1>5. /\ down' \in [Sessions -> Seq(Message)]
      /\ down[s] # <<>> /\ Popped(down[s], down'[s])
      /\ \A t \in Sessions \ {s} : down'[t] = down[t]
  BY <1>4, TakeFacts DEF Inv, Authenticate
<1>6. /\ up' \in [Sessions -> Seq(Message)] /\ Pushed(up[s], m, up'[s])
      /\ \A t \in Sessions \ {s} : up'[t] = up[t]
  BY <1>2, <1>4, SendFacts DEF Inv
<1>7. ClientTyped' /\ ServerTyped' /\ NoLateBlock'
  <2>1. ClientTyped'
    BY <1>1, <1>4 DEF Inv, ClientTyped, Reading, ConnectSteps
  <2>2. ServerTyped'
    BY <1>1, <1>5, <1>6 DEF Inv, ServerTyped
  <2>3. NoLateBlock'
    BY <1>1 DEF NoLateBlock
  <2>4. QED
    BY <2>1, <2>2, <2>3
<1>8. Connecting(pc', child'[s], up'[s], down'[s])
  <2>1. child[s] = "digest" /\ up[s] = <<>> /\ One(down[s], "challenge")
    BY <1>1, <1>4, <1>5 DEF Connecting
  <2>2. One(up'[s], "digest") /\ down'[s] = <<>>
    BY <1>2, <1>5, <1>6, <2>1 DEF Pushed, Popped
  <2>3. QED
    BY <1>1, <2>1, <2>2 DEF Connecting
<1>9. SessionInv(s)'
  BY <1>1, <1>4, <1>8, GreetedKeeps
<1>10. \A t \in Sessions \ {s} : Same(t)
  BY <1>1, <1>5, <1>6 DEF Same
<1>11. QED
  BY <1>1, <1>4, <1>7, <1>9, <1>10, ClientKeeps

\* The client reads whether it is let in.
LEMMA VerdictKeeps ==
  ASSUME SessionAssumption, Inv, Verdict
  PROVE  Inv'
<1> DEFINE s == sess
<1>1. /\ pc = "verdict"
      /\ UNCHANGED <<setup, want, queue, got, overtaken, server, up, air, fault>>
  BY DEF Verdict, KeepTransfer
<1>2. pc \in ConnectSteps
  BY <1>1 DEF ConnectSteps
<1>3. /\ s \in Sessions /\ ~closed[s] /\ ~fault[s] /\ got = {}
      /\ up[s] \in Seq(Message) /\ down[s] \in Seq(Message)
      /\ Connecting(pc, child[s], up[s], down[s])
  BY <1>2, ConnectingFacts
<1>4. CASE Hears("fail") /\ ConnectFails
  <2>1. down[s] # <<>> /\ Head(down[s]).kind = "fail"
    BY <1>4 DEF Hears
  <2>2. up[s] = <<>>
    BY <1>1, <1>3, <2>1, KindFacts DEF Connecting
  <2>3. Orphan(child[s], up[s])
    BY <2>2 DEF Orphan
  <2>4. QED
    BY <1>1, <1>2, <1>4, <2>3, ConnectFailsKeeps
<1>5. CASE Hears("ok") /\ Take /\ pc' = "prompt" /\ UNCHANGED <<sess, closed,
                                                                unflushed>>
  <2>1. UNCHANGED <<child, file, listed, aimed>> /\ Head(down[s]).kind = "ok"
    BY <1>1, <1>5 DEF server, Hears
  <2>2. /\ down' \in [Sessions -> Seq(Message)]
        /\ down[s] # <<>> /\ Popped(down[s], down'[s])
        /\ \A t \in Sessions \ {s} : down'[t] = down[t]
    BY <1>3, <1>5, TakeFacts DEF Inv
  <2>3. ClientTyped' /\ ServerTyped' /\ NoLateBlock'
    <3>1. ClientTyped'
      BY <1>1, <1>3, <1>5 DEF Inv, ClientTyped
    <3>2. ServerTyped'
      BY <1>1, <2>1, <2>2 DEF Inv, ServerTyped
    <3>3. NoLateBlock'
      BY <1>5 DEF NoLateBlock
    <3>4. QED
      BY <3>1, <3>2, <3>3
  <2>4. child[s] = "line" /\ up[s] = <<>> /\ One(down[s], "ok")
    BY <1>1, <1>3, <2>1, <2>2, KindFacts DEF Connecting
  <2>5. down'[s] = <<>>
    BY <2>2, <2>4 DEF Popped
  <2>6. SessionInv(s)'
    BY <1>1, <1>3, <1>5, <2>1, <2>4, <2>5, GreetedKeeps
  <2>7. \A t \in Sessions \ {s} : Same(t)
    BY <1>1, <1>5, <2>1, <2>2 DEF Same
  <2>8. QED
    BY <1>3, <1>5, <2>3, <2>6, <2>7, ClientKeeps
<1>6. QED
  BY <1>4, <1>5 DEF Verdict

\* The client finds the end of the stream.
LEMMA EndOfStreamKeeps ==
  ASSUME SessionAssumption, Inv, EndOfStream
  PROVE  Inv'
<1> DEFINE s == sess
<1>1. /\ pc \in Reading /\ child[s] = "ended" /\ down[s] = <<>>
      /\ UNCHANGED <<setup, server, up, air, fault>>
  BY DEF EndOfStream
<1>2. CASE pc \in ConnectSteps /\ ConnectFails /\ KeepTransfer
  <2>1. Connecting(pc, child[s], up[s], down[s])
    BY <1>2, ConnectingFacts
  <2>2. Orphan(child[s], up[s])
    BY <1>1, <2>1 DEF Connecting, Orphan
  <2>3. QED
    BY <1>1, <1>2, <2>2, ConnectFailsKeeps DEF KeepTransfer
<1>3. CASE pc \notin ConnectSteps /\ Return /\ UNCHANGED <<sess, unflushed, closed,
                                                           down>>
  <2>1. /\ pc' = "prompt" /\ want' = None /\ queue' = <<>> /\ got' = {}
        /\ overtaken' = {}
        /\ pc # "prompt"
        /\ UNCHANGED <<setup, sess, child, file, listed, aimed, up, down, air, closed,
                       fault>>
    BY <1>1, <1>3 DEF Return, server, Reading, ConnectSteps
  <2>2. s \in Sessions /\ ~closed[s]
    BY <2>1 DEF Inv, ClientTyped
  <2>3. ClientTyped' /\ ServerTyped' /\ NoLateBlock'
    BY <2>1 DEF Inv, ClientTyped, ServerTyped, NoLateBlock
  <2>4. ~Dialogue(pc, child[s], up[s], down[s], listed[s], want)
    BY <1>1, <1>3
       DEF Dialogue, Connecting, Listing, Fetching, Asks, Idle, ConnectSteps
  <2>5. Call(s)
    BY <1>1, <1>3, <2>1, <2>2, <2>4 DEF Call, ConnectSteps, Same
  <2>6. QED
    BY <2>2, <2>3, <2>5, CallKeeps
<1>4. QED
  BY <1>2, <1>3 DEF EndOfStream

\* the client process ends: each of its sessions is left
LEMMA RestartKeeps ==
  ASSUME SessionAssumption, Inv, Restart,
         fault' \in [Sessions -> BOOLEAN], up' \in [Sessions -> Seq(Message)],
         \A t \in Sessions :
            /\ up'[t] = up[t] \/ (fault'[t] /\ child[t] # "none")
            /\ fault[t] => fault'[t]
            /\ child[t] = "none" => fault'[t] = fault[t]
            /\ sess # t \/ fault'[t] \/ pc = "prompt"
  PROVE  Inv'
<1>1. /\ sess' = 0 /\ pc' = "prompt" /\ want' = None /\ queue' = <<>>
      /\ got' = {} /\ overtaken' = {}
      /\ UNCHANGED <<setup, child, file, listed, aimed, air>>
      /\ closed' = [t \in Sessions |-> closed[t] \/ child[t] # "none"]
      /\ down' = [t \in Sessions |-> <<>>]
  BY DEF Restart, Return, server
<1>2. ClientTyped'
  BY <1>1 DEF Inv, ClientTyped
<1>3. ServerTyped'
  BY <1>1 DEF Inv, ServerTyped
<1>4. NoLateBlock'
  BY <1>1 DEF NoLateBlock
<1>5. ASSUME NEW t \in Sessions PROVE SessionInv(t)'
  <2>1. child[t] = "none" => ~closed[t] /\ ~fault[t]
    BY DEF Inv, SessionInv, Clean
  <2>2. sess' # t
    BY <1>1 DEF Sessions
  <2>3. down'[t] = <<>> /\ (closed'[t] <=> closed[t] \/ child[t] # "none")
    BY <1>1
  <2>4. QED
    BY <1>1, <2>1, <2>2, <2>3, LeftKeeps
<1>6. QED
  BY <1>2, <1>3, <1>4, <1>5 DEF Inv

\* The user quits.
LEMMA CommandQuitKeeps ==
  ASSUME SessionAssumption, Inv, CommandQuit
  PROVE  Inv'
<1>1. pc = "prompt" /\ Restart /\ UNCHANGED <<up, fault>>
  BY DEF CommandQuit, Type
<1>2. fault' \in [Sessions -> BOOLEAN] /\ up' \in [Sessions -> Seq(Message)]
  BY <1>1 DEF Inv, ServerTyped
<1>3. QED
  BY <1>1, <1>2, RestartKeeps

\* Sessions with a message in a stdio buffer have been connected.
Buffered == \A t \in unflushed : t \in Sessions /\ child[t] # "none"

\* The client is killed.
LEMMA KilledKeeps ==
  ASSUME SessionAssumption, Inv, Buffered, Killed
  PROVE  Inv'
<1>1. /\ Restart
      /\ up' = [t \in Sessions |-> IF t \in unflushed THEN WithoutLast(up[t])
                                                    ELSE up[t]]
      /\ fault' = [t \in Sessions |-> fault[t] \/ t \in unflushed \/ t = sess]
  BY DEF Killed
<1>2. up' \in [Sessions -> Seq(Message)]
  <2>1. \A q \in Seq(Message) : WithoutLast(q) \in Seq(Message)
    BY DEF WithoutLast
  <2>2. QED
    BY <1>1, <2>1 DEF Inv, ServerTyped
<1>3. fault' \in [Sessions -> BOOLEAN]
  BY <1>1 DEF Inv, ServerTyped
<1>4. ASSUME NEW t \in Sessions
      PROVE  /\ up'[t] = up[t] \/ (fault'[t] /\ child[t] # "none")
             /\ fault[t] => fault'[t]
             /\ child[t] = "none" => fault'[t] = fault[t]
             /\ sess # t \/ fault'[t] \/ pc = "prompt"
  <2>1. child[t] = "none" => t \notin unflushed /\ t # sess
    BY DEF Buffered, Inv, SessionInv, Clean
  <2>2. fault'[t] <=> fault[t] \/ t \in unflushed \/ t = sess
    BY <1>1
  <2>3. t \notin unflushed => up'[t] = up[t]
    BY <1>1
  <2>4. fault[t] \in BOOLEAN /\ fault'[t] \in BOOLEAN
    BY <1>3 DEF Inv, ServerTyped
  <2>5. QED
    BY <2>1, <2>2, <2>3, <2>4
<1>5. QED
  BY <1>1, <1>2, <1>3, <1>4, RestartKeeps

-----------------------------------------------------------------------------
(* The theorems. *)

\* The invariant holds at the start.
LEMMA InitInv ==
  ASSUME SessionAssumption, Init
  PROVE  Inv
<1>1. \A t \in Sessions :
        /\ child[t] = "none" /\ file[t] = None /\ listed[t] = <<>> /\ ~aimed[t]
        /\ up[t] = <<>> /\ down[t] = <<>> /\ air[t] = {}
        /\ ~closed[t] /\ ~fault[t]
  BY DEF Init
<1>2. ClientTyped
  BY DEF Init, ClientTyped
<1>3. ServerTyped
  <2>1. <<>> \in Seq(Message) /\ <<>> \in Seq(Files)
    OBVIOUS
  <2>2. QED
    BY <1>1, <2>1 DEF Init, ServerTyped, ChildStates
<1>4. NoLateBlock
  BY DEF Init, NoLateBlock
<1>5. ASSUME NEW t \in Sessions PROVE SessionInv(t)
  <2>1. sess # t
    BY DEF Init, Sessions
  <2>2. QED
    BY <1>1, <2>1 DEF SessionInv, Clean, Paired, Live, Orphan
<1>6. QED
  BY <1>2, <1>3, <1>4, <1>5 DEF Inv

\* Every step keeps it.
LEMMA NextKeeps ==
  ASSUME SessionAssumption, Inv, Buffered, [Next]_vars
  PROVE  Inv'
<1>1. CASE Commands
  BY <1>1, ConnectKeeps, ConnectRefusedKeeps, CommandCloseKeeps, CommandDirKeeps,
     CommandGetKeeps, CommandGetAllKeeps, CommandQuitKeeps DEF Commands
<1>2. CASE Replies
  BY <1>2, NegotiateKeeps, AuthenticateKeeps, VerdictKeeps, ReadListKeeps,
     ReadCountKeeps, ReadRefusalKeeps, ReadNamesKeeps, ReadResultKeeps,
     ReadReplyKeeps, NextFileKeeps, EndOfStreamKeeps DEF Replies
<1>3. CASE Abort
  BY <1>3, AbortKeeps
<1>4. CASE Killed
  BY <1>4, KilledKeeps
<1>5. ASSUME NEW s \in Sessions, Serve(s) PROVE Inv'
  BY <1>5, GreetKeeps, CheckRevisionKeeps, CheckDigestKeeps, ReadFilenameKeeps,
     SendListKeeps, ReadAckKeeps, SendCountKeeps, ReadGotSizeKeeps,
     ReadGotListKeeps, ReadListedKeeps, ReadStrayKeeps, ReadParametersKeeps,
     OpenPortKeeps, ReadRequestKeeps DEF Serve
<1>6. ASSUME NEW s \in Sessions,
             \/ SendBlock(s) \/ HeartbeatTimeout(s) \/ ReadFails(s) \/ SeeEnd(s)
      PROVE  Inv'
  BY <1>6, SendBlockKeeps, HeartbeatTimeoutKeeps, ReadFailsKeeps, SeeEndKeeps
<1>7. ASSUME NEW s \in Sessions, NEW f \in Files,
             LastBlock(s, f) \/ EarlierBlock(s, f) \/ LoseDatagram(s, f)
      PROVE  Inv'
  BY <1>7, LastBlockKeeps, EarlierBlockKeeps, LoseDatagramKeeps
<1>8. CASE UNCHANGED vars
  BY <1>8 DEF vars, client, server, bounds, Inv, ClientTyped, ServerTyped,
     NoLateBlock, SessionInv, Clean, Paired, Live, Greeting, ReplyFresh,
     ParamFresh, OkFresh, LineLast, Receiving
<1>9. QED
  BY <1>1, <1>2, <1>3, <1>4, <1>5, <1>6, <1>7, <1>8 DEF Next

\* A child never goes back to before its connection, and only a client with a
\* connection leaves a message in a buffer.
LEMMA BufferedKeeps ==
  ASSUME Inv, Buffered, [Next]_vars
  PROVE  Buffered'
<1>1. SUFFICES
        /\ \A t \in Sessions : child[t] # "none" => child'[t] # "none"
        /\ \/ unflushed' \subseteq unflushed
           \/ /\ unflushed' \subseteq unflushed \cup {sess}
              /\ sess \in Sessions /\ child[sess] # "none"
  BY DEF Buffered
<1> USE DEF server, KeepClient, KeepTransfer
<1>2. CASE Commands \/ Abort \/ Killed \/ (Replies /\ ~ReadList)
  BY <1>2 DEF Inv, ServerTyped, Commands, Replies, Connect, ConnectRefused,
     CommandClose, CommandDir, CommandGet, CommandGetAll, CommandQuit, Abort, Killed,
     Restart, Disconnect, Request, Send, Negotiate, Authenticate, Verdict,
     ReadCount, ReadRefusal, ReadNames, ReadResult, ReadReply, NextFile,
     EndOfStream, ConnectFails
<1>3. CASE ReadList
  <2>1. sess \in Sessions
    BY <1>3 DEF ReadList, Inv, ClientTyped
  <2>2. child[sess] # "none"
    BY <2>1 DEF Inv, SessionInv, Clean
  <2>3. QED
    BY <1>3, <2>1, <2>2 DEF ReadList
<1>4. ASSUME NEW s \in Sessions,
             Serve(s) \/ HeartbeatTimeout(s) \/ ReadFails(s) \/ SeeEnd(s)
      PROVE  /\ unflushed' = unflushed
             /\ child' = child \/ \E c \in ChildStates \ {"none"} : Becomes(s, c)
  BY <1>4 DEF ChildStates, Awaited, Serve, Talks, ChildStep, client, Finish,
     Greet, CheckRevision, CheckDigest, OpenFile, ReadFilename, SendList,
     ReadAck, SendCount, ReadGotSize, ReadGotList, ReadListed, ReadStray,
     ReadParameters, OpenPort, ReadRequest, HeartbeatTimeout, ReadFails, SeeEnd
<1>5. ASSUME NEW s \in Sessions,
             SendBlock(s) \/ \E f \in Files :
                LastBlock(s, f) \/ EarlierBlock(s, f) \/ LoseDatagram(s, f)
      PROVE  child' = child /\ unflushed' \subseteq unflushed
  BY <1>5 DEF SendBlock, ChildStep, client, LastBlock, EarlierBlock, ReceiveBlock,
     Feedback, Send, LoseDatagram
<1>6. ASSUME NEW s \in Sessions, NEW c \in ChildStates \ {"none"}, Becomes(s, c)
      PROVE  \A t \in Sessions : child[t] # "none" => child'[t] # "none"
  BY <1>6 DEF Becomes, Inv, ServerTyped
<1>7. CASE UNCHANGED vars
  BY <1>7 DEF vars, client
<1>8. QED
  BY <1>2, <1>3, <1>4, <1>5, <1>6, <1>7 DEF Next

\* The invariant holds in every state of the session.
THEOREM SpecInv == Spec => [](Inv /\ Buffered)
<1>1. Init => Inv /\ Buffered
  BY SessionAssumption, InitInv DEF Init, Buffered
<1>2. Inv /\ Buffered /\ [Next]_vars => (Inv /\ Buffered)'
  BY SessionAssumption, NextKeeps, BufferedKeeps
<1>3. QED
  BY <1>1, <1>2, PTL DEF Spec

\* Type correctness: every variable keeps its type, every message a known kind.
THEOREM SessionTyped == Spec => []TypeOK
<1>1. Inv /\ Buffered => TypeOK
  <2>1. SUFFICES ASSUME Inv, Buffered PROVE TypeOK
    OBVIOUS
  <2>2. \A q \in Seq(Message) : \A i \in 1 .. Len(q) : q[i].kind \in Kinds
    <3>1. ASSUME NEW q \in Seq(Message), NEW i \in 1 .. Len(q)
          PROVE  q[i] \in Message
      OBVIOUS
    <3>2. \A m \in Message : m.kind \in Kinds
      BY DEF Message, Kinds
    <3>3. QED
      BY <3>1, <3>2
  <2>3. QED
    BY <2>1, <2>2 DEF TypeOK, Inv, ClientTyped, ServerTyped, Buffered
<1>2. QED
  BY <1>1, SpecInv, PTL

\* For every number of sessions, files and failures, and whatever the network
\* delays: a session puts a block of an earlier file into a later one only if the
\* later one's reply had overtaken it.
THEOREM NeverALateBlock == Spec => []NoLateBlock
<1>1. Inv => NoLateBlock
  BY DEF Inv
<1>2. QED
  BY <1>1, SpecInv, PTL

\* While the client takes datagrams its child serves the file that was asked for
\* and sends it to the client's port, unless something has failed.
THEOREM ServerServesTheWanted == Spec => []ServesTheWanted
<1>1. Inv => ServesTheWanted
  <2>1. SUFFICES ASSUME Inv, pc = "data", ~fault[sess]
                 PROVE  /\ child[sess] \in {"port", "data"} /\ file[sess] = want
                        /\ child[sess] = "data" => aimed[sess]
    BY DEF ServesTheWanted
  <2>2. sess \in Sessions /\ ~closed[sess]
    BY <2>1 DEF Inv, ClientTyped
  <2>3. Receiving(sess)
    BY <2>1, <2>2 DEF Inv, SessionInv, Live
  <2>4. QED
    BY <2>1, <2>3 DEF Receiving
<1>2. QED
  BY <1>1, SpecInv, PTL

\* The entries of ChildHandles.
LEMMA ChildHandlesFacts ==
  /\ {"start", "revision", "digest", "line", "name", "ack", "gotSize",
      "gotList", "param", "port", "data"} \subseteq DOMAIN ChildHandles
  /\ ChildHandles["start"] = {"revision"}
  /\ ChildHandles["revision"] = {"revision"}
  /\ ChildHandles["digest"] = {"digest"}
  /\ ChildHandles["line"] = {"line"} /\ ChildHandles["name"] = {"line"}
  /\ ChildHandles["ack"] = {"ack"} /\ ChildHandles["gotSize"] = {"gotSize"}
  /\ ChildHandles["gotList"] = {"gotList"} /\ ChildHandles["param"] = {"param"}
  /\ ChildHandles["port"] = {"port"}
  /\ ChildHandles["data"] = {"stop", "feedback"}
  BY DEF ChildHandles

\* The entries of ClientHandles.
LEMMA ClientHandlesFacts ==
  /\ {"revision", "challenge", "verdict", "list", "count", "refusal", "names",
      "result", "reply"} \subseteq DOMAIN ClientHandles
  /\ ClientHandles["revision"] = {"revision"}
  /\ ClientHandles["challenge"] = {"challenge"}
  /\ ClientHandles["verdict"] = {"ok", "fail"}
  /\ ClientHandles["list"] = {"list"} /\ ClientHandles["count"] = {"count"}
  /\ ClientHandles["refusal"] = {"fail"} /\ ClientHandles["names"] = {"names"}
  /\ ClientHandles["result"] = {"ok", "fail"} /\ ClientHandles["reply"] = {"reply"}
  BY DEF ClientHandles

\* Client and child never fall out of step while nothing fails: each finds on the
\* connection only what it waits for, and a command leaves nothing over.
THEOREM AlwaysInStep == Spec => []InStep
<1>1. ASSUME Inv, NEW s \in Sessions, ~fault[s], up[s] # <<>>
      PROVE  /\ child[s] \in DOMAIN ChildHandles
             /\ Head(up[s]).kind \in ChildHandles[child[s]]
  <2>1. Paired(s) /\ up[s] \in Seq(Message)
    BY <1>1 DEF Inv, SessionInv, ServerTyped
  <2>2. \/ child[s] \in {"start", "revision"} /\ Head(up[s]).kind = "revision"
        \/ child[s] = "digest" /\ Head(up[s]).kind = "digest"
        \/ child[s] \in {"line", "name"} /\ Head(up[s]).kind = "line"
        \/ child[s] = "ack" /\ Head(up[s]).kind = "ack"
        \/ child[s] = "gotSize" /\ Head(up[s]).kind = "gotSize"
        \/ child[s] = "gotList" /\ Head(up[s]).kind = "gotList"
        \/ child[s] = "param" /\ Head(up[s]).kind = "param"
        \/ child[s] = "port" /\ Head(up[s]).kind = "port"
        \/ child[s] = "data" /\ Head(up[s]).kind \in {"stop", "feedback"}
    BY <1>1, <2>1, KindFacts
       DEF Paired, Dialogue, Connecting, Listing, Fetching, Asks, Idle, Orphan
  <2>3. QED
    BY <2>2, ChildHandlesFacts
<1>2. ASSUME Inv, NEW s \in Sessions, ~fault[s], s = sess, down[s] # <<>>
      PROVE  /\ pc \in DOMAIN ClientHandles
             /\ Head(down[s]).kind \in ClientHandles[pc]
  <2>1. Paired(s) /\ down[s] \in Seq(Message)
    BY <1>2 DEF Inv, SessionInv, ServerTyped
  <2>2. \/ pc = "revision" /\ Head(down[s]).kind = "revision"
        \/ pc = "challenge" /\ Head(down[s]).kind = "challenge"
        \/ pc \in {"verdict", "result"} /\ Head(down[s]).kind \in {"ok", "fail"}
        \/ pc = "list" /\ Head(down[s]).kind = "list"
        \/ pc = "count" /\ Head(down[s]).kind = "count"
        \/ pc = "refusal" /\ Head(down[s]).kind = "fail"
        \/ pc = "names" /\ Head(down[s]).kind = "names"
        \/ pc = "reply" /\ Head(down[s]).kind = "reply"
    BY <1>2, <2>1, KindFacts
       DEF Paired, Dialogue, Connecting, Listing, Fetching
  <2>3. QED
    BY <2>2, ClientHandlesFacts
<1>3. Inv => InStep
  BY <1>1, <1>2 DEF InStep
<1>4. QED
  BY <1>3, SpecInv, PTL
=============================================================================
