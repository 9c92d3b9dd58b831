---------------------------- MODULE DatagramFile ----------------------------
(***************************************************************************)
(* The UDP upload of test(준우): the sender sends the file in datagrams of    *)
(* Buffer bytes, the last one shorter, and then words of thanks on a socket   *)
(* it has shut down; the receiver writes what comes until a datagram is       *)
(* shorter than Buffer.  Nothing is numbered, nothing is answered, and UDP    *)
(* loses, doubles and reorders.                                             *)
(***************************************************************************)
EXTENDS Integers, Sequences

CONSTANTS Buffer,   \* BUF_SIZE of both programs
          Sizes     \* sizes of the file to send

VARIABLES size,     \* of the file
          sender,   \* next piece to send, then Thanks and Closed
          wire,     \* datagrams on their way
          receiver, \* "receiving", "ended" or "crashed"
          file,     \* what the receiver has written
          upset     \* a datagram was lost, doubled, or overtaken by a later one,
                    \* or recvfrom has failed

vars == <<size, sender, wire, receiver, file, upset>>

Pieces == size \div Buffer + 1
Thanks == Pieces + 1
Closed == Pieces + 2

\* the k-th call of fread gives Buffer bytes, the last one fewer, maybe none
Piece(k) == [i \in 1 .. IF k = Pieces THEN size % Buffer ELSE Buffer |->
                (k - 1) * Buffer + i]
Data(d) == IF d = Thanks THEN <<0>> ELSE Piece(d)

Init == /\ size \in Sizes /\ sender = 1 /\ wire = <<>>
        /\ receiver = "receiving" /\ file = <<>> /\ upset = FALSE

Send == /\ sender \in 1 .. Pieces
        /\ wire' = Append(wire, sender)
        /\ sender' = IF Len(Piece(sender)) < Buffer THEN Thanks ELSE sender + 1
        /\ UNCHANGED <<size, receiver, file, upset>>

\* sendto after shutdown(SD_SEND), whose result is not looked at
SendThanks == /\ sender = Thanks /\ sender' = Closed
              /\ wire' \in {wire, Append(wire, Thanks)}
              /\ UNCHANGED <<size, receiver, file, upset>>

Without(k) == SubSeq(wire, 1, k - 1) \o SubSeq(wire, k + 1, Len(wire))

ReceiveEndUnwritten(k) ==
    /\ receiver = "receiving" /\ wire' = Without(k)
    /\ receiver' = IF Len(Data(wire[k])) < Buffer THEN "ended" ELSE receiver
    /\ file' = IF receiver' = "ended" THEN file ELSE file \o Data(wire[k])
    /\ upset' = (upset \/ k > 1)
    /\ UNCHANGED <<size, sender>>

\* an empty datagram ends the loop by its condition, a short one by the break
Receive(k) ==
    /\ receiver = "receiving" /\ wire' = Without(k)
    /\ file' = file \o Data(wire[k])
    /\ receiver' = IF Len(Data(wire[k])) < Buffer THEN "ended" ELSE receiver
    /\ upset' = (upset \/ k > 1)
    /\ UNCHANGED <<size, sender>>

\* recvfrom gives -1: so many bytes are to be written, and the loop is left
ReceiveError ==
    /\ receiver = "receiving" /\ receiver' \in {"ended", "crashed"}
    /\ file' \in {file, Append(file, 0)} /\ upset' = TRUE
    /\ UNCHANGED <<size, sender, wire>>

Lose(k) == /\ wire' = Without(k) /\ upset' = TRUE
           /\ UNCHANGED <<size, sender, receiver, file>>

\* (bound) only of datagrams that nothing has upset so far
Double(k) == /\ ~upset /\ wire' = Append(wire, wire[k]) /\ upset' = TRUE
             /\ UNCHANGED <<size, sender, receiver, file>>

Next == \/ Send \/ SendThanks \/ ReceiveError
        \/ \E k \in DOMAIN wire : Receive(k) \/ Lose(k) \/ Double(k)

TypeOK == /\ sender \in 1 .. Closed
          /\ receiver \in {"receiving", "ended", "crashed"} /\ upset \in BOOLEAN
          /\ \A i \in DOMAIN wire : wire[i] \in 1 .. Thanks
          /\ \A i \in DOMAIN file : file[i] \in 0 .. size

\* A receiver that ends has the whole file unless a datagram was lost, doubled or
\* overtaken or recvfrom failed, at every size: one that is a multiple of BUF_SIZE
\* is ended by an empty datagram (sender lines 50-58, receiver lines 69-84).
WholeUnlessUpset ==
    receiver = "ended" /\ ~upset => file = [i \in 1 .. size |-> i]

\* Unless something upsets it the receiver ends: it does not wait for more.
EndsUnlessUpset == <>(receiver = "ended" \/ upset)
=============================================================================
